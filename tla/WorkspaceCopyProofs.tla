-------------------------- MODULE WorkspaceCopyProofs --------------------------
(***************************************************************************)
(* Proofs about WorkspaceCopy and Bundles for any contents, any number of  *)
(* claims and any number of faults.                                        *)
(***************************************************************************)
EXTENDS WorkspaceCopy, TLAPS

-----------------------------------------------------------------------------
(* The inductive invariant *)

\* The holder of the lock writes what the record selected, and has written all of it at the end.
WriterFollowsSelection ==
    /\ bundle.state = "none" => writer.at = "idle"
    /\ bundle.state = "ready" => bundle.header \in Payloads
    /\ writer.at \in {"writing", "written"} => bundle.header = writer.sends
    /\ writer.at = "written" => payload = bundle.header

\* The target exists from its accepted creation on.
TargetIsCreated == op["creation"].state # "succeeded" => target = <<>>

\* A restore that succeeded has published its copy, and completion is reported after that only.
RestoreHasLanded ==
    /\ op["restore"].state = "succeeded" => source.empty \/ (Len(target) >= 2 /\ target[2] = "copy")
    /\ journal.completed => op["restore"].state = "succeeded"
    /\ \A i \in DOMAIN target : target[i] = "copy" => i = 2

BundleInvariant == BundleTypeOK /\ WriterFollowsSelection /\ ReadyBundleIsComplete

CopyInvariant ==
    TypeOK /\ WriterFollowsSelection /\ ReadyBundleIsComplete /\ TargetIsCreated /\ RestoreHasLanded
    /\ SourceHeldUntilDecided

-----------------------------------------------------------------------------
(* Bundles *)

\* A step of the bundle keeps the types and the invariant of its writer.
LEMMA BundleStep ==
    ASSUME BundleInvariant, BundleNext PROVE BundleInvariant'
<1>1. CASE createBundle
    <2>1. PICK h \in Payloads \cup {NoPayload} : bundle' = [bundle EXCEPT !.state = "open", !.header = h]
        BY <1>1 DEF createBundle
    <2>2. bundle' \in BundleRecord /\ bundle'.state = "open"
        BY <2>1 DEF BundleInvariant, BundleTypeOK, BundleRecord
    <2>3. writer.at = "idle"
        BY <1>1 DEF createBundle, BundleInvariant, WriterFollowsSelection
    <2>4. UNCHANGED <<payload, writer>>
        BY <1>1 DEF createBundle
    <2>5. QED BY <2>2, <2>3, <2>4
              DEF BundleInvariant, BundleTypeOK, WriterFollowsSelection, ReadyBundleIsComplete
<1>2. ASSUME NEW c \in Payloads, acquireCompatibilityLock(c) PROVE BundleInvariant'
    <2>1. writer' = [at |-> "locked", sends |-> c] /\ UNCHANGED <<bundle, payload>> /\ bundle.state # "none"
        BY <1>2 DEF acquireCompatibilityLock
    <2>2. writer' \in WriterRecord
        BY <2>1 DEF WriterRecord
    <2>3. QED BY <2>1, <2>2
              DEF BundleInvariant, BundleTypeOK, WriterFollowsSelection, ReadyBundleIsComplete
<1>3. CASE selectBundleManifest
    <2>1. writer.sends \in Payloads /\ bundle.state # "none"
        BY <1>3 DEF selectBundleManifest, BundleInvariant, BundleTypeOK, WriterFollowsSelection
    <2>2. /\ bundle' = [bundle EXCEPT !.header = writer.sends] /\ writer' = [writer EXCEPT !.at = "writing"]
          /\ payload' \in {payload, "partial"} /\ (bundle.state = "ready" => payload' = payload)
          /\ bundle.header \in {NoPayload, writer.sends}
        BY <1>3 DEF selectBundleManifest, removed
    <2>3. /\ bundle' \in BundleRecord /\ writer' \in WriterRecord
          /\ bundle'.header = writer.sends /\ bundle'.state = bundle.state
          /\ writer'.at = "writing" /\ writer'.sends = writer.sends
        BY <2>1, <2>2 DEF BundleInvariant, BundleTypeOK, BundleRecord, WriterRecord
    <2>4. bundle.state = "ready" => bundle.header = writer.sends
        BY <2>2, PayloadAssumption DEF BundleInvariant, WriterFollowsSelection
    <2>5. QED BY <2>1, <2>2, <2>3, <2>4
              DEF BundleInvariant, BundleTypeOK, WriterFollowsSelection, ReadyBundleIsComplete
<1>4. CASE writeFiles
    <2>1. /\ writer.sends \in Payloads /\ bundle.header = writer.sends /\ bundle.state # "none"
          /\ UNCHANGED bundle /\ writer' = [writer EXCEPT !.at = "written"]
          /\ payload' = IF bundle.state = "ready" THEN payload ELSE writer.sends
        BY <1>4 DEF writeFiles, BundleInvariant, BundleTypeOK, WriterFollowsSelection
    <2>2. writer' \in WriterRecord /\ writer'.at = "written" /\ writer'.sends = writer.sends
        BY <2>1 DEF BundleInvariant, BundleTypeOK, WriterRecord
    <2>3. payload' = bundle.header
        BY <2>1 DEF BundleInvariant, ReadyBundleIsComplete
    <2>4. QED BY <2>1, <2>2, <2>3
              DEF BundleInvariant, BundleTypeOK, WriterFollowsSelection, ReadyBundleIsComplete
<1>5. CASE completeBundle
    <2>1. /\ writer.sends \in Payloads /\ bundle.header = writer.sends /\ payload = bundle.header
          /\ bundle' = [bundle EXCEPT !.state = "ready"] /\ writer' = Unlocked /\ UNCHANGED payload
        BY <1>5 DEF completeBundle, BundleInvariant, BundleTypeOK, WriterFollowsSelection
    <2>2. bundle' \in BundleRecord /\ bundle'.state = "ready" /\ bundle'.header = bundle.header
        BY <2>1 DEF BundleInvariant, BundleTypeOK, BundleRecord
    <2>3. QED BY <2>1, <2>2
              DEF BundleInvariant, BundleTypeOK, WriterFollowsSelection, ReadyBundleIsComplete, Unlocked, WriterRecord
<1>6. CASE interrupted
    BY <1>6 DEF interrupted, BundleInvariant, BundleTypeOK, WriterFollowsSelection, ReadyBundleIsComplete,
                Unlocked, WriterRecord
<1>7. QED BY <1>1, <1>2, <1>3, <1>4, <1>5, <1>6 DEF BundleNext

-----------------------------------------------------------------------------
(* Types of the copy *)

\* The part of the types that the steps of a copy change.
CopyTypeOK ==
    /\ source \in [kind: {"revision", "bundle"}, empty: BOOLEAN]
    /\ pin \in {"none", "held", "released"} /\ journal \in JournalRecord
    /\ op \in [Operations -> OperationRecord] /\ target \in Seq({"initial", "copy", "other"})
    /\ caller \in {"idle", "pinned", "creating", "processing", "created", "restoring"}
    /\ workers \in [Processes -> WorkerRecord] /\ authorized \in BOOLEAN /\ faults \in 0 .. MaxFaults

\* Fences and idle workers are well typed.
LEMMA CopyBasics ==
    /\ 0 \in 0 .. MaxFence /\ 1 \in 0 .. MaxFence
    /\ "creation" \in Operations /\ "restore" \in Operations
    /\ "caller" \in Processes /\ "maintenance" \in Processes
    /\ Off \in WorkerRecord
<1>1. 0 \in 0 .. MaxFence /\ 1 \in 0 .. MaxFence
    BY CopyBounds
<1>2. QED BY <1>1 DEF Operations, Processes, Off, WorkerRecord

\* The steps of the caller keep the types.
LEMMA TypeCaller ==
    ASSUME CopyTypeOK, CallerNext PROVE CopyTypeOK'
<1>1. ASSUME NEW o \in Operations
      PROVE  /\ Claimed(o) \in [Operations -> OperationRecord]
             /\ [workers EXCEPT !["caller"] = [Off EXCEPT !.op = o, !.fence = 1]] \in [Processes -> WorkerRecord]
    <2>1. [state |-> "processing", fence |-> 1, live |-> TRUE, prepared |-> FALSE] \in OperationRecord
        BY CopyBasics DEF OperationRecord
    <2>2. [Off EXCEPT !.op = o, !.fence = 1] \in WorkerRecord
        BY CopyBasics DEF Off, WorkerRecord
    <2>3. QED BY <2>1, <2>2 DEF CopyTypeOK, Claimed
<1>2. CASE claimCopySourcePin
    BY <1>2 DEF CopyTypeOK, claimCopySourcePin
<1>3. CASE saveJournal
    <2>1. journal' \in JournalRecord
        BY <1>3 DEF CopyTypeOK, saveJournal, JournalRecord
    <2>2. QED BY <1>3, <2>1 DEF CopyTypeOK, saveJournal
<1>4. CASE claimWorkspaceCreation
    BY <1>1, <1>4, CopyBasics DEF CopyTypeOK, claimWorkspaceCreation
<1>5. CASE createTarget
    <2>1. [journal EXCEPT !.creation = TRUE] \in JournalRecord
        BY DEF CopyTypeOK, JournalRecord
    <2>2. QED BY <1>5, <2>1 DEF CopyTypeOK, createTarget, completeCopySourcePin, Returns
<1>6. CASE claimRestore
    BY <1>1, <1>6, CopyBasics DEF CopyTypeOK, claimRestore, Returns
<1>7. CASE copyWorkspace
    <2>1. journal' \in JournalRecord
        BY <1>7 DEF CopyTypeOK, copyWorkspace, JournalRecord
    <2>2. QED BY <1>7, <2>1 DEF CopyTypeOK, copyWorkspace, completeCopySourcePin, Returns
<1>8. QED BY <1>2, <1>3, <1>4, <1>5, <1>6, <1>7 DEF CallerNext

\* An operation that ends keeps the types.
LEMMA TypeEnds ==
    ASSUME CopyTypeOK, NEW p \in Processes, workers[p].op \in Operations,
           NEW outcome \in {"succeeded", "failed"}, Ends(p, outcome)
    PROVE  op' \in [Operations -> OperationRecord] /\ workers' \in [Processes -> WorkerRecord]
<1>1. [op[workers[p].op] EXCEPT !.state = outcome] \in OperationRecord
    BY DEF CopyTypeOK, OperationRecord
<1>2. QED BY <1>1, CopyBasics DEF CopyTypeOK, Ends

\* A worker with a claim works on an operation.
LEMMA CurrentOp ==
    ASSUME CopyTypeOK, NEW p \in Processes, Current(p)
    PROVE  workers[p].op \in Operations /\ op[workers[p].op].state = "processing"
BY DEF CopyTypeOK, WorkerRecord, Current

\* The steps of a worker keep the types.
LEMMA TypeProcess ==
    ASSUME CopyTypeOK, NEW p \in Processes, Process(p) PROVE CopyTypeOK'
<1>1. CASE recordPreparedRevision(p)
    <2>1. workers[p].op \in Operations
        BY <1>1, CurrentOp DEF recordPreparedRevision
    <2>2. [op[workers[p].op] EXCEPT !.prepared = TRUE] \in OperationRecord
        BY <2>1 DEF CopyTypeOK, OperationRecord
    <2>3. [workers[p] EXCEPT !.prepared = TRUE] \in WorkerRecord
        BY DEF CopyTypeOK, WorkerRecord
    <2>4. QED BY <1>1, <2>1, <2>2, <2>3 DEF CopyTypeOK, recordPreparedRevision
<1>2. CASE acceptWorkspaceCreation(p)
    <2>1. op' \in [Operations -> OperationRecord] /\ workers' \in [Processes -> WorkerRecord]
        BY <1>2, CurrentOp, TypeEnds DEF acceptWorkspaceCreation
    <2>2. target' \in Seq({"initial", "copy", "other"})
        BY <1>2 DEF acceptWorkspaceCreation
    <2>3. QED BY <1>2, <2>1, <2>2 DEF CopyTypeOK, acceptWorkspaceCreation
<1>3. CASE acceptRestore(p)
    <2>1. op' \in [Operations -> OperationRecord] /\ workers' \in [Processes -> WorkerRecord]
        BY <1>3, CurrentOp, TypeEnds DEF acceptRestore, restorable
    <2>2. target' \in Seq({"initial", "copy", "other"})
        BY <1>3 DEF acceptRestore, CopyTypeOK
    <2>3. QED BY <1>3, <2>1, <2>2 DEF CopyTypeOK, acceptRestore
<1>4. CASE failRestore(p) \/ failWorkspaceCreation(p)
    <2>1. op' \in [Operations -> OperationRecord] /\ workers' \in [Processes -> WorkerRecord]
        BY <1>4, CurrentOp, TypeEnds DEF failRestore, failWorkspaceCreation
    <2>2. QED BY <1>4, <2>1 DEF CopyTypeOK, failRestore, failWorkspaceCreation
<1>5. CASE processEnds(p)
    <2>1. faults' \in 0 .. MaxFaults
        BY <1>5, CopyBounds DEF CopyTypeOK, processEnds
    <2>2. QED BY <1>5, <2>1, CopyBasics DEF CopyTypeOK, processEnds
<1>6. QED BY <1>1, <1>2, <1>3, <1>4, <1>5 DEF Process

\* The other steps of a copy keep the types.
LEMMA TypeOthers ==
    ASSUME CopyTypeOK,
           callerDies \/ otherPublishes \/ revoke \/ \E o \in Operations : claimLapses(o) \/ claimRecovery(o)
    PROVE  CopyTypeOK'
<1>1. CASE callerDies
    <2>1. faults' \in 0 .. MaxFaults
        BY <1>1, CopyBounds DEF CopyTypeOK, callerDies
    <2>2. QED BY <1>1, <2>1, CopyBasics DEF CopyTypeOK, callerDies, Returns
<1>2. CASE otherPublishes
    BY <1>2 DEF CopyTypeOK, otherPublishes
<1>3. CASE revoke
    BY <1>3 DEF CopyTypeOK, revoke
<1>4. ASSUME NEW o \in Operations, claimLapses(o) PROVE CopyTypeOK'
    <2>1. [op[o] EXCEPT !.live = FALSE] \in OperationRecord
        BY DEF CopyTypeOK, OperationRecord
    <2>2. faults' \in 0 .. MaxFaults
        BY <1>4, CopyBounds DEF CopyTypeOK, claimLapses
    <2>3. QED BY <1>4, <2>1, <2>2 DEF CopyTypeOK, claimLapses
<1>5. ASSUME NEW o \in Operations, claimRecovery(o) PROVE CopyTypeOK'
    <2>0. op[o].fence \in 0 .. MaxFence
        BY DEF CopyTypeOK, OperationRecord
    <2>1. op[o].fence + 1 \in 0 .. MaxFence
        <3>1. op[o].fence < MaxFence
            BY <1>5 DEF claimRecovery
        <3>2. QED BY <2>0, <3>1, CopyBounds
    <2>2. [op[o] EXCEPT !.fence = op[o].fence + 1, !.live = TRUE] \in OperationRecord
        BY <2>1 DEF CopyTypeOK, OperationRecord
    <2>3. [op |-> o, fence |-> op[o].fence + 1, prepared |-> FALSE] \in WorkerRecord
        BY <2>1 DEF WorkerRecord
    <2>4. QED BY <1>5, <2>2, <2>3 DEF CopyTypeOK, claimRecovery
<1>6. QED BY <1>1, <1>2, <1>3, <1>4, <1>5

\* Every step of a copy keeps the types.
LEMMA TypeCopy == ASSUME CopyTypeOK, CopyNext PROVE CopyTypeOK'
BY TypeCaller, TypeProcess, TypeOthers DEF CopyNext

-----------------------------------------------------------------------------
(* The copy *)

\* The parts of the invariant that the steps of a copy change.
LandingInvariant == CopyTypeOK /\ TargetIsCreated /\ RestoreHasLanded /\ SourceHeldUntilDecided

\* A pin is released over a decided copy only.
LEMMA PinRelease ==
    ASSUME SourceHeldUntilDecided, completeCopySourcePin, UNCHANGED <<op, target>>
    PROVE  SourceHeldUntilDecided'
<1>1. terminalCopy # "none" => Decided("restore") \/ (op["creation"].state = "failed" /\ target = <<>>)
    BY DEF terminalCopy
<1>2. QED BY <1>1 DEF SourceHeldUntilDecided, completeCopySourcePin, Decided

\* The steps of the caller keep what a copy promises.
LEMMA LandingCaller ==
    ASSUME LandingInvariant, CallerNext, CopyTypeOK' PROVE LandingInvariant'
<1>1. CASE claimCopySourcePin
    BY <1>1 DEF claimCopySourcePin, LandingInvariant, TargetIsCreated, RestoreHasLanded, SourceHeldUntilDecided,
                Decided
<1>2. CASE saveJournal
    <2>1. journal'.completed = journal.completed
        BY <1>2 DEF saveJournal, LandingInvariant, CopyTypeOK, JournalRecord
    <2>2. QED BY <1>2, <2>1 DEF saveJournal, LandingInvariant, TargetIsCreated, RestoreHasLanded,
                                SourceHeldUntilDecided, Decided
<1>3. CASE claimWorkspaceCreation
    <2>1. op'["restore"] = op["restore"] /\ op["creation"].state = "none" /\ op'["creation"].state = "processing"
        BY <1>3, CopyBasics DEF claimWorkspaceCreation, Claimed, LandingInvariant, CopyTypeOK
    <2>2. QED BY <1>3, <2>1 DEF claimWorkspaceCreation, LandingInvariant, TargetIsCreated, RestoreHasLanded,
                                SourceHeldUntilDecided, Decided
<1>4. CASE createTarget
    <2>1. journal'.completed = journal.completed /\ UNCHANGED <<op, target, source>>
        BY <1>4 DEF createTarget, LandingInvariant, CopyTypeOK, JournalRecord
    <2>2. SourceHeldUntilDecided'
        BY <1>4, <2>1, PinRelease DEF createTarget, LandingInvariant, SourceHeldUntilDecided, Decided
    <2>3. QED BY <2>1, <2>2 DEF LandingInvariant, TargetIsCreated, RestoreHasLanded
<1>5. CASE claimRestore
    <2>1. CASE op["restore"].state = "none" /\ op' = Claimed("restore") /\ Len(target) = 1
        <3>1. op'["creation"] = op["creation"] /\ op'["restore"].state = "processing"
            BY <2>1, CopyBasics DEF Claimed, LandingInvariant, CopyTypeOK
        <3>2. target # <<>>
            <4>1. Len(<<>>) = 0
                OBVIOUS
            <4>2. QED BY <2>1, <4>1
        <3>3. QED BY <1>5, <2>1, <3>1, <3>2 DEF claimRestore, LandingInvariant, TargetIsCreated, RestoreHasLanded,
                                         SourceHeldUntilDecided, Decided
    <2>2. CASE UNCHANGED op
        BY <1>5, <2>2 DEF claimRestore, LandingInvariant, TargetIsCreated, RestoreHasLanded,
                          SourceHeldUntilDecided, Decided
    <2>3. QED BY <1>5, <2>1, <2>2 DEF claimRestore
<1>6. CASE copyWorkspace
    <2>1. /\ journal'.completed = (op["restore"].state = "succeeded")
          /\ UNCHANGED <<op, target, source>>
        BY <1>6 DEF copyWorkspace, LandingInvariant, CopyTypeOK, JournalRecord
    <2>2. SourceHeldUntilDecided'
        BY <1>6, <2>1, PinRelease DEF copyWorkspace, LandingInvariant, SourceHeldUntilDecided, Decided
    <2>3. QED BY <2>1, <2>2 DEF LandingInvariant, TargetIsCreated, RestoreHasLanded
<1>7. QED BY <1>1, <1>2, <1>3, <1>4, <1>5, <1>6 DEF CallerNext

\* The end of an operation changes the state of that operation only.
LEMMA EndsEffect ==
    ASSUME CopyTypeOK, NEW p \in Processes, Current(p), NEW outcome \in {"succeeded", "failed"}, Ends(p, outcome),
           NEW o \in Operations
    PROVE  op'[o].state = IF o = workers[p].op THEN outcome ELSE op[o].state
BY CurrentOp DEF Ends, CopyTypeOK, OperationRecord

\* The steps of a worker keep what a copy promises.
LEMMA LandingProcess ==
    ASSUME LandingInvariant, NEW p \in Processes, Process(p), CopyTypeOK' PROVE LandingInvariant'
<1>0. CopyTypeOK /\ "creation" \in Operations /\ "restore" \in Operations /\ "creation" # "restore"
    BY CopyBasics DEF LandingInvariant
<1>1. CASE recordPreparedRevision(p)
    <2>1. \A o \in Operations : op'[o].state = op[o].state
        BY <1>0, <1>1, CurrentOp DEF recordPreparedRevision, CopyTypeOK, OperationRecord
    <2>2. QED BY <1>0, <1>1, <2>1 DEF recordPreparedRevision, LandingInvariant, TargetIsCreated, RestoreHasLanded,
                                      SourceHeldUntilDecided, Decided
<1>2. CASE acceptWorkspaceCreation(p)
    <2>1. /\ op["creation"].state = "processing" /\ op'["creation"].state = "succeeded"
          /\ op'["restore"].state = op["restore"].state
        BY <1>0, <1>2, CurrentOp, EndsEffect DEF acceptWorkspaceCreation
    <2>2. target = <<>> /\ target' = <<"initial">> /\ UNCHANGED <<source, pin, journal>>
        BY <1>2, <2>1 DEF acceptWorkspaceCreation, LandingInvariant, TargetIsCreated
    <2>3. Len(target) = 0 /\ target'[1] = "initial" /\ DOMAIN target' = {1}
        BY <2>2
    <2>4. QED BY <2>1, <2>2, <2>3 DEF LandingInvariant, TargetIsCreated, RestoreHasLanded,
                                SourceHeldUntilDecided, Decided
<1>3. CASE acceptRestore(p)
    <2>1. op'["restore"].state = "succeeded" /\ op'["creation"].state = op["creation"].state
        BY <1>0, <1>3, CurrentOp, EndsEffect DEF acceptRestore, restorable
    <2>2. Len(target) = 1 /\ target' = (IF source.empty THEN target ELSE Append(target, "copy"))
          /\ UNCHANGED <<source, pin, journal>>
        BY <1>3 DEF acceptRestore
    <2>3. TargetIsCreated'
        <3>1. op["creation"].state = "succeeded"
            BY <2>2 DEF LandingInvariant, TargetIsCreated
        <3>2. QED BY <2>1, <3>1 DEF TargetIsCreated
    <2>4. CASE source.empty
        BY <2>1, <2>2, <2>3, <2>4 DEF LandingInvariant, RestoreHasLanded, SourceHeldUntilDecided, Decided
    <2>5. CASE ~source.empty
        <3>1. target' = Append(target, "copy")
            BY <2>2, <2>5
        <3>2. Len(target') = 2 /\ target'[2] = "copy" /\ DOMAIN target' = 1 .. 2 /\ target'[1] = target[1]
            <4>0. target \in Seq({"initial", "copy", "other"})
                BY <1>0 DEF CopyTypeOK
            <4>1. Len(target) = 1
                BY <2>2
            <4>2. Len(target') = 2 /\ target'[2] = "copy" /\ target'[1] = target[1]
                <5>1. /\ Len(Append(target, "copy")) = Len(target) + 1
                      /\ Append(target, "copy")[Len(target) + 1] = "copy"
                      /\ \A i \in 1 .. Len(target) : Append(target, "copy")[i] = target[i]
                    BY <4>0, "copy" \in {"initial", "copy", "other"}
                <5>2. 1 \in 1 .. Len(target) /\ Len(target) + 1 = 2
                    BY <4>1
                <5>3. QED BY <3>1, <5>1, <5>2
            <4>3. target' \in Seq({"initial", "copy", "other"})
                BY <3>1, <4>0
            <4>4. QED BY <4>2, <4>3
        <3>3. target[1] # "copy"
            BY <1>0, <2>2 DEF LandingInvariant, RestoreHasLanded, CopyTypeOK
        <3>4. \A i \in DOMAIN target' : target'[i] = "copy" => i = 2
            BY <3>2, <3>3
        <3>5. QED BY <2>1, <2>2, <2>3, <3>2, <3>4
                  DEF LandingInvariant, RestoreHasLanded, SourceHeldUntilDecided, Decided
    <2>6. QED BY <2>4, <2>5
<1>4. CASE failRestore(p)
    <2>1. /\ op["restore"].state = "processing" /\ op'["restore"].state = "failed"
          /\ op'["creation"].state = op["creation"].state
        BY <1>0, <1>4, CurrentOp, EndsEffect DEF failRestore
    <2>2. QED BY <1>4, <2>1 DEF failRestore, LandingInvariant, TargetIsCreated, RestoreHasLanded,
                                SourceHeldUntilDecided, Decided
<1>5. CASE failWorkspaceCreation(p)
    <2>1. /\ op["creation"].state = "processing" /\ op'["creation"].state = "failed"
          /\ op'["restore"].state = op["restore"].state
        BY <1>0, <1>5, CurrentOp, EndsEffect DEF failWorkspaceCreation
    <2>2. QED BY <1>5, <2>1 DEF failWorkspaceCreation, LandingInvariant, TargetIsCreated, RestoreHasLanded,
                                SourceHeldUntilDecided, Decided
<1>6. CASE processEnds(p)
    BY <1>6 DEF processEnds, LandingInvariant, TargetIsCreated, RestoreHasLanded, SourceHeldUntilDecided, Decided
<1>7. QED BY <1>1, <1>2, <1>3, <1>4, <1>5, <1>6 DEF Process

\* The other steps keep what a copy promises.
LEMMA LandingOthers ==
    ASSUME LandingInvariant, CopyTypeOK',
           callerDies \/ otherPublishes \/ revoke \/ \E o \in Operations : claimLapses(o) \/ claimRecovery(o)
    PROVE  LandingInvariant'
<1>1. CASE callerDies \/ revoke
    BY <1>1 DEF callerDies, revoke, LandingInvariant, TargetIsCreated, RestoreHasLanded, SourceHeldUntilDecided,
                Decided
<1>2. CASE otherPublishes
    <2>1. target \in Seq({"initial", "copy", "other"}) /\ target # <<>> /\ target' = Append(target, "other")
        BY <1>2 DEF otherPublishes, LandingInvariant, CopyTypeOK
    <2>2. /\ Len(target') = Len(target) + 1 /\ target'[Len(target) + 1] = "other"
          /\ DOMAIN target' = 1 .. (Len(target) + 1) /\ DOMAIN target = 1 .. Len(target) /\ Len(target) \in Nat
          /\ \A i \in 1 .. Len(target) : target'[i] = target[i]
        BY <2>1
    <2>3. \A i \in DOMAIN target' : target'[i] = "copy" => i = 2
        BY <2>2 DEF LandingInvariant, RestoreHasLanded
    <2>4. UNCHANGED <<source, pin, journal, op>>
        BY <1>2 DEF otherPublishes
    <2>5. RestoreHasLanded'
        BY <2>2, <2>3, <2>4 DEF LandingInvariant, RestoreHasLanded
    <2>6. TargetIsCreated' /\ SourceHeldUntilDecided'
        BY <2>1, <2>4 DEF LandingInvariant, TargetIsCreated, SourceHeldUntilDecided, Decided
    <2>7. QED BY <2>5, <2>6 DEF LandingInvariant
<1>3. ASSUME NEW o \in Operations, claimLapses(o) \/ claimRecovery(o) PROVE LandingInvariant'
    <2>1. \A q \in Operations : op'[q].state = op[q].state
        <3>1. CASE claimLapses(o)
            BY <3>1 DEF claimLapses, LandingInvariant, CopyTypeOK, OperationRecord
        <3>2. CASE claimRecovery(o)
            <4>1. PICK n : op' = [op EXCEPT ![o] = [@ EXCEPT !.fence = n, !.live = TRUE]]
                BY <3>2 DEF claimRecovery
            <4>2. QED BY <4>1 DEF LandingInvariant, CopyTypeOK, OperationRecord
        <3>3. QED BY <1>3, <3>1, <3>2
    <2>2. QED BY <1>3, <2>1, CopyBasics DEF claimLapses, claimRecovery, LandingInvariant, TargetIsCreated,
                                RestoreHasLanded, SourceHeldUntilDecided, Decided
<1>4. QED BY <1>1, <1>2, <1>3

-----------------------------------------------------------------------------
(* The theorems *)

\* The two parts of the invariant.
LEMMA Parts == CopyInvariant <=> BundleInvariant /\ LandingInvariant
BY DEF CopyInvariant, BundleInvariant, LandingInvariant, TypeOK, CopyTypeOK

\* The invariant holds at first.
LEMMA InvariantInit == ASSUME Init PROVE CopyInvariant
<1>1. BundleInvariant
    <2>1. bundle \in BundleRecord /\ bundle.state = "none"
        BY DEF Init, BundleInit, BundleRecord
    <2>2. QED BY <2>1 DEF Init, BundleInit, BundleInvariant, BundleTypeOK, WriterFollowsSelection,
                          ReadyBundleIsComplete, Unlocked, WriterRecord
<1>2. CopyTypeOK
    <2>1. op \in [Operations -> OperationRecord]
        BY CopyBasics DEF Init, OperationRecord
    <2>2. journal \in JournalRecord /\ faults \in 0 .. MaxFaults
        BY CopyBounds DEF Init, JournalRecord
    <2>3. QED BY <2>1, <2>2, CopyBasics DEF Init, CopyTypeOK
<1>3. TargetIsCreated /\ RestoreHasLanded /\ SourceHeldUntilDecided
    BY CopyBasics DEF Init, TargetIsCreated, RestoreHasLanded, SourceHeldUntilDecided
<1>4. QED BY <1>1, <1>2, <1>3, Parts DEF LandingInvariant

\* Every step keeps the invariant.
LEMMA InvariantStep == ASSUME CopyInvariant, [Next]_vars PROVE CopyInvariant'
<1>0. BundleInvariant /\ LandingInvariant
    BY Parts
<1>1. BundleInvariant'
    <2>1. CASE UNCHANGED bundleVars
        BY <1>0, <2>1 DEF bundleVars, BundleInvariant, BundleTypeOK, WriterFollowsSelection, ReadyBundleIsComplete
    <2>2. CASE BundleNext
        BY <1>0, <2>2, BundleStep
    <2>3. QED BY <2>1, <2>2 DEF Next, vars
<1>2. LandingInvariant'
    <2>1. CASE UNCHANGED copyVars
        BY <1>0, <2>1 DEF copyVars, LandingInvariant, CopyTypeOK, TargetIsCreated, RestoreHasLanded,
                          SourceHeldUntilDecided, Decided
    <2>2. CASE CopyNext
        <3>1. CopyTypeOK'
            BY <1>0, <2>2, TypeCopy DEF LandingInvariant
        <3>2. QED BY <1>0, <2>2, <3>1, LandingCaller, LandingProcess, LandingOthers DEF CopyNext
    <2>3. QED BY <2>1, <2>2 DEF Next, vars
<1>3. QED BY <1>1, <1>2, Parts DEF CopyInvariant, BundleInvariant, LandingInvariant, TypeOK, CopyTypeOK

\* The invariant holds in every reachable state.
LEMMA InvariantHolds == Spec => []CopyInvariant
<1>1. QED BY InvariantInit, InvariantStep, PTL DEF Spec

\* The state of a copy and of its bundle keeps its types.
THEOREM TypeCorrect == Spec => []TypeOK
<1>1. CopyInvariant => TypeOK
    BY DEF CopyInvariant
<1>2. QED BY <1>1, InvariantHolds, PTL

\* A copy is published once, on the revision that its target was created with, and completion is
\* reported after that (acceptRestore, acceptWorkspaceCreation, copyWorkspace).
THEOREM CopyLanded == Spec => []CopyLandsOnce
<1>1. CopyInvariant => CopyLandsOnce
    BY DEF CopyInvariant, RestoreHasLanded, CopyLandsOnce
<1>2. QED BY <1>1, InvariantHolds, PTL

\* The source of a copy is held until nothing can read it any more (completeCopySourcePin, terminalCopy).
THEOREM SourceHeld == Spec => []SourceHeldUntilDecided
<1>1. CopyInvariant => SourceHeldUntilDecided
    BY DEF CopyInvariant
<1>2. QED BY <1>1, InvariantHolds, PTL

\* A ready bundle has exactly the contents that its record selects (selectBundleManifest, writeFiles,
\* completeBundle).
THEOREM BundleComplete == Spec => []ReadyBundleIsComplete
<1>1. CopyInvariant => ReadyBundleIsComplete
    BY DEF CopyInvariant
<1>2. QED BY <1>1, InvariantHolds, PTL
=============================================================================
