---------------------------- MODULE WorkspaceCopy ----------------------------
(***************************************************************************)
(* Cloning a workspace or importing a bundle: a catalog-owned pin on the   *)
(* source revision, a private journal, the creation of the target and the  *)
(* restore that publishes the source in it.  Both operations are claimed   *)
(* under a fence; the caller processes them, and maintenance when the      *)
(* caller died.  One caller at a time holds the lock of the journal.       *)
(***************************************************************************)
EXTENDS Bundles

CONSTANTS MaxFence,    \* claims of one operation
          MaxFaults    \* dead processes and storage failures

ASSUME CopyBounds == MaxFence \in Nat \ {0} /\ MaxFaults \in Nat

VARIABLES source,       \* what is copied: a revision or a bundle, with no entries or some
          pin, journal,
          op,           \* the two operations
          target,       \* the revisions of the target workspace, empty before it exists
          caller,       \* where the call that copies is
          workers,      \* who processes which operation under which fence
          authorized,   \* the source can be read and the target created in
          faults

copyVars == <<source, pin, journal, op, target, caller, workers, authorized, faults>>
vars == <<bundleVars, copyVars>>

Operations == {"creation", "restore"}
Processes == {"caller", "maintenance"}

OperationRecord == [state: {"none", "processing", "succeeded", "failed"}, fence: 0 .. MaxFence, live: BOOLEAN, prepared: BOOLEAN]
WorkerRecord == [op: Operations \cup {"none"}, fence: 0 .. MaxFence, prepared: BOOLEAN]
JournalRecord == [saved: BOOLEAN, creation: BOOLEAN, completed: BOOLEAN]
Off == [op |-> "none", fence |-> 0, prepared |-> FALSE]

TypeOK ==
    /\ BundleTypeOK /\ source \in [kind: {"revision", "bundle"}, empty: BOOLEAN]
    /\ pin \in {"none", "held", "released"} /\ journal \in JournalRecord
    /\ op \in [Operations -> OperationRecord] /\ target \in Seq({"initial", "copy", "other"})
    /\ caller \in {"idle", "pinned", "creating", "processing", "created", "restoring"}
    /\ workers \in [Processes -> WorkerRecord] /\ authorized \in BOOLEAN /\ faults \in 0 .. MaxFaults

Init ==
    /\ BundleInit /\ source \in [kind: {"revision", "bundle"}, empty: BOOLEAN]
    /\ source.kind = "revision" => bundle.kind = "export"
    /\ pin = "none" /\ journal = [saved |-> FALSE, creation |-> FALSE, completed |-> FALSE]
    /\ op = [o \in Operations |-> [state |-> "none", fence |-> 0, live |-> FALSE, prepared |-> FALSE]]
    /\ target = <<>> /\ caller = "idle" /\ workers = [p \in Processes |-> Off]
    /\ authorized = TRUE /\ faults = MaxFaults

Decided(o) == op[o].state \in {"succeeded", "failed"}

\* The source is what it was when it was selected and its reader is still allowed to read it.
restoreSource == authorized /\ (source.kind = "bundle" => bundle.state = "ready")

-----------------------------------------------------------------------------
(* The pin *)

terminalCopyWithoutTarget ==
    IF Decided("restore") THEN "restore" ELSE IF target = <<>> /\ op["creation"].state # "none" THEN "creation" ELSE "none"

\* The operation that decided the copy: its restore, or the failed creation of a target without one.
terminalCopy ==
    IF Decided("restore") THEN "restore"
    ELSE IF target = <<>> /\ op["restore"].state = "none" /\ op["creation"].state = "failed" THEN "creation" ELSE "none"

\* Only a decided copy releases its source.
completeCopySourcePin == pin' = IF pin = "held" /\ terminalCopy # "none" THEN "released" ELSE pin

Returns == caller' = "idle"

claimCopySourcePin ==
    /\ caller = "idle" /\ ~journal.completed /\ restoreSource
    /\ \/ source.kind = "revision" /\ pin = "none" /\ target = <<>> /\ pin' = "held"
       \/ (source.kind = "bundle" \/ pin # "none") /\ UNCHANGED pin
    /\ caller' = "pinned"
    /\ UNCHANGED <<source, journal, op, target, workers, authorized, faults>>

saveJournal ==
    /\ caller = "pinned" /\ journal' = [journal EXCEPT !.saved = TRUE]
    /\ caller' = IF journal.creation THEN "created" ELSE "creating"
    /\ UNCHANGED <<source, pin, op, target, workers, authorized, faults>>

-----------------------------------------------------------------------------
(* The two operations *)

Claimed(o) == [op EXCEPT ![o] = [state |-> "processing", fence |-> 1, live |-> TRUE, prepared |-> FALSE]]

\* The first caller processes the creation itself; a repeated one reads the operation.
claimWorkspaceCreation ==
    /\ caller = "creating" /\ authorized /\ op["creation"].state = "none"
    /\ op' = Claimed("creation") /\ workers' = [workers EXCEPT !["caller"] = [Off EXCEPT !.op = "creation", !.fence = 1]]
    /\ caller' = "processing"
    /\ UNCHANGED <<source, pin, journal, target, authorized, faults>>

\* A failed creation releases the pin; one under way is left to its worker.
createTarget ==
    /\ caller \in {"creating", "processing"} /\ workers["caller"] = Off /\ op["creation"].state # "none"
    /\ \/ op["creation"].state = "succeeded" /\ caller' = "created" /\ journal' = [journal EXCEPT !.creation = TRUE] /\ UNCHANGED pin
       \/ op["creation"].state # "succeeded" /\ completeCopySourcePin /\ Returns /\ UNCHANGED journal
    /\ UNCHANGED <<source, op, target, workers, authorized, faults>>

\* The restore is claimed on the revision that the creation left, and on no other.
claimRestore ==
    /\ caller = "created"
    /\ \/ /\ op["restore"].state = "none" /\ restoreSource /\ Len(target) = 1
          /\ op' = Claimed("restore") /\ workers' = [workers EXCEPT !["caller"] = [Off EXCEPT !.op = "restore", !.fence = 1]]
          /\ caller' = "restoring"
       \/ op["restore"].state = "none" /\ ~(restoreSource /\ Len(target) = 1) /\ Returns /\ UNCHANGED <<op, workers>>
       \/ op["restore"].state # "none" /\ caller' = "restoring" /\ UNCHANGED <<op, workers>>
    /\ UNCHANGED <<source, pin, journal, target, authorized, faults>>

copyWorkspaceReleasingOnSuccess ==
    /\ caller = "restoring" /\ workers["caller"] = Off
    /\ IF op["restore"].state = "succeeded" THEN completeCopySourcePin ELSE UNCHANGED pin
    /\ journal' = [journal EXCEPT !.completed = op["restore"].state = "succeeded"]
    /\ Returns
    /\ UNCHANGED <<source, op, target, workers, authorized, faults>>

\* The call ends with what the restore came to.
copyWorkspace ==
    /\ caller = "restoring" /\ workers["caller"] = Off
    /\ IF Decided("restore") THEN completeCopySourcePin ELSE UNCHANGED pin
    /\ journal' = [journal EXCEPT !.completed = op["restore"].state = "succeeded"]
    /\ Returns
    /\ UNCHANGED <<source, op, target, workers, authorized, faults>>

-----------------------------------------------------------------------------
(* Processing *)

\* The claim of this worker is current.
Current(p) ==
    LET w == workers[p] IN
    w.op # "none" /\ op[w.op].state = "processing" /\ op[w.op].live /\ op[w.op].fence = w.fence

\* The candidate is found or prepared from the source, and recorded.
recordPreparedRevision(p) ==
    /\ Current(p) /\ ~workers[p].prepared /\ authorized
    /\ workers[p].op = "restore" => restoreSource
    /\ op' = [op EXCEPT ![workers[p].op] = [@ EXCEPT !.prepared = TRUE]]
    /\ workers' = [workers EXCEPT ![p] = [@ EXCEPT !.prepared = TRUE]]
    /\ UNCHANGED <<source, pin, journal, target, caller, authorized, faults>>

Ends(p, outcome) ==
    /\ op' = [op EXCEPT ![workers[p].op] = [@ EXCEPT !.state = outcome]]
    /\ workers' = [workers EXCEPT ![p] = Off]

acceptWorkspaceCreation(p) ==
    /\ Current(p) /\ workers[p].op = "creation" /\ workers[p].prepared /\ authorized
    /\ target' = <<"initial">> /\ Ends(p, "succeeded")
    /\ UNCHANGED <<source, pin, journal, caller, authorized, faults>>

restorable(p) == Current(p) /\ workers[p].op = "restore" /\ workers[p].prepared

acceptRestoreOnAnyHead(p) ==
    /\ restorable(p) /\ restoreSource
    /\ target' = IF source.empty THEN target ELSE Append(target, "copy")
    /\ Ends(p, "succeeded")
    /\ UNCHANGED <<source, pin, journal, caller, authorized, faults>>

\* The head and version that the command named must still be the ones of the workspace.  A source without
\* entries equals the initial revision and changes nothing.
acceptRestore(p) ==
    /\ restorable(p) /\ restoreSource /\ Len(target) = 1
    /\ target' = IF source.empty THEN target ELSE Append(target, "copy")
    /\ Ends(p, "succeeded")
    /\ UNCHANGED <<source, pin, journal, caller, authorized, faults>>

\* Lost authority and a moved head are final.
failRestore(p) ==
    /\ Current(p) /\ workers[p].op = "restore"
    /\ ~restoreSource \/ (workers[p].prepared /\ Len(target) # 1)
    /\ Ends(p, "failed")
    /\ UNCHANGED <<source, pin, journal, target, caller, authorized, faults>>

failWorkspaceCreation(p) ==
    /\ Current(p) /\ workers[p].op = "creation" /\ ~authorized
    /\ Ends(p, "failed")
    /\ UNCHANGED <<source, pin, journal, target, caller, authorized, faults>>

\* Any other failure leaves the operation to recovery; so does a claim that is no longer current.
processEnds(p) ==
    /\ workers[p] # Off
    /\ \/ ~Current(p) /\ UNCHANGED faults
       \/ Current(p) /\ faults > 0 /\ faults' = faults - 1
    /\ workers' = [workers EXCEPT ![p] = Off]
    /\ UNCHANGED <<source, pin, journal, op, target, caller, authorized>>

callerDies ==
    /\ caller # "idle" /\ faults > 0 /\ faults' = faults - 1
    /\ Returns /\ workers' = [workers EXCEPT !["caller"] = Off]
    /\ UNCHANGED <<source, pin, journal, op, target, authorized>>

\* A claim lapses when nobody renews it in time; a slow worker can lose one too.
claimLapses(o) ==
    /\ op[o].state = "processing" /\ op[o].live
    /\ \/ (\A p \in Processes : workers[p].op # o \/ workers[p].fence # op[o].fence) /\ UNCHANGED faults
       \/ (\E p \in Processes : workers[p].op = o /\ workers[p].fence = op[o].fence) /\ faults > 0 /\ faults' = faults - 1
    /\ op' = [op EXCEPT ![o] = [@ EXCEPT !.live = FALSE]]
    /\ UNCHANGED <<source, pin, journal, target, caller, workers, authorized>>

\* Maintenance takes an expired claim under the next fence.
claimRecovery(o) ==
    /\ workers["maintenance"] = Off /\ op[o].state = "processing" /\ ~op[o].live /\ op[o].fence < MaxFence
    /\ op' = [op EXCEPT ![o] = [@ EXCEPT !.fence = op[o].fence + 1, !.live = TRUE]]
    /\ workers' = [workers EXCEPT !["maintenance"] = [op |-> o, fence |-> op[o].fence + 1, prepared |-> FALSE]]
    /\ UNCHANGED <<source, pin, journal, target, caller, authorized, faults>>

\* Others: someone publishes in the target, or authority over the copy is lost.
otherPublishes ==
    /\ target # <<>> /\ \A i \in DOMAIN target : target[i] # "other"
    /\ target' = Append(target, "other")
    /\ UNCHANGED <<source, pin, journal, op, caller, workers, authorized, faults>>

revoke ==
    /\ authorized /\ authorized' = FALSE
    /\ UNCHANGED <<source, pin, journal, op, target, caller, workers, faults>>

CallerNext == claimCopySourcePin \/ saveJournal \/ claimWorkspaceCreation \/ createTarget \/ claimRestore \/ copyWorkspace

Process(p) ==
    \/ recordPreparedRevision(p) \/ acceptWorkspaceCreation(p) \/ failWorkspaceCreation(p)
    \/ acceptRestore(p) \/ failRestore(p) \/ processEnds(p)

CopyNext ==
    \/ CallerNext \/ callerDies \/ otherPublishes \/ revoke
    \/ \E p \in Processes : Process(p)
    \/ \E o \in Operations : claimLapses(o) \/ claimRecovery(o)

Next ==
    \/ CopyNext /\ UNCHANGED bundleVars
    \/ source.kind = "bundle" /\ BundleNext /\ UNCHANGED copyVars

Spec == Init /\ [][Next]_vars

\* The caller repeats its command, a worker goes on with what it claimed, maintenance recovers what lapsed.
FairSpec ==
    /\ Spec /\ WF_vars(CallerNext /\ UNCHANGED bundleVars)
    /\ \A p \in Processes : WF_vars(Process(p) /\ UNCHANGED bundleVars)
    /\ \A o \in Operations : /\ WF_vars(claimRecovery(o) /\ UNCHANGED bundleVars)
                             /\ WF_vars(claimLapses(o) /\ UNCHANGED bundleVars)

-----------------------------------------------------------------------------
(* Properties *)

\* The copy is published once, directly on the empty revision that the target was created with, whoever
\* processed the operations and however often: it never covers what someone else published there, and a
\* call that reports completion has published it (acceptRestore, copyWorkspace).
CopyLandsOnce ==
    /\ \A i \in DOMAIN target : target[i] = "copy" => i = 2
    /\ journal.completed => source.empty \/ (Len(target) >= 2 /\ target[2] = "copy")

\* The pin of the source is given up only when no step can read the source any more: the restore is
\* decided, or there is and will be no target (terminalCopy, completeCopySourcePin).
SourceHeldUntilDecided ==
    pin = "released" => Decided("restore") \/ (op["creation"].state = "failed" /\ target = <<>>)

\* A ready bundle holds exactly the contents it selected, after interrupted and repeated writers
\* (export, upload, completeBundle).
ReadyBundleIsComplete == bundle.state = "ready" => payload = bundle.header

\* A caller that keeps repeating its copy releases the source in the end, unless it lost its authority or
\* someone published in the target before the restore was claimed, which leaves nothing to decide.
SourceIsReleased ==
    pin = "held" ~> (pin = "released" \/ ~authorized \/ (op["restore"].state = "none" /\ Len(target) > 1))

=============================================================================
