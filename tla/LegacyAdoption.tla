----------------------------- MODULE LegacyAdoption -----------------------------
(***************************************************************************)
(* Installing a legacy workspace, which lives in a repository and in       *)
(* metadata files outside the catalog, as a catalog workspace.  The        *)
(* operator reviewed an inventory of the source and names its fingerprint; *)
(* controllers inspect the source, back it up, copy every retained commit  *)
(* and install the workspace.  The source is declared to be offline, but   *)
(* nothing keeps a legacy process from writing to it.                      *)
(*                                                                         *)
(* A write to a source file gives it bytes it never had before; what an    *)
(* inventory says of the file may be the reviewed content even so (a       *)
(* repository is repacked, a row comes and goes).  Each command of a       *)
(* controller names the version it last saw; `fresh` says that it is still *)
(* the stored one, which also covers the fence.                            *)
(***************************************************************************)
EXTENDS Naturals

CONSTANTS Controllers,   \* operator processes that run the adoption
          MaxCommits,    \* retained commits of the legacy repository
          MaxWrites,     \* writes to the source
          MaxFaults      \* lapsed claims, dead processes and transient errors

ASSUME AdoptionBounds == Controllers # {} /\ MaxCommits \in Nat \ {0} /\ MaxWrites \in Nat /\ MaxFaults \in Nat

Commits == 1 .. MaxCommits
Files == {"repository", "metadata"}
NoBytes == MaxWrites + 1
\* What an inventory reports and an operator has to resolve.
Blockers == {"surviving work", "authority conflict", "dirty repository", "unsupported history"}

VARIABLES source,      \* the files of the legacy source
          blockers,    \* the issues that the reviewed inventory reports
          workspace,   \* the catalog workspace of this identity
          adoption,    \* the adoption record
          backup,      \* the files of the backup directory
          target,      \* candidates in the target store
          writer,      \* the owners with an active candidate writer
          controller,  \* the call of each process
          faults

vars == <<source, blockers, workspace, adoption, backup, target, writer, controller, faults>>

-----------------------------------------------------------------------------
(* Records *)

eligible == blockers = {}

FileRecord == [bytes: 0 .. NoBytes, reviewed: BOOLEAN]
Receipt == [Files -> 0 .. NoBytes]
AdoptionRecord == [state: {"none", "preparing", "complete"}, owner: Controllers, live: BOOLEAN,
                   receipt: Receipt, copies: SUBSET Commits]
Steps == {"idle", "inspect", "inspected", "claim", "backup", "backup2", "ready", "prepare", "write", "record",
          "readback", "reinspect", "reinspected", "rebackup", "rebackup2", "accept", "release", "dead"}
ControllerRecord == [step: Steps, fresh: BOOLEAN, commit: Commits]

TypeOK ==
    /\ source \in [Files -> FileRecord] /\ blockers \subseteq Blockers
    /\ workspace \in {"none", "creating", "created", "adopted"}
    /\ adoption \in AdoptionRecord /\ backup \in [Files -> FileRecord]
    /\ target \subseteq Commits /\ writer \subseteq Controllers
    /\ controller \in [Controllers -> ControllerRecord] /\ faults \in 0 .. MaxFaults

NoReceipt == [f \in Files |-> NoBytes]
NoCall == [step |-> "idle", fresh |-> FALSE, commit |-> 1]

Init ==
    /\ source = [f \in Files |-> [bytes |-> 0, reviewed |-> TRUE]] /\ blockers \in {{}} \cup {{b} : b \in Blockers}
    /\ workspace = "none"
    /\ adoption = [state |-> "none", owner |-> CHOOSE c \in Controllers : TRUE, live |-> FALSE,
                   receipt |-> NoReceipt, copies |-> {}]
    /\ backup = [f \in Files |-> [bytes |-> NoBytes, reviewed |-> FALSE]]
    /\ target = {} /\ writer = {}
    /\ controller = [c \in Controllers |-> NoCall] /\ faults = 0

-----------------------------------------------------------------------------
(* The source and the identity *)

legacyWrites(f, reviewed) ==
    /\ source["repository"].bytes + source["metadata"].bytes < MaxWrites
    /\ source' = [source EXCEPT ![f] = [bytes |-> @.bytes + 1, reviewed |-> reviewed]]
    /\ UNCHANGED <<blockers, workspace, adoption, backup, target, writer, controller, faults>>

\* A workspace of the same identity is created: refused while an adoption is incomplete.
claimWorkspaceCreation ==
    /\ workspace = "none" /\ adoption.state # "preparing" /\ workspace' = "creating"
    /\ UNCHANGED <<source, blockers, adoption, backup, target, writer, controller, faults>>

\* The creation is accepted, or it fails.
acceptWorkspace ==
    /\ workspace = "creating" /\ workspace' \in {"created", "none"}
    /\ UNCHANGED <<source, blockers, adoption, backup, target, writer, controller, faults>>

-----------------------------------------------------------------------------
(* The calls of a controller *)

at(c, step) == controller[c].step = step
goto(c, step) == controller' = [controller EXCEPT ![c] = [@ EXCEPT !.step = step]]
returns(c) == controller' = [controller EXCEPT ![c] = NoCall]

saveAdoption(c, next) ==
    controller' = [d \in Controllers |->
        IF d = c THEN [controller[d] EXCEPT !.step = next, !.fresh = TRUE]
        ELSE [controller[d] EXCEPT !.fresh = FALSE]]

\* The adoption as c knows it: current version and fence, live claim, undecided.
current(c) == controller[c].fresh /\ adoption.live /\ adoption.state = "preparing"

adopt(c) ==
    /\ at(c, "idle") /\ adoption.state # "complete" /\ goto(c, "inspect")
    /\ UNCHANGED <<source, blockers, workspace, adoption, backup, target, writer, faults>>

\* An inventory reads the metadata and the surviving work first and the repositories after them; its
\* fingerprint is the reviewed one if both parts were read as they were reviewed.
readMetadata(c, step, next, otherwise) ==
    /\ at(c, step) /\ goto(c, IF source["metadata"].reviewed THEN next ELSE otherwise)
    /\ UNCHANGED <<source, blockers, workspace, adoption, backup, target, writer, faults>>

readRepository(c, step, next, otherwise) ==
    /\ at(c, step) /\ goto(c, IF source["repository"].reviewed THEN next ELSE otherwise)
    /\ UNCHANGED <<source, blockers, workspace, adoption, backup, target, writer, faults>>

inspect(c) ==
    \/ readMetadata(c, "inspect", "inspected", "idle")
    \/ readRepository(c, "inspected", IF eligible THEN "claim" ELSE "idle", "idle")

claimLegacyAdoption(c) ==
    /\ at(c, "claim") /\ adoption.state = "none"
    /\ IF workspace = "none"
       THEN /\ adoption' = [adoption EXCEPT !.state = "preparing", !.owner = c, !.live = TRUE]
            /\ saveAdoption(c, "backup")
       ELSE UNCHANGED adoption /\ returns(c)
    /\ UNCHANGED <<source, blockers, workspace, backup, target, writer, faults>>

\* Mutant: a claim is taken over by its own owner only.
recoverOwn(c) ==
    /\ at(c, "claim") /\ adoption.state # "none"
    /\ IF adoption.state = "preparing" /\ adoption.owner = c
       THEN /\ adoption' = [adoption EXCEPT !.live = TRUE]
            /\ saveAdoption(c, "backup")
       ELSE UNCHANGED adoption /\ returns(c)
    /\ UNCHANGED <<source, blockers, workspace, backup, target, writer, faults>>

\* The same command again: go on with an own live claim, leave another's alone, take over an expired one.
claimLegacyAdoptionRecovery(c) ==
    /\ at(c, "claim") /\ adoption.state # "none"
    /\ IF adoption.state = "preparing" /\ (adoption.live => adoption.owner = c)
       THEN /\ adoption' = [adoption EXCEPT !.owner = c, !.live = TRUE]
            /\ saveAdoption(c, "backup")
       ELSE UNCHANGED adoption /\ returns(c)
    /\ UNCHANGED <<source, blockers, workspace, backup, target, writer, faults>>

\* One file of the backup: installed once, compared ever after.
copy(c, step, f, next) ==
    /\ at(c, step)
    /\ IF backup[f].bytes = NoBytes
       THEN backup' = [backup EXCEPT ![f] = source[f]] /\ goto(c, next)
       ELSE /\ UNCHANGED backup
            /\ goto(c, IF backup[f].bytes = source[f].bytes THEN next ELSE "release")
    /\ UNCHANGED <<source, blockers, workspace, adoption, target, writer, faults>>

backupSource(c) ==
    \/ copy(c, "backup", "repository", "backup2") \/ copy(c, "backup2", "metadata", "ready")
    \/ copy(c, "rebackup", "repository", "rebackup2") \/ copy(c, "rebackup2", "metadata", "accept")

receiptDigest == [f \in Files |-> backup[f].bytes]

recordLegacyAdoptionBackup(c) ==
    /\ at(c, "ready") /\ current(c) /\ adoption.receipt \in {NoReceipt, receiptDigest}
    /\ adoption' = [adoption EXCEPT !.receipt = receiptDigest] /\ saveAdoption(c, "prepare")
    /\ UNCHANGED <<source, blockers, workspace, backup, target, writer, faults>>

\* The next selected commit without a recorded copy, in the order of the inventory.
selected(r) == r \notin adoption.copies /\ \A s \in Commits \ adoption.copies : r <= s

\* A controller with a stale version gets no further than the next command, whatever it selects.
\* A prepared candidate is found again; another one is written by the owner of the claim only.
beginCandidateWrite(c) ==
    /\ at(c, "prepare")
    /\ \E r \in Commits :
          LET owns == adoption.owner = c /\ adoption.live /\ adoption.receipt # NoReceipt
              next == IF r \in target THEN "record" ELSE IF owns THEN "write" ELSE "release"
          IN /\ selected(r)
             /\ controller' = [controller EXCEPT ![c] = [@ EXCEPT !.step = next, !.commit = r]]
             /\ writer' = IF next = "write" THEN writer \cup {c} ELSE writer
    /\ UNCHANGED <<source, blockers, workspace, adoption, backup, target, faults>>

\* The bytes of the commit are verified against the inventory as they are read; a rewritten repository
\* may have lost them.
openRevision(c) ==
    /\ at(c, "write") /\ writer' = writer \ {c}
    /\ \/ target' = target \cup {controller[c].commit} /\ goto(c, "record")
       \/ ~source["repository"].reviewed /\ goto(c, "release") /\ UNCHANGED target
    /\ UNCHANGED <<source, blockers, workspace, adoption, backup, faults>>

recordLegacyAdoptionCopy(c) ==
    /\ at(c, "record") /\ current(c) /\ controller[c].commit \in target
    /\ adoption' = [adoption EXCEPT !.copies = @ \cup {controller[c].commit}] /\ saveAdoption(c, "prepare")
    /\ UNCHANGED <<source, blockers, workspace, backup, target, writer, faults>>

\* Every copy is read back before authority is installed.
readback(c) ==
    /\ \/ at(c, "prepare") /\ adoption.copies = Commits /\ goto(c, "readback")
       \/ at(c, "readback") /\ goto(c, IF adoption.copies \subseteq target THEN "reinspect" ELSE "release")
    /\ UNCHANGED <<source, blockers, workspace, adoption, backup, target, writer, faults>>

\* Mutant: the source is inspected before the backup only.
reinspectNothing(c) ==
    /\ controller[c].step \in {"reinspect", "reinspected"} /\ goto(c, "rebackup")
    /\ UNCHANGED <<source, blockers, workspace, adoption, backup, target, writer, faults>>

reinspect(c) ==
    \/ readMetadata(c, "reinspect", "reinspected", "release")
    \/ readRepository(c, "reinspected", "rebackup", "release")

acceptLegacyAdoption(c) ==
    /\ at(c, "accept") /\ current(c)
    /\ IF adoption.receipt = receiptDigest /\ adoption.copies = Commits /\ workspace = "none"
       THEN /\ workspace' = "adopted" /\ adoption' = [adoption EXCEPT !.state = "complete", !.live = FALSE]
            /\ saveAdoption(c, "release")
       ELSE UNCHANGED <<workspace, adoption>> /\ goto(c, "release")
    /\ UNCHANGED <<source, blockers, backup, target, writer, faults>>

commandRefused(c) ==
    /\ controller[c].step \in {"ready", "record", "accept"} /\ ~current(c)
    /\ goto(c, "release")
    /\ UNCHANGED <<source, blockers, workspace, adoption, backup, target, writer, faults>>

\* A call that ends gives back its claim, unless a writer of its own may still be writing.
releaseLegacyAdoptionClaim(c) ==
    /\ at(c, "release")
    /\ IF adoption.state = "preparing" /\ adoption.owner = c /\ adoption.live /\ c \notin writer
       THEN /\ adoption' = [adoption EXCEPT !.live = FALSE]
            /\ controller' = [d \in Controllers |->
                  IF d = c THEN NoCall ELSE [controller[d] EXCEPT !.fresh = FALSE]]
       ELSE UNCHANGED adoption /\ returns(c)
    /\ UNCHANGED <<source, blockers, workspace, backup, target, writer, faults>>

-----------------------------------------------------------------------------
(* Faults *)

fault == faults < MaxFaults /\ faults' = faults + 1

\* Renewal postpones this while the owner works; a claim without a call expires.
claimLapses(c) ==
    /\ adoption.owner = c /\ adoption.state = "preparing" /\ adoption.live
    /\ fault \/ (controller[c].step \in {"idle", "dead"} /\ UNCHANGED faults)
    /\ adoption' = [adoption EXCEPT !.live = FALSE]
    /\ UNCHANGED <<source, blockers, workspace, backup, target, writer, controller>>

\* An error ends the call; a write whose outcome is unknown leaves its writer active.
controllerErrs(c) ==
    /\ fault /\ controller[c].step \notin {"idle", "inspect", "inspected", "claim", "release", "dead"}
    /\ goto(c, "release") /\ writer' \in {writer, writer \ {c}}
    /\ UNCHANGED <<source, blockers, workspace, adoption, backup, target>>

controllerDies(c) ==
    /\ fault /\ ~at(c, "dead") /\ \E d \in Controllers \ {c} : ~at(d, "dead")
    /\ controller' = [controller EXCEPT ![c] = [NoCall EXCEPT !.step = "dead"]]
    /\ UNCHANGED <<source, blockers, workspace, adoption, backup, target, writer>>

-----------------------------------------------------------------------------

controllerStep(c) ==
    \/ inspect(c) \/ claimLegacyAdoption(c) \/ claimLegacyAdoptionRecovery(c) \/ backupSource(c)
    \/ recordLegacyAdoptionBackup(c) \/ beginCandidateWrite(c) \/ openRevision(c)
    \/ recordLegacyAdoptionCopy(c) \/ readback(c) \/ reinspect(c) \/ acceptLegacyAdoption(c)
    \/ commandRefused(c) \/ releaseLegacyAdoptionClaim(c)

Next ==
    \/ claimWorkspaceCreation \/ acceptWorkspace
    \/ \E f \in Files, reviewed \in BOOLEAN : legacyWrites(f, reviewed)
    \/ \E c \in Controllers : adopt(c) \/ controllerStep(c) \/ claimLapses(c) \/ controllerErrs(c) \/ controllerDies(c)

Spec == Init /\ [][Next]_vars

\* The operator repeats the command in every process that lives; an abandoned claim expires.
Fairness ==
    \A c \in Controllers :
        /\ WF_vars(adopt(c)) /\ WF_vars(controllerStep(c))
        /\ WF_vars(controller[c].step \in {"idle", "dead"} /\ claimLapses(c))

FairSpec == Spec /\ Fairness

-----------------------------------------------------------------------------
(* Properties *)

\* What becomes a catalog workspace is what was reviewed: its backup holds the reviewed content of every
\* file, although the inventory, the backup and the second inventory are taken at different times from a
\* source that changes, by controllers that replace each other, and every retained commit has a copy
\* (adopt: the inspection before acceptance and the second backup).
AdoptedIsReviewed ==
    workspace = "adopted" =>
        /\ \A f \in Files : backup[f].bytes # NoBytes /\ backup[f].reviewed
        /\ adoption.copies = Commits /\ adoption.copies \subseteq target

\* Repeating the same command completes an adoption whose source stayed as it was, although controllers
\* die, fail with an unknown write, lose their claims, or a workspace of that identity is being created.
AdoptionCompletes ==
    adoption.state = "preparing" ~> (adoption.state = "complete" \/ \E f \in Files : source[f].bytes > 0)
=============================================================================
