------------------------------ MODULE PhpSession ------------------------------
(***************************************************************************)
(* WorkspaceSession of the PHP library: `flow` is the saved action (with   *)
(* "none" for null), `stage` the saved stage that drive continues from,    *)
(* `recovery` the recovery status.  `doubt` says that a reopen may have    *)
(* been accepted (reopenAcceptancePossible); a proof of its rejection is   *)
(* the command phase "refused".                                            *)
(***************************************************************************)
EXTENDS SessionJournal

create(mode, known) == journal = NewJournal(mode, known, IF known THEN "open" ELSE "create", "open")

\* A command that is already saved is the one its stage calls for.
prepare(kind) == call = Idle /\ ~Pending /\ Prepare(kind, journal)

checkpointReopen == journal.flow = "checkpoint" /\ journal.stage = "reopen"

dispatchOnce ==
    /\ call = Idle /\ Pending /\ journal.pending.phase = "prepared"
    /\ Send([journal EXCEPT !.doubt = checkpointReopen], TRUE)

\* The answer to a reopen is in doubt from before it is sent.
dispatch ==
    /\ call = Idle /\ Pending
    /\ Send([journal EXCEPT !.doubt = checkpointReopen],
            IF checkpointReopen THEN ~journal.doubt ELSE journal.pending.phase = "prepared")

accepted ==
    LET kind == journal.pending.kind IN
    CASE kind = "run:open" -> [Opened(journal) EXCEPT !.stage = "hydrate", !.doubt = FALSE]
      [] kind \in SubmissionCommands ->
           [Submitted(journal) EXCEPT !.stage = IF kind = "submission:seal" THEN "finalize"
                                                ELSE IF kind = "submission:file" THEN "seal" ELSE "upload"]
      [] kind = "run:heartbeat" ->
           [journal EXCEPT !.flow = "none", !.recovery = "ready", !.stage = "ready", !.pending = NoCommand]
      [] kind = "abort" ->
           [journal EXCEPT !.flow = "none", !.recovery = "aborted", !.stage = "done", !.pending = NoCommand]
      [] OTHER -> [journal EXCEPT !.pending.op = TRUE]

knownFailed == [journal EXCEPT !.recovery = "known-failed", !.flow = "none", !.stage = "done", !.pending = NoCommand]

\* A reopen is proved rejected by a denial alone; other commands by any client error to their only attempt.
refused(status) ==
    CASE checkpointReopen /\ call.first /\ status = "denied" ->
           [journal EXCEPT !.recovery = "published-needs-reopen", !.doubt = FALSE, !.pending.phase = "refused"]
      [] checkpointReopen /\ ~(call.first /\ status = "denied") -> [journal EXCEPT !.recovery = "published-needs-reopen"]
      [] ~checkpointReopen /\ call.first -> knownFailed
      [] ~checkpointReopen /\ ~call.first -> [journal EXCEPT !.recovery = "outcome-unknown"]

receive ==
    \/ Read("accepted", accepted, IF journal.pending.kind \in {"finalize", "workspace:create"} THEN "polling" ELSE "idle")
    \/ \E status \in {"denied", "rejected"} : Read(status, refused(status), "idle")

settleOperation ==
    \/ /\ journal.pending.kind = "workspace:create" /\ server.workspace \in {"created", "failed"}
       /\ Learn(IF server.workspace = "created"
                THEN [journal EXCEPT !.workspace = TRUE, !.stage = "open", !.pending = NoCommand] ELSE knownFailed)
    \/ /\ journal.pending.kind = "finalize" /\ Outcome \in Terminal
       /\ Learn(CASE Outcome # "finalized" -> knownFailed
                  [] Outcome = "finalized" /\ journal.flow = "checkpoint" ->
                       [journal EXCEPT !.last = "succeeded", !.doubt = FALSE, !.pending = NoCommand,
                          !.recovery = "published-needs-reopen", !.stage = "reopen"]
                  [] Outcome = "finalized" /\ journal.flow # "checkpoint" ->
                       [journal EXCEPT !.last = "succeeded", !.recovery = "finalized", !.flow = "none",
                          !.stage = "done", !.pending = NoCommand])

\* A timeout is recorded; a process that dies leaves the status as it was.
outcomeUnknown ==
    \/ GiveUp(journal)
    \/ GiveUp([journal EXCEPT !.recovery = IF checkpointReopen THEN "published-needs-reopen" ELSE "outcome-unknown"])

hydrate ==
    /\ journal.stage = "hydrate"
    /\ Hydrate([journal EXCEPT !.state = "ready", !.recovery = "ready", !.flow = "none", !.stage = "ready",
                  !.capture = NoContent, !.sub = 0, !.sealed = FALSE, !.receipt = FALSE],
               [journal EXCEPT !.state = "failed", !.recovery = "hydration-failed"])

\* A private verified copy of the tree.
capture == [journal EXCEPT !.capture = files]

captureStage ==
    /\ journal.stage = "capture"
    /\ \/ journal.mode = "read-only" /\ Local([journal EXCEPT !.stage = "finalize"], files)
       \/ /\ journal.mode = "read-write" /\ files \in Contents
          /\ Local([capture EXCEPT !.stage = "submission"], files)

\* drive goes from stage to stage; each of these stages saves its command.
drive ==
    \/ journal.stage = "create" /\ prepare("workspace:create")
    \/ journal.stage \in {"open", "reopen"} /\ prepare("run:open")
    \/ journal.stage = "submission" /\ prepare("submission:create")
    \/ journal.stage = "upload" /\ prepare("submission:file")
    \/ journal.stage = "seal" /\ prepare("submission:seal")
    \/ journal.stage = "finalize" /\ prepare("finalize")
    \/ journal.stage = "abort" /\ prepare("abort")
    \/ journal.stage = "heartbeat" /\ prepare("run:heartbeat")

reconcile == dispatch \/ receive \/ settleOperation \/ hydrate \/ captureStage \/ drive

finish(flow) ==
    /\ journal.flow = "none" /\ journal.stage = "ready" /\ journal.recovery = "ready" /\ Reopenable
    /\ Local([journal EXCEPT !.flow = flow, !.stage = "capture", !.recovery = "capturing"], files)

\* Only a reopen that was never accepted is given up; the published checkpoint stays.
abandonReopen ==
    /\ checkpointReopen /\ journal.recovery = "published-needs-reopen" /\ Pending
    /\ ~journal.doubt /\ journal.pending.phase = "refused"
    /\ Local([journal EXCEPT !.pending = NoCommand, !.flow = "none", !.stage = "done",
                !.recovery = "published-reopen-abandoned"], files)

heartbeat ==
    /\ Renewing /\ journal.flow = "none" /\ journal.stage = "ready"
    /\ Local([journal EXCEPT !.flow = "heartbeat", !.stage = "heartbeat"], files)

abort ==
    /\ journal.flow # "abort" /\ ~Pending /\ journal.run # 0 /\ View(journal.run) = "active"
    /\ journal.recovery \notin {"outcome-unknown", "published-needs-reopen"}
    /\ Local([journal EXCEPT !.flow = "abort", !.stage = "abort"], files)

clear == "absent"

\* The current state of the run permits the removal, once nothing is pending or under way.
cleanup ==
    /\ ~Pending /\ journal.flow = "none" /\ journal.run # 0 /\ View(journal.run) \in Terminal
    /\ journal.recovery \notin {"outcome-unknown", "published-needs-reopen"} /\ journal.cleanup # "complete"
    /\ \/ Local([journal EXCEPT !.cleanup = "running"], clear)
       \/ journal.cleanup = "running" /\ Local([journal EXCEPT !.cleanup = "complete"], clear)

Next ==
    \/ reconcile \/ outcomeUnknown \/ heartbeat \/ abort \/ abandonReopen \/ cleanup
    \/ \E flow \in {"finalize", "checkpoint"} : finish(flow)

=============================================================================
