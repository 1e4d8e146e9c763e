----------------------------- MODULE PythonSession -----------------------------
(***************************************************************************)
(* LocalWorkspace of the Python library: a machine over the saved phase    *)
(* (`stage`), driven by _advance.  `flow` says whether a checkpoint is     *)
(* being made.  Every call holds a file lock and loads the journal anew.   *)
(***************************************************************************)
EXTENDS SessionJournal

provision(mode, known) == journal = NewJournal(mode, known, IF known THEN "opening" ELSE "creating", "none")

\* The saved proof that the only attempt was answered with a client error.
definitelyRejected == Pending /\ journal.pending.phase = "refused"

retained == journal.stage # "abandoned"

\* A new command needs an empty slot; an explicit abort may replace a command proved rejected.
prepare(kind, j) ==
    /\ call = Idle /\ retained
    /\ ~Pending \/ (kind = "abort" /\ definitelyRejected)
    /\ Prepare(kind, j)

\* The outcome is certain if nothing was sent before, or what was sent was refused.
certain == journal.pending.phase = "prepared" \/ definitelyRejected

dispatch == call = Idle /\ Pending /\ retained /\ Send(journal, certain)

accept ==
    LET kind == journal.pending.kind IN
    CASE kind = "run:open" -> [Opened(journal) EXCEPT !.stage = "hydrating"]
      [] kind \in SubmissionCommands ->
           [Submitted(journal) EXCEPT !.stage = IF kind = "submission:seal" THEN "finalizing" ELSE "uploading"]
      [] kind = "run:heartbeat" -> [journal EXCEPT !.view = "active", !.pending = NoCommand]
      [] kind = "abort" -> [journal EXCEPT !.view = "aborted", !.stage = "aborted", !.pending = NoCommand]
      [] OTHER -> [journal EXCEPT !.pending.op = TRUE]

\* A conflict or an expired run settles a command on it; a denial, and a refused open, keep the command
\* with the proof; an earlier attempt whose outcome is unknown keeps it without one.
rejected(status) ==
    LET gone == status = "rejected" /\ journal.pending.kind # "run:open"
        seen == IF journal.run # 0 /\ View(journal.run) = "expired" THEN "expired" ELSE journal.view
        how == IF View(journal.run) = "expired" \/ Outcome = "lapsed" THEN "expired" ELSE "conflicted"
    IN CASE ~call.first -> journal
         [] call.first /\ gone -> [journal EXCEPT !.pending = NoCommand, !.state = "failed", !.view = seen, !.stage = how]
         [] call.first /\ ~gone -> [journal EXCEPT !.pending.phase = "refused"]

receive ==
    \/ Read("accepted", accept, IF journal.pending.kind \in {"finalize", "workspace:create"} THEN "polling" ELSE "idle")
    \/ \E status \in {"denied", "rejected"} : Read(status, rejected(status), "idle")

\* A failed operation is a known outcome.
settleOperation ==
    \/ /\ journal.pending.kind = "workspace:create" /\ server.workspace \in {"created", "failed"}
       /\ Learn(IF server.workspace = "created"
                THEN [journal EXCEPT !.workspace = TRUE, !.stage = "opening", !.pending = NoCommand]
                ELSE [journal EXCEPT !.state = "failed", !.stage = "failed", !.pending = NoCommand])
    \/ /\ journal.pending.kind = "finalize" /\ Outcome \in Terminal
       /\ Learn(IF Outcome = "finalized"
                THEN [journal EXCEPT !.view = Outcome, !.last = "succeeded", !.pending = NoCommand,
                        !.stage = IF journal.flow = "checkpoint" THEN "published-needs-reopen" ELSE "finalized"]
                ELSE [journal EXCEPT !.state = "failed", !.stage = Outcome, !.pending = NoCommand])

outcomeUnknown == GiveUp(journal)

hydrateKeepingFiles ==
    LET done == [journal EXCEPT !.stage = "ready", !.flow = "none", !.state = "ready"]
        keep == journal.flow = "checkpoint" /\ journal.capture # NoContent /\ server.runs[journal.run].own
    IN /\ ~Pending /\ journal.stage = "hydrating"
       /\ \/ keep /\ Local(done, files)
          \/ ~keep /\ Hydrate(done, journal)

\* The files that a stopped checkpoint left are kept if they are still the published content and it is the base.
hydrate ==
    LET done == [journal EXCEPT !.stage = "ready", !.flow = "none", !.state = "ready"]
        keep == /\ journal.flow = "checkpoint" /\ journal.capture # NoContent /\ server.runs[journal.run].own
                /\ files = journal.capture
    IN /\ ~Pending /\ journal.stage = "hydrating"
       /\ \/ keep /\ Local(done, files)
          \/ ~keep /\ Hydrate(done, journal)

\* The command that each phase calls for.
advance ==
    \/ journal.stage = "creating" /\ prepare("workspace:create", journal)
    \/ journal.stage \in {"opening", "published-needs-reopen"} /\ prepare("run:open", journal)
    \/ journal.stage = "submission-create" /\ prepare("submission:create", journal)
    \/ journal.stage = "uploading" /\ ~journal.receipt /\ prepare("submission:file", journal)
    \/ journal.stage = "uploading" /\ journal.receipt /\ ~Pending /\ Local([journal EXCEPT !.stage = "sealing"], files)
    \/ journal.stage = "sealing" /\ prepare("submission:seal", journal)
    \/ journal.stage = "finalizing" /\ prepare("finalize", journal)

reconcile == dispatch \/ receive \/ settleOperation \/ hydrate \/ advance

\* A private verified copy of the tree becomes the content that the next commands submit.
capture_workspace == [journal EXCEPT !.capture = files, !.receipt = FALSE, !.sub = 0, !.sealed = FALSE]

\* finalize and checkpoint capture a ready workspace once; at any other phase they only advance.
finalize(flow) ==
    /\ ~Pending /\ journal.stage = "ready" /\ journal.cleanup = "pending" /\ Reopenable
    /\ \/ /\ journal.mode = "read-write" /\ files \in Contents
          /\ Local([capture_workspace EXCEPT !.flow = flow, !.stage = "submission-create"], files)
       \/ journal.mode = "read-only" /\ Local([journal EXCEPT !.flow = flow, !.stage = "finalizing"], files)

status ==
    /\ journal.run # 0 /\ journal.view # View(journal.run)
    /\ Local([journal EXCEPT !.view = View(journal.run)], files)

heartbeat == Renewing /\ ~Pending /\ journal.run # 0 /\ prepare("run:heartbeat", journal)

abort ==
    /\ journal.stage # "aborted" /\ journal.run # 0 /\ View(journal.run) = "active"
    /\ prepare("abort", [journal EXCEPT !.view = "active"])

\* A refused reopen is given up for good once the checkpoint before it is confirmed.
retireRejectedReopen ==
    /\ definitelyRejected /\ journal.pending.kind = "run:open" /\ journal.run # 0
    /\ Outcome = "finalized" /\ journal.last = "succeeded" /\ journal.cleanup = "pending"
    /\ Local([journal EXCEPT !.pending = NoCommand, !.stage = "abandoned", !.flow = "none", !.view = Outcome], files)

remove_workspace == "absent"

cleanupWithPending ==
    /\ journal.run # 0 /\ View(journal.run) \in Terminal /\ journal.cleanup # "complete"
    /\ Local([journal EXCEPT !.view = View(journal.run), !.cleanup = "complete"], remove_workspace)

\* The current state of the run, not the journal, permits the removal.
cleanup ==
    /\ ~Pending /\ journal.run # 0 /\ View(journal.run) \in Terminal /\ journal.cleanup # "complete"
    /\ \/ Local([journal EXCEPT !.view = View(journal.run), !.cleanup = "running"], remove_workspace)
       \/ journal.cleanup = "running" /\ Local([journal EXCEPT !.capture = NoContent, !.cleanup = "complete"], remove_workspace)

Next ==
    \/ reconcile \/ outcomeUnknown \/ status \/ heartbeat \/ abort \/ retireRejectedReopen \/ cleanup
    \/ \E flow \in {"none", "checkpoint"} : finalize(flow)

=============================================================================
