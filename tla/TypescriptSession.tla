--------------------------- MODULE TypescriptSession ---------------------------
(***************************************************************************)
(* LocalWorkspaceSession of the TypeScript library.  `flow` is the saved   *)
(* workflow, `stage` the session status, `state` the materialization.      *)
(***************************************************************************)
EXTENDS SessionJournal

open(mode, known) == journal = NewJournal(mode, known, "opening", "opening")

\* The guards that prepare puts before every new command.
prepare(kind, j) ==
    /\ call = Idle /\ journal.cleanup # "complete" /\ ~Pending
    /\ Prepare(kind, j)

\* Only the first attempt of a command can prove that it was never accepted.
dispatch == call = Idle /\ Pending /\ Send(journal, journal.pending.phase = "prepared" /\ ~journal.pending.op)

\* The result of a command, saved with the cleared command.
accepted ==
    LET kind == journal.pending.kind IN
    CASE kind = "run:open" ->
           [Opened(journal) EXCEPT !.stage = IF journal.flow = "checkpoint" THEN "refreshing" ELSE "opening",
              !.capture = NoContent, !.sub = 0, !.sealed = FALSE, !.receipt = FALSE, !.last = "none"]
      [] kind \in SubmissionCommands -> Submitted(journal)
      [] kind = "run:heartbeat" -> [journal EXCEPT !.view = "active", !.pending = NoCommand]
      [] kind = "abort" -> [journal EXCEPT !.view = "aborted", !.stage = "aborted", !.flow = "idle", !.pending = NoCommand]
      [] OTHER -> [journal EXCEPT !.pending.op = TRUE]

refusedAnyAttempt(status) == [journal EXCEPT !.pending = NoCommand]

\* A definite rejection of the first attempt settles the command; every other one keeps it.
refused(status) == IF call.first THEN [journal EXCEPT !.pending = NoCommand] ELSE journal

receive ==
    \/ Read("accepted", accepted, IF journal.pending.kind \in {"finalize", "workspace:create"} THEN "polling" ELSE "idle")
    \/ \E status \in {"denied", "rejected"} : Read(status, refused(status), "idle")

\* A failed creation keeps its command: the error is raised with the operation still saved.
learnCreation ==
    /\ journal.pending.kind = "workspace:create" /\ server.workspace \in {"created", "failed"}
    /\ Learn(IF server.workspace = "failed" THEN journal
             ELSE [journal EXCEPT !.workspace = TRUE, !.pending = NoCommand])

learnFinalization ==
    /\ journal.pending.kind = "finalize" /\ Outcome \in Terminal
    /\ Learn(IF Outcome = "finalized"
             THEN [journal EXCEPT !.view = Outcome, !.last = "succeeded", !.pending = NoCommand,
                     !.stage = IF journal.flow = "checkpoint" THEN "published-needs-reopen" ELSE "finalized"]
             ELSE [journal EXCEPT !.view = Outcome, !.last = "failed", !.pending = NoCommand,
                     !.stage = Outcome, !.flow = "idle"])

outcomeUnknown == GiveUp(journal)

opening ==
    /\ journal.flow = "opening"
    /\ \/ ~journal.workspace /\ prepare("workspace:create", journal)
       \/ journal.workspace /\ journal.run = 0 /\ prepare("run:open", journal)

\* The new tree is written after the saved state says that the old one is gone.
hydrate ==
    /\ ~Pending /\ journal.run # 0 /\ journal.cleanup # "complete"
    /\ \/ journal.flow = "opening" /\ journal.state # "ready"
       \/ journal.flow = "checkpoint" /\ journal.stage = "refreshing"
       \/ journal.flow = "idle" /\ journal.state # "ready" /\ journal.view = "active"
    /\ Hydrate([journal EXCEPT !.state = "ready", !.stage = "ready", !.flow = "idle"],
               [journal EXCEPT !.state = "failed"])

beginWorkflow(flow) ==
    /\ ~Pending /\ journal.flow = "idle" /\ journal.cleanup # "complete" /\ Reopenable
    /\ flow = "checkpoint" => journal.mode = "read-write"
    /\ Local([journal EXCEPT !.flow = flow, !.stage = IF flow = "submit" THEN "submitting" ELSE @], files)

\* Whether finish goes past its early returns, and seal is reached.
finishing ==
    /\ journal.flow \in {"finalize", "checkpoint"} /\ journal.last # "failed" /\ journal.view # "expired"
    /\ journal.stage \notin {"finalized", "published-needs-reopen", "refreshing"}
sealing == ~Pending /\ journal.mode = "read-write" /\ (journal.flow = "submit" \/ finishing)

\* A private copy of the tree is verified, owned and kept.
capture == [journal EXCEPT !.capture = files]

captureEveryTime ==
    /\ ~Pending /\ journal.mode = "read-write" /\ journal.cleanup # "complete"
    /\ journal.view = "active" /\ journal.state = "ready" /\ files \in Contents
    /\ Local(capture, files)

\* The capture of a run is taken once and kept until the next run is opened.
captureOnce ==
    /\ ~Pending /\ journal.mode = "read-write" /\ journal.cleanup # "complete" /\ journal.capture = NoContent
    /\ journal.view = "active" /\ journal.state = "ready" /\ files \in Contents
    /\ Local(capture, files)

seal ==
    /\ sealing /\ journal.capture # NoContent /\ ~journal.sealed
    /\ \/ journal.sub = 0 /\ prepare("submission:create", journal)
       \/ journal.sub # 0 /\ ~journal.receipt /\ prepare("submission:file", journal)
       \/ journal.sub # 0 /\ journal.receipt /\ prepare("submission:seal", journal)

submitted ==
    /\ ~Pending /\ journal.flow = "submit" /\ journal.sealed
    /\ Local([journal EXCEPT !.flow = "idle"], files)

\* finish reads the run before it creates a command; an expired run ends the attempt.
readRun ==
    /\ ~Pending /\ finishing /\ journal.view # View(journal.run)
    /\ Local([journal EXCEPT !.view = View(journal.run), !.stage = IF View(journal.run) = "expired" THEN "expired" ELSE @],
             files)

finish ==
    /\ finishing /\ (journal.mode = "read-only" \/ journal.sealed)
    /\ prepare("finalize", journal)

finalized ==
    /\ ~Pending /\ journal.flow = "finalize" /\ journal.stage = "finalized"
    /\ Local([journal EXCEPT !.flow = "idle"], files)

reopen ==
    /\ journal.flow = "checkpoint" /\ ~Pending
    /\ \/ journal.stage = "finalized" /\ Local([journal EXCEPT !.stage = "published-needs-reopen"], files)
       \/ journal.stage = "published-needs-reopen" /\ prepare("run:open", journal)

heartbeat == Renewing /\ journal.run # 0 /\ prepare("run:heartbeat", journal)

status ==
    /\ journal.run # 0 /\ journal.view # View(journal.run)
    /\ Local([journal EXCEPT !.view = View(journal.run)], files)

abort == journal.view = "active" /\ prepare("abort", [journal EXCEPT !.flow = "idle"])

\* The owned tree is removed entry by entry; an absent one is not an error.
removeOwnedTree == "absent"

\* References to captures are cleared before their files are removed.
cleanup ==
    /\ ~Pending /\ journal.view \in Terminal /\ journal.cleanup # "complete"
    /\ \/ Local([journal EXCEPT !.flow = "idle", !.stage = journal.view, !.capture = NoContent,
                   !.receipt = FALSE, !.cleanup = "running"], removeOwnedTree)
       \/ journal.cleanup = "running" /\ Local([journal EXCEPT !.cleanup = "complete"], removeOwnedTree)

reconcile ==
    \/ dispatch \/ receive \/ learnCreation \/ learnFinalization
    \/ opening \/ hydrate \/ (sealing /\ captureOnce) \/ seal \/ submitted
    \/ readRun \/ finish \/ finalized \/ reopen

Next ==
    \/ reconcile \/ outcomeUnknown \/ captureOnce \/ heartbeat \/ status \/ abort \/ cleanup
    \/ \E flow \in {"submit", "finalize", "checkpoint"} : beginWorkflow(flow)

=============================================================================
