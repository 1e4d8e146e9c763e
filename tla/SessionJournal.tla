---------------------------- MODULE SessionJournal ----------------------------
(***************************************************************************)
(* What the three client libraries share: a private journal that survives  *)
(* the process, one pending command saved in it before it is sent, the     *)
(* local files of the workspace, and the call that is being made.          *)
(*                                                                         *)
(* Every step of a library ends with a save, so the journal is also what a *)
(* new process would load: a dead process is a call that ends without a    *)
(* step, and whatever a call would do next is done by reconcile instead.   *)
(* The phases "dispatched" and "outcome-unknown" are one here ("sent"); a  *)
(* prepared command with a saved proof of its rejection is "refused".      *)
(***************************************************************************)
EXTENDS SessionService

VARIABLES journal,   \* the private session state
          files,     \* the local workspace: a content, "torn" or "absent"
          call       \* the request or operation being awaited, and whether it was the first attempt

session == <<journal, files, call>>

NoCommand == [kind |-> "none"]
Command == [kind: Kinds, key: Keys, run: 0 .. MaxRuns, sub: Nat,
            content: Contents \cup {NoContent}, phase: {"prepared", "sent", "refused"}, op: BOOLEAN]

\* The values that the three libraries save.
Stages == {"opening", "refreshing", "ready", "submitting", "published-needs-reopen", "creating", "hydrating",
           "submission-create", "uploading", "sealing", "finalizing", "abandoned", "create", "open", "reopen",
           "hydrate", "capture", "submission", "upload", "seal", "finalize", "heartbeat", "abort", "done"} \cup Terminal
Flows == {"opening", "idle", "submit", "finalize", "checkpoint", "none", "open", "heartbeat", "abort"}
Recoveries == {"provisioning", "ready", "capturing", "hydration-failed", "outcome-unknown", "known-failed", "aborted",
               "finalized", "published-needs-reopen", "published-reopen-abandoned"}
Journal == [mode: {"read-only", "read-write"}, workspace: BOOLEAN, run: 0 .. MaxRuns, view: RunStates,
            pending: Command \cup {NoCommand}, stage: Stages, flow: Flows, state: {"provisioning", "ready", "failed"},
            capture: Contents \cup {NoContent}, sub: Nat, sealed: BOOLEAN, receipt: BOOLEAN,
            last: {"none", "succeeded", "failed"}, recovery: Recoveries, doubt: BOOLEAN,
            cleanup: {"pending", "running", "complete"}]

Pending == journal.pending # NoCommand
Idle == [at |-> "idle", first |-> FALSE]
Unused == CHOOSE k \in Keys : \A q \in late : q.key # k

\* The saved intent of a new command: its key and its exact request.
Intent(kind) ==
    LET onRun == kind \notin {"workspace:create", "run:open"}
        onSub == kind \in {"submission:file", "submission:seal"} \/ (kind = "finalize" /\ journal.mode = "read-write")
    IN [kind |-> kind, key |-> Unused, run |-> IF onRun THEN journal.run ELSE 0,
        sub |-> IF onSub THEN journal.sub ELSE 0,
        content |-> IF kind \in {"submission:file", "submission:seal"} THEN journal.capture ELSE NoContent,
        phase |-> "prepared", op |-> FALSE]

\* Bound: a run is submitted only while the session can open another one.
Reopenable == journal.run \in 1 .. MaxRuns - 1

\* Bound: heartbeats start before the first fault (and can meet every fault themselves).
Renewing == faults = MaxFaults

\* Save a command with the journal changes that belong to it.
Prepare(kind, j) ==
    /\ journal' = [j EXCEPT !.pending = Intent(kind)]
    /\ answers' = [answers EXCEPT ![Unused] = NoAnswer]
    /\ UNCHANGED <<files, call, server, late, faults>>

\* The request of the saved command.
Asked == [kind |-> journal.pending.kind, key |-> journal.pending.key, run |-> journal.pending.run,
          sub |-> journal.pending.sub, content |-> journal.pending.content]

\* Send the saved command, or wait for the operation it is known to have started.
Send(j, first) ==
    /\ journal' = [j EXCEPT !.pending.phase = "sent"]
    /\ call' = IF journal.pending.op THEN [at |-> "polling", first |-> FALSE] ELSE [at |-> "waiting", first |-> first]
    /\ UNCHANGED <<files, service>>

\* The answer of a settled command is dropped once no request on its way carries its key.
Remembered(j, a) ==
    [answers EXCEPT ![Asked.key] = IF j.pending = NoCommand /\ \A q \in late : q.key # Asked.key THEN NoAnswer ELSE a]

\* The request is served and its response read; the call ends or goes on to the operation.  A response
\* that is not read is a request given up and served late.
Read(status, j, at) ==
    /\ call.at = "waiting" /\ Respond(Asked, status)
    /\ answers' = Remembered(j, IF status = "accepted" THEN Answered(Asked) ELSE answers[Asked.key])
    /\ journal' = j /\ call' = [at |-> at, first |-> FALSE]
    /\ UNCHANGED <<files, late>>

\* The outcome of the awaited operation is read.
Learn(j) ==
    /\ call.at = "polling" /\ journal' = j /\ call' = Idle
    /\ answers' = Remembered(j, answers[Asked.key])
    /\ UNCHANGED <<files, server, late, faults>>

\* The deadline passes or the process dies: the request may still be on its way, the response is not read.
GiveUp(j) ==
    /\ call # Idle /\ faults > 0 /\ faults' = faults - 1
    /\ journal' = j /\ call' = Idle
    /\ late' = IF call.at = "waiting" THEN late \cup {Asked} ELSE late
    /\ UNCHANGED <<files, server, answers>>

\* A step that changes the journal and the local files only.
Local(j, f) == call = Idle /\ journal' = j /\ files' = f /\ UNCHANGED <<call, service>>

\* The tree is replaced by the base of the run, or left incomplete when a download fails.
Hydrate(done, failed) ==
    \/ Local(done, server.runs[journal.run].base)
    \/ /\ call = Idle /\ faults > 0 /\ faults' = faults - 1
       /\ journal' = failed /\ files' = "torn"
       /\ UNCHANGED <<call, server, answers, late>>

\* Agents write in a ready workspace, also when it has been captured.
Write(c) ==
    /\ files \in Contents \ {c} /\ journal.mode = "read-write" /\ journal.state = "ready"
    /\ journal.view \notin Terminal /\ journal.cleanup = "pending"
    /\ Local(journal, c)

NewJournal(mode, known, stage, flow) ==
    [mode |-> mode, workspace |-> known, run |-> 0, view |-> "none", pending |-> NoCommand,
     stage |-> stage, flow |-> flow, state |-> "provisioning", capture |-> NoContent,
     sub |-> 0, sealed |-> FALSE, receipt |-> FALSE, last |-> "none", recovery |-> "provisioning",
     doubt |-> FALSE, cleanup |-> "pending"]

\* The run that an answer to run:open names becomes the run of the session.
Opened(j) == [j EXCEPT !.run = Answered(Asked).run, !.view = "active", !.state = "provisioning", !.pending = NoCommand]

\* What an accepted submission command leaves in the journal.
Submitted(j) ==
    CASE journal.pending.kind = "submission:create" -> [j EXCEPT !.sub = Answered(Asked).sub, !.sealed = FALSE, !.pending = NoCommand]
      [] journal.pending.kind = "submission:file" -> [j EXCEPT !.receipt = TRUE, !.pending = NoCommand]
      [] OTHER -> [j EXCEPT !.sealed = TRUE, !.pending = NoCommand]

Outcome == server.runs[journal.run].state
SubmissionCommands == {"submission:create", "submission:file", "submission:seal"}

=============================================================================
