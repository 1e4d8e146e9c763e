------------------------------ MODULE McpSession ------------------------------
(***************************************************************************)
(* The MCP server keeps a TypeScript session behind a handle.  Its control *)
(* record is blocked before every mutation and unblocked when the mutation *)
(* returns; while it is blocked only a reconciliation is let through.      *)
(* Every call holds an exclusive marker file, which a dead process leaves  *)
(* behind and only an explicit recovery removes.                           *)
(***************************************************************************)
EXTENDS SessionJournal

VARIABLE control   \* the record of the handle

Ts == INSTANCE TypescriptSession

ControlRecord == [blocked: BOOLEAN, cleaned: BOOLEAN, marker: {"free", "held", "abandoned"}]

\* The record is saved, blocked, before the SDK session is created.
open(mode) == Ts!open(mode, TRUE) /\ control = [blocked |-> TRUE, cleaned |-> FALSE, marker |-> "held"]

\* The marker is created exclusively: while one exists, whoever left it, a new call is refused.
controller == control.marker = "free"

\* The SDK call returned without an error: reconcile has nothing left to do.
returned ==
    /\ call = Idle /\ ~Pending /\ journal.flow = "idle"
    /\ journal.state = "ready" \/ journal.view # "active"

\* The steps of the call that holds the handle, or of a reconciliation that takes it.
runs ==
    /\ control.blocked /\ (controller \/ control.marker = "held")
    /\ Ts!reconcile /\ control' = [control EXCEPT !.marker = "held"]

\* A call that does not learn its outcome ends with an error, or with its process.
outcomeUnknown ==
    /\ control.blocked /\ control.marker = "held" /\ Ts!outcomeUnknown
    /\ \E marker \in {"free", "abandoned"} : control' = [control EXCEPT !.marker = marker]

throws ==
    /\ control.blocked /\ control.marker = "held" /\ call = Idle
    /\ ~returned \/ journal.cleanup = "running"
    /\ control' = [control EXCEPT !.marker = "free"]
    /\ UNCHANGED <<session, service>>

dies ==
    /\ control.marker = "held" /\ call = Idle /\ faults > 0 /\ faults' = faults - 1
    /\ control' = [control EXCEPT !.marker = "abandoned"]
    /\ UNCHANGED <<session, server, answers, late>>

\* The marker names this handle, or is an interrupted write of such a marker.
recoverController == control.marker = "abandoned" /\ control' = [control EXCEPT !.marker = "free"]

\* Once every controller is stopped, the marker of a readable session is removed.
recover == recoverController /\ UNCHANGED <<session, service>>

\* A mutation starts only on a handle that is not blocked.
command ==
    /\ controller /\ ~control.blocked
    /\ control' = [control EXCEPT !.blocked = TRUE, !.marker = "held"]
    /\ Ts!heartbeat \/ Ts!abort \/ \E flow \in {"finalize", "checkpoint"} : Ts!beginWorkflow(flow)

\* The removal goes on in the same call.
cleanup ==
    /\ \/ controller /\ ~control.blocked
       \/ control.marker = "held" /\ control.blocked /\ journal.cleanup = "running"
    /\ Ts!cleanup
    /\ control' = [blocked |-> journal'.cleanup # "complete", cleaned |-> journal'.cleanup = "complete",
                   marker |-> IF journal'.cleanup = "complete" THEN "free" ELSE "held"]

\* Every command but reconcile reads the run first.
status == controller /\ Ts!status /\ UNCHANGED control

\* The file tools refuse to write when the handle is blocked or the run is over.
filePath == ~control.blocked /\ journal.view = "active" /\ journal.mode = "read-write" /\ journal.state = "ready"

write(c) == controller /\ filePath /\ Write(c) /\ control' = [control EXCEPT !.marker = "held"]

unblock ==
    /\ (control.marker = "held" /\ journal.cleanup # "running") \/ (controller /\ control.blocked)
    /\ returned /\ control' = [control EXCEPT !.blocked = FALSE, !.marker = "free"]
    /\ UNCHANGED <<session, service>>

Next ==
    \/ runs \/ outcomeUnknown \/ throws \/ dies \/ recover \/ command \/ cleanup \/ status \/ unblock
    \/ \E c \in Contents : write(c)

=============================================================================
