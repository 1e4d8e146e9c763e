---------------------------- MODULE ClientSessions ----------------------------
(***************************************************************************)
(* One session of one of the client libraries, its agent that edits local  *)
(* files, and the service over a network that delays and loses.            *)
(***************************************************************************)
EXTENDS SessionJournal

CONSTANT Libraries   \* the clients that are considered

ASSUME LibrariesAreKnown == Libraries \subseteq {"typescript", "python", "php", "mcp"}

VARIABLES library, control

vars == <<library, control, session, service>>

Ts == INSTANCE TypescriptSession
Py == INSTANCE PythonSession
Php == INSTANCE PhpSession
Mcp == INSTANCE McpSession

\* The other libraries have no handle.
NoHandle == [blocked |-> FALSE, cleaned |-> FALSE, marker |-> "free"]

Init ==
    \E mode \in {"read-only", "read-write"}, known \in BOOLEAN :
       /\ library \in Libraries /\ (known <=> (mode = "read-only" \/ library = "mcp"))
       /\ ServiceInit(known) /\ files = "absent" /\ call = Idle
       /\ \/ library = "typescript" /\ Ts!open(mode, known) /\ control = NoHandle
          \/ library = "python" /\ Py!provision(mode, known) /\ control = NoHandle
          \/ library = "php" /\ Php!create(mode, known) /\ control = NoHandle
          \/ library = "mcp" /\ Mcp!open(mode)

ClientNext ==
    \/ library = "typescript" /\ Ts!Next /\ UNCHANGED control
    \/ library = "python" /\ Py!Next /\ UNCHANGED control
    \/ library = "php" /\ Php!Next /\ UNCHANGED control
    \/ library = "mcp" /\ Mcp!Next

AgentNext == \E c \in Contents : Write(c) /\ UNCHANGED control

Next == (ClientNext \/ AgentNext \/ (ServiceNext /\ UNCHANGED <<session, control>>)) /\ UNCHANGED library

Spec == Init /\ [][Next]_vars

\* Someone keeps reconciling a session that has work left and asks for its cleanup; the server answers
\* what reaches it and its workers decide what they accepted.
Reconcile ==
    /\ \/ library = "typescript" /\ Ts!reconcile /\ UNCHANGED control
       \/ library = "python" /\ Py!reconcile /\ UNCHANGED control
       \/ library = "php" /\ Php!reconcile /\ UNCHANGED control
       \/ library = "mcp" /\ (Mcp!runs \/ Mcp!recover \/ Mcp!unblock)
    /\ UNCHANGED library

Cleanup ==
    /\ \/ library = "typescript" /\ Ts!cleanup /\ UNCHANGED control
       \/ library = "python" /\ Py!cleanup /\ UNCHANGED control
       \/ library = "php" /\ Php!cleanup /\ UNCHANGED control
       \/ library = "mcp" /\ Mcp!cleanup
    /\ UNCHANGED library

Served == ProcessOperation /\ UNCHANGED <<library, session, control>>

FairSpec == Spec /\ WF_vars(Reconcile) /\ WF_vars(Served)

CleanupSpec == FairSpec /\ SF_vars(Cleanup)

-----------------------------------------------------------------------------
(* Properties *)

\* No run is left running behind the caller's back: every live run is the one the journal names, or the
\* answer to the open command that the journal still holds, however responses were lost, requests
\* arrived late and processes died (dispatch, _dispatch).
LiveRunIsOwned ==
    \A r \in Runs : server.runs[r].state \in Live =>
       r = journal.run \/ (journal.pending.kind = "run:open" /\ answers[journal.pending.key].run = r)

\* Local files are removed only when nothing can still need them or come to life: the run has ended, no
\* command is unsettled, and no opening that the server might yet accept is on its way (cleanup).
CleanupIsSafe ==
    [][journal'.cleanup # journal.cleanup =>
         /\ ~Pending /\ \A r \in Runs : server.runs[r].state \notin Live
         /\ \A q \in late : q.kind = "run:open" => answers[q.key] # NoAnswer]_vars

\* Whatever the server holds sealed for the run of the session is the content that the journal captured
\* once, whatever agents wrote and however often commands were repeated (captureOnce, _finalize, drive).
SealedIsCaptured ==
    /\ journal.run # 0 /\ journal.cleanup = "pending"
    => \A i \in 1 .. Len(server.runs[journal.run].subs) :
          server.runs[journal.run].subs[i].sealed =>
             server.runs[journal.run].subs[i].content = journal.capture

\* A workspace becomes ready only with exactly the pinned base of its run in place; the Python library's
\* reuse of published files included (hydrate, _hydrate).
ReadyIsTheBase ==
    [][journal.state # "ready" /\ journal'.state = "ready" => files' = server.runs[journal'.run].base]_vars

\* A command the server accepted does not stay unsettled: repeating it learns the outcome, unless the
\* creation of the workspace itself failed (reconcile).
AcceptedIsLearned ==
    (Pending /\ answers[journal.pending.key] # NoAnswer) ~> (~Pending \/ server.workspace = "failed")

\* Once its run has ended for good and nothing is pending, asking for the cleanup of a session succeeds.
EndedSessionIsCleaned ==
    <>[](journal.view \in Terminal /\ ~Pending) => <>(journal.cleanup = "complete")

=============================================================================
