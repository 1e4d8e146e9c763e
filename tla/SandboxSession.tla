---------------------------- MODULE SandboxSession ----------------------------
(***************************************************************************)
(* A colocated sandbox of the compatibility surface: a directory on the    *)
(* server's host that an agent edits, checked out once, committed as a     *)
(* sequence of checkpoints and destroyed.  The server keeps a journal of   *)
(* the session, one of every checkpoint and an ownership record of every   *)
(* immutable capture, and can die between any two writes.  Calls of one    *)
(* session exclude each other; other clients publish at any time.          *)
(***************************************************************************)
EXTENDS Naturals, Sequences

CONSTANTS MaxKeys,      \* checkpoint keys, used in order
          Contents,     \* complete contents of a directory
          Initial,      \* the contents of the workspace at the start
          MaxPushes,    \* publications of other clients
          MaxFaults,    \* interrupted calls and failed requests
          LateRepeats   \* the host may repeat a key after it used a later one

ASSUME SandboxAssumption ==
    /\ MaxKeys \in Nat /\ MaxPushes \in Nat /\ MaxFaults \in Nat
    /\ Initial \in Contents /\ LateRepeats \in BOOLEAN

Keys == 1 .. MaxKeys
\* Run 0 is the one that checkout opens, run k the one that checkpoint k reopens: the key of the command
\* decides which.
Runs == 0 .. MaxKeys
NoRun == MaxKeys + 1
Absent == "absent"

VARIABLES session, checkpoint, capture,   \* the private journals
          tree,                           \* the sandbox directory
          runs, history,                  \* the catalog
          call, faults

vars == <<session, checkpoint, capture, tree, runs, history, call, faults>>

Session == [phase: {"none", "opening", "active", "uncertain", "published-needs-reopen", "failed", "destroyed"},
            run: Runs \cup {NoRun}, pending: Keys \cup {0}]

Checkpoint == [saved: BOOLEAN, run: Runs \cup {NoRun}, content: Contents, submitted: BOOLEAN,
               published: Nat, reopened: BOOLEAN, result: BOOLEAN]

Allocation == [state: {"none", "allocating", "sealed", "discarding", "failed", "cleaned"}, retryable: BOOLEAN,
               whole: BOOLEAN, content: Contents, run: Runs \cup {NoRun}]

RunRecord == [state: {"none", "active", "finalizing", "finalized", "failed", "aborted", "expired"}, base: Nat, key: Keys \cup {0}]

Revision == [key: Keys \cup {0}, content: Contents]

Idle == [op |-> "idle", at |-> "idle", key |-> 0]

\* The call that holds the session, between two of its awaits.
Call ==
    {Idle} \cup [op: {"checkout"}, at: {"open", "opened", "hydrate", "hydrated"}, key: {0}]
        \cup [op: {"commit"}, at: {"capture", "copy", "seal", "discard", "select", "pending", "publish", "wait",
                                  "published", "reopen", "opened", "reopened", "resume", "result"}, key: Keys]
        \cup [op: {"destroy"}, at: {"abort", "clean", "remove", "end"}, key: {0}]

TypeOK ==
    /\ session \in Session /\ checkpoint \in [Keys -> Checkpoint] /\ capture \in [Keys -> Allocation]
    /\ tree \in Contents \cup {Absent} /\ runs \in [Runs -> RunRecord]
    /\ history \in Seq(Revision) /\ history # <<>> /\ call \in Call /\ faults \in Nat

Init ==
    /\ session = [phase |-> "none", run |-> NoRun, pending |-> 0]
    /\ checkpoint = [k \in Keys |-> [saved |-> FALSE, run |-> NoRun, content |-> Initial, submitted |-> FALSE,
                                     published |-> 0, reopened |-> FALSE, result |-> FALSE]]
    /\ capture = [k \in Keys |-> [state |-> "none", retryable |-> FALSE, whole |-> FALSE, content |-> Initial, run |-> NoRun]]
    /\ tree = Absent
    /\ runs = [r \in Runs |-> [state |-> "none", base |-> 0, key |-> 0]]
    /\ history = <<[key |-> 0, content |-> Initial]>>
    /\ call = Idle /\ faults = MaxFaults

At(op, step) == call.op = op /\ call.at = step
Goes(step) == call' = [call EXCEPT !.at = step]
Returns == call' = Idle

Ended(r) == runs[r].state \in {"finalized", "failed", "aborted", "expired"}

-----------------------------------------------------------------------------
(* Opening a run: the command's key makes a repeated opening return the same run. *)

opened(r) ==
    IF runs[r].state = "none" THEN [runs EXCEPT ![r] = [state |-> "active", base |-> Len(history), key |-> 0]] ELSE runs

open ==
    /\ At("checkout", "open") \/ (At("commit", "reopen") /\ ~checkpoint[call.key].reopened)
    /\ runs' = opened(call.key) /\ Goes("opened")
    /\ UNCHANGED <<session, checkpoint, capture, tree, history, faults>>

checkoutSandbox ==
    /\ call = Idle /\ session.phase = "none"
    /\ session' = [session EXCEPT !.phase = "opening"]
    /\ call' = [op |-> "checkout", at |-> "open", key |-> 0]
    /\ UNCHANGED <<checkpoint, capture, tree, runs, history, faults>>

hydrate ==
    \/ /\ At("checkout", "opened") /\ session' = [session EXCEPT !.run = 0]
       /\ Goes("hydrate") /\ UNCHANGED <<checkpoint, capture, tree, runs, history, faults>>
    \/ /\ At("checkout", "hydrated") /\ session' = [session EXCEPT !.phase = "active"]
       /\ Returns /\ UNCHANGED <<checkpoint, capture, tree, runs, history, faults>>

hydrateWorkspace ==
    /\ At("checkout", "hydrate") /\ tree' = history[runs[0].base].content
    /\ Goes("hydrated") /\ UNCHANGED <<session, checkpoint, capture, runs, history, faults>>

-----------------------------------------------------------------------------
(* Capture *)

baseOf(r) == history[runs[r].base].content

\* The key of another request that is still pending is refused.
commitSandbox(k) ==
    /\ call = Idle /\ session.phase \notin {"none", "destroyed"} /\ ~checkpoint[k].result
    /\ session.pending \in {0, k}
    /\ k > 1 => capture[k - 1].state # "none"
    /\ LateRepeats \/ \A l \in Keys : l > k => capture[l].state = "none"
    /\ ~checkpoint[k].saved => session.run # NoRun /\ session.phase = "active"
    /\ call' = [op |-> "commit", at |-> IF checkpoint[k].saved THEN "pending" ELSE "capture", key |-> k]
    /\ UNCHANGED <<session, checkpoint, capture, tree, runs, history, faults>>

hasPendingCapture(k) == capture[k].state \notin {"none", "failed", "cleaned"}

\* Bytes are removed between two writes of their record; a terminal removal is never captured again.
discarding(record, terminal) == [record EXCEPT !.state = "discarding", !.retryable = ~terminal]
discarded(record, terminal) == [record EXCEPT !.state = IF terminal THEN "cleaned" ELSE "failed", !.whole = FALSE]

\* A capture belongs to the run that it was made on.
allocation(k) == capture[k].run \in {NoRun, session.run}

\* Ownership is recorded before any byte; a directory equal to its base is not captured.  The comparison and
\* the scan are one step.
allocate ==
    /\ At("commit", "capture") /\ allocation(call.key)
    /\ LET k == call.key IN
       /\ tree # Absent
       /\ \/ ~hasPendingCapture(k) /\ capture[k].state # "cleaned" /\ tree # baseOf(session.run)
          \/ capture[k].state = "discarding" /\ capture[k].retryable
       /\ capture' = [capture EXCEPT ![k] = [state |-> "allocating", retryable |-> FALSE, whole |-> FALSE,
                                             content |-> tree, run |-> session.run]]
    /\ Goes("copy")
    /\ UNCHANGED <<session, checkpoint, tree, runs, history, faults>>

retainedUnsealed ==
    /\ At("commit", "capture")
    /\ LET k == call.key IN
       \/ /\ capture[k].state \in {"allocating", "sealed"}
          /\ capture' = [capture EXCEPT ![k].state = "sealed"] /\ Goes("select")
       \/ /\ \/ capture[k].state \in {"none", "failed"} /\ tree \in {Absent, baseOf(session.run)}
             \/ capture[k].state = "cleaned" \/ (capture[k].state = "discarding" /\ ~capture[k].retryable)
          /\ Returns /\ UNCHANGED capture
    /\ UNCHANGED <<session, checkpoint, tree, runs, history, faults>>

\* What an earlier attempt captured is used if it was sealed; an interrupted or a cleaned capture, and a
\* directory that is unchanged or gone, end the call.
retained ==
    /\ At("commit", "capture")
    /\ LET k == call.key IN
       \/ /\ allocation(k) /\ capture[k].state \in {"allocating", "sealed"} /\ capture[k].whole
          /\ capture' = [capture EXCEPT ![k].state = "sealed"] /\ Goes("select")
       \/ /\ \/ ~allocation(k)
             \/ capture[k].state \in {"none", "failed"} /\ tree \in {Absent, baseOf(session.run)}
             \/ capture[k].state \in {"allocating", "sealed"} /\ ~capture[k].whole
             \/ capture[k].state = "cleaned" \/ (capture[k].state = "discarding" /\ ~capture[k].retryable)
          /\ Returns /\ UNCHANGED capture
    /\ UNCHANGED <<session, checkpoint, tree, runs, history, faults>>

\* The files are copied and compared with what was scanned; a changed directory discards the copy.
captureWorkspace ==
    LET k == call.key IN
    /\ At("commit", "copy")
    /\ IF tree = capture[k].content
       THEN capture' = [capture EXCEPT ![k].whole = TRUE] /\ Goes("seal")
       ELSE capture' = [capture EXCEPT ![k] = discarding(@, FALSE)] /\ Goes("discard")
    /\ UNCHANGED <<session, checkpoint, tree, runs, history, faults>>

seal ==
    /\ At("commit", "seal") /\ capture' = [capture EXCEPT ![call.key].state = "sealed"] /\ Goes("select")
    /\ UNCHANGED <<session, checkpoint, tree, runs, history, faults>>

discard ==
    /\ At("commit", "discard") /\ capture' = [capture EXCEPT ![call.key] = discarded(@, FALSE)] /\ Returns
    /\ UNCHANGED <<session, checkpoint, tree, runs, history, faults>>

selectSource ==
    \/ /\ At("commit", "select")
       /\ checkpoint' = [checkpoint EXCEPT ![call.key] = [@ EXCEPT !.saved = TRUE, !.run = session.run, !.content = capture[call.key].content]]
       /\ Goes("pending") /\ UNCHANGED <<session, capture, tree, runs, history, faults>>
    \/ /\ At("commit", "pending") /\ session' = [session EXCEPT !.pending = call.key]
       /\ Goes(IF checkpoint[call.key].published # 0 THEN "reopen" ELSE "publish")
       /\ UNCHANGED <<checkpoint, capture, tree, runs, history, faults>>

-----------------------------------------------------------------------------
(* Publication *)

runOf(k) == checkpoint[k].run

\* Bytes are read back only from a sealed capture; a capture serves one run.
capturedProvider(k) == IF capture[k].whole THEN checkpoint[k].content ELSE Absent
bindCaptureRun(k) == capture[k].state = "sealed" /\ capture[k].run = runOf(k)

\* The sealed submission holds the captured bytes; the finalization is claimed with the key of the checkpoint.
publishSnapshot ==
    /\ At("commit", "publish")
    /\ LET k == call.key IN
       \/ /\ ~checkpoint[k].submitted /\ runs[runOf(k)].state = "active" /\ bindCaptureRun(k)
          /\ checkpoint' = [checkpoint EXCEPT ![k] = [@ EXCEPT !.submitted = TRUE, !.content = capturedProvider(k)]]
          /\ UNCHANGED <<runs, call>>
       \/ /\ checkpoint[k].submitted /\ runs[runOf(k)].state = "active"
          /\ runs' = [runs EXCEPT ![runOf(k)] = [@ EXCEPT !.state = "finalizing", !.key = k]]
          /\ Goes("wait") /\ UNCHANGED checkpoint
       \/ /\ runs[runOf(k)].key = k /\ runs[runOf(k)].state # "active"
          /\ Goes("wait") /\ UNCHANGED <<runs, checkpoint>>
    /\ UNCHANGED <<session, capture, tree, history, faults>>

publicationFailsKeepingThePending ==
    /\ LET r == runOf(call.key) IN
       \/ At("commit", "publish") /\ Ended(r) /\ runs[r].key # call.key
       \/ At("commit", "wait") /\ runs[r].state = "failed"
    /\ session' = [session EXCEPT !.phase = "failed"] /\ Returns
    /\ UNCHANGED <<checkpoint, capture, tree, runs, history, faults>>

\* A run that ended otherwise is final; its checkpoint is no longer pending.
publicationFails ==
    /\ LET r == runOf(call.key) IN
       \/ At("commit", "publish") /\ Ended(r) /\ runs[r].key # call.key
       \/ At("commit", "wait") /\ runs[r].state = "failed"
    /\ session' = [session EXCEPT !.phase = "failed", !.pending = 0] /\ Returns
    /\ UNCHANGED <<checkpoint, capture, tree, runs, history, faults>>

outcomeUnknown ==
    /\ At("commit", "wait") /\ runs[runOf(call.key)].state = "finalizing"
    /\ session' = [session EXCEPT !.phase = "uncertain"] /\ Returns
    /\ UNCHANGED <<checkpoint, capture, tree, runs, history, faults>>

\* The last revision on the base of the run is the one it published, or the base if nothing changed.
revisionOf(r) ==
    IF Len(history) > runs[r].base /\ history[runs[r].base + 1].key = runs[r].key THEN runs[r].base + 1 ELSE runs[r].base

recordPublished ==
    \/ /\ At("commit", "wait") /\ runs[runOf(call.key)].state = "finalized"
       /\ checkpoint' = [checkpoint EXCEPT ![call.key].published = revisionOf(runOf(call.key))]
       /\ Goes("published") /\ UNCHANGED <<session, capture, tree, runs, history, faults>>
    \/ /\ At("commit", "published") /\ session' = [session EXCEPT !.phase = "published-needs-reopen"]
       /\ Goes("reopen") /\ UNCHANGED <<checkpoint, capture, tree, runs, history, faults>>

\* Reopening repeats its own saved command, never the checkpoint.
resume ==
    LET k == call.key IN
    \/ /\ At("commit", "reopen") /\ checkpoint[k].reopened
       /\ Goes("reopened") /\ UNCHANGED <<session, checkpoint, capture, tree, runs, history, faults>>
    \/ /\ At("commit", "opened") /\ checkpoint' = [checkpoint EXCEPT ![k].reopened = TRUE]
       /\ Goes("reopened") /\ UNCHANGED <<session, capture, tree, runs, history, faults>>
    \/ /\ At("commit", "reopened") /\ session' = [session EXCEPT !.run = k]
       /\ Goes("resume") /\ UNCHANGED <<checkpoint, capture, tree, runs, history, faults>>
    \/ /\ At("commit", "resume")
       /\ IF runs[k].state = "active" /\ runs[k].base = checkpoint[k].published
          THEN session' = [session EXCEPT !.phase = "active", !.pending = 0] /\ Goes("result")
          ELSE session' = [session EXCEPT !.phase = "published-needs-reopen"] /\ Returns
       /\ UNCHANGED <<checkpoint, capture, tree, runs, history, faults>>
    \/ /\ At("commit", "result") /\ checkpoint' = [checkpoint EXCEPT ![k].result = TRUE]
       /\ Returns /\ UNCHANGED <<session, capture, tree, runs, history, faults>>

reopenFails ==
    /\ call.op = "commit" /\ call.at \in {"reopen", "opened", "reopened", "resume", "result"}
    /\ faults > 0 /\ faults' = faults - 1
    /\ session' = [session EXCEPT !.phase = "published-needs-reopen"] /\ Returns
    /\ UNCHANGED <<checkpoint, capture, tree, runs, history>>

-----------------------------------------------------------------------------
(* Destruction *)

\* The runs of every capture, of the session, of its pending checkpoint and of the reopening of that one.
ownedRuns ==
    ({session.run} \cup {capture[k].run : k \in {l \in Keys : capture[l].state \notin {"none", "cleaned"}}}
        \cup (IF session.pending = 0 THEN {}
              ELSE {checkpoint[session.pending].run} \cup (IF checkpoint[session.pending].reopened THEN {session.pending} ELSE {})))
    \ {NoRun}

incomplete ==
    \/ session.pending # 0 \/ session.phase \in {"published-needs-reopen", "opening"}
    \/ \E k \in Keys : capture[k].state \in {"allocating", "sealed"} /\ runs[capture[k].run].state = "active"

noRecordedOpen(r) == FALSE

\* A run that was opened and not recorded here is found by the key of its command.
recordedOpen(r) == runs[r].state # "none"

\* An uncertain session, or one whose pending checkpoint is not published, is not destroyed.
destroySandbox(abandon) ==
    /\ call = Idle /\ session.phase \notin {"none", "destroyed", "uncertain"}
    /\ incomplete => abandon
    /\ LET k == session.pending IN
       IF k # 0 THEN /\ checkpoint[k].published # 0
                     /\ checkpoint' = [checkpoint EXCEPT ![k].reopened = @ \/ recordedOpen(k)]
                     /\ session' = [session EXCEPT !.run = IF checkpoint[k].reopened \/ recordedOpen(k) THEN k ELSE @]
       ELSE /\ session' = [session EXCEPT !.run = IF session.phase = "opening" /\ @ = NoRun /\ recordedOpen(0) THEN 0 ELSE @]
            /\ UNCHANGED checkpoint
    /\ call' = [op |-> "destroy", at |-> "abort", key |-> 0]
    /\ UNCHANGED <<capture, tree, runs, history, faults>>

abortRuns ==
    /\ At("destroy", "abort")
    /\ \/ \E r \in ownedRuns : runs[r].state = "active" /\ runs' = [runs EXCEPT ![r].state = "aborted"] /\ UNCHANGED call
       \/ /\ \A r \in ownedRuns : runs[r].state # "active"
          /\ IF \E r \in ownedRuns : runs[r].state = "finalizing" THEN Returns ELSE Goes("clean")
          /\ UNCHANGED runs
    /\ UNCHANGED <<session, checkpoint, capture, tree, history, faults>>

\* The bytes go between two writes of their record, which stays terminal from the first one on.
cleanupOwnedCaptures ==
    /\ At("destroy", "clean")
    /\ \/ \E k \in Keys : /\ capture[k].state \notin {"none", "cleaned", "discarding"} \/ (capture[k].state = "discarding" /\ capture[k].retryable)
                          /\ Ended(capture[k].run)
                          /\ capture' = [capture EXCEPT ![k] = discarding(@, TRUE)] /\ UNCHANGED call
       \/ \E k \in Keys : /\ capture[k].state = "discarding" /\ ~capture[k].retryable
                          /\ capture' = [capture EXCEPT ![k] = discarded(@, TRUE)] /\ UNCHANGED call
       \/ (\A k \in Keys : capture[k].state \in {"none", "cleaned"}) /\ Goes("remove") /\ UNCHANGED capture
    /\ UNCHANGED <<session, checkpoint, tree, runs, history, faults>>

removeWorkspace ==
    \/ At("destroy", "remove") /\ tree' = Absent /\ Goes("end") /\ UNCHANGED <<session, checkpoint, capture, runs, history, faults>>
    \/ /\ At("destroy", "end") /\ session' = [session EXCEPT !.phase = "destroyed", !.pending = 0]
       /\ Returns /\ UNCHANGED <<checkpoint, capture, tree, runs, history, faults>>

-----------------------------------------------------------------------------
(* Others *)

\* The process dies or a request fails; what is journalled stays.
interrupted ==
    /\ call # Idle /\ faults > 0 /\ faults' = faults - 1 /\ Returns
    /\ UNCHANGED <<session, checkpoint, capture, tree, runs, history>>

agentEdits ==
    /\ tree # Absent /\ session.phase # "opening" /\ tree' \in Contents \ {tree}
    /\ UNCHANGED <<session, checkpoint, capture, runs, history, call, faults>>

expireActiveRun(r) ==
    /\ runs[r].state = "active" /\ runs' = [runs EXCEPT ![r].state = "expired"]
    /\ UNCHANGED <<session, checkpoint, capture, tree, history, call, faults>>

\* A claimed finalization is processed by whoever holds its claim: accepted on its base, a conflict otherwise.
processOperation(r) ==
    /\ runs[r].state = "finalizing"
    /\ IF runs[r].base = Len(history)
       THEN /\ runs' = [runs EXCEPT ![r].state = "finalized"]
            /\ LET c == checkpoint[runs[r].key].content IN
               history' = IF c = baseOf(r) THEN history ELSE Append(history, [key |-> runs[r].key, content |-> c])
       ELSE runs' = [runs EXCEPT ![r].state = "failed"] /\ UNCHANGED history
    /\ UNCHANGED <<session, checkpoint, capture, tree, call, faults>>

pushes == Len(SelectSeq(history, LAMBDA v : v.key = 0))

push ==
    /\ pushes <= MaxPushes
    /\ history' = Append(history, [key |-> 0, content |-> Initial])
    /\ UNCHANGED <<session, checkpoint, capture, tree, runs, call, faults>>

CallNext ==
    \/ open \/ hydrate \/ hydrateWorkspace \/ allocate \/ retained
    \/ captureWorkspace \/ seal \/ discard \/ selectSource
    \/ publishSnapshot \/ publicationFails \/ outcomeUnknown \/ recordPublished \/ resume
    \/ abortRuns \/ cleanupOwnedCaptures \/ removeWorkspace

Next ==
    \/ checkoutSandbox \/ CallNext \/ reopenFails \/ interrupted \/ agentEdits \/ push
    \/ \E k \in Keys : commitSandbox(k)
    \/ \E abandon \in BOOLEAN : destroySandbox(abandon)
    \/ \E r \in Runs : expireActiveRun(r) \/ processOperation(r)

Spec == Init /\ [][Next]_vars

\* The host repeats a pending checkpoint and abandons the session in the end; a call goes on with its steps.
FairSpec ==
    /\ Spec /\ WF_vars(CallNext) /\ \A r \in Runs : WF_vars(processOperation(r))
    /\ \A k \in Keys : SF_vars(session.pending = k /\ commitSandbox(k))
    /\ SF_vars(destroySandbox(TRUE))

-----------------------------------------------------------------------------
(* Properties *)

\* A destroyed session leaves nothing behind: every run that it opened has ended, also one whose opening
\* was never recorded, its captures and its directory are gone (destroySandbox, recordedOpen).
DestroyedOwnsNothing ==
    session.phase = "destroyed" =>
        /\ \A r \in Runs : runs[r].state \notin {"active", "finalizing"}
        /\ \A k \in Keys : capture[k].state \in {"none", "cleaned"} /\ ~capture[k].whole
        /\ tree = Absent

\* A checkpoint is published once, with exactly the contents that were captured for it, however often it is
\* repeated, and what it reports as published is that revision (captureWorkspace, publishSnapshot).
CheckpointPublishedOnce ==
    /\ \A i, j \in DOMAIN history : history[i].key # 0 /\ history[i].key = history[j].key => i = j
    /\ \A i \in DOMAIN history : history[i].key # 0 => history[i].content = capture[history[i].key].content
    /\ \A k \in Keys : checkpoint[k].published # 0 => history[checkpoint[k].published].content = capture[k].content

\* A host that repeats what is pending and then abandons is always rid of its session: no sequence of
\* interruptions leaves one that can neither be settled nor destroyed (commitSandbox, destroySandbox).
SessionEnds == session.phase # "none" ~> session.phase = "destroyed"

=============================================================================
