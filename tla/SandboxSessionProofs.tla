------------------------- MODULE SandboxSessionProofs -------------------------
(***************************************************************************)
(* A checkpoint is published once and as it was captured, and a destroyed  *)
(* sandbox session leaves nothing behind, for any number of checkpoints,   *)
(* faults and publications of others.                                      *)
(***************************************************************************)
EXTENDS SandboxSession, TLAPS

-----------------------------------------------------------------------------
(* The inductive invariant of publication *)

Saved(k) == checkpoint[k].saved
Unused(k) == capture[k].state = "none"
CommitAt(steps) == call.op = "commit" /\ call.at \in steps
Before == {"capture", "copy", "seal", "discard", "select"}
After == {"pending", "publish", "wait", "published", "reopen", "opened", "reopened", "resume", "result"}
Reopening == {"published", "reopen", "opened", "reopened", "resume", "result"}
Pending == {"publish", "wait", "published", "reopen", "opened", "reopened", "resume"}

\* A sealed capture is whole, and bytes exist only while a record owns them.
CapturesAreSound ==
  \A k \in Keys : /\ capture[k].state = "sealed" => capture[k].whole
                  /\ capture[k].state \in {"none", "failed", "cleaned"} => ~capture[k].whole

\* What a call has done so far.
CallFollowsJournal ==
  /\ CommitAt(Before) => ~Saved(call.key) /\ session.run # NoRun
  /\ CommitAt(After) => Saved(call.key)
  /\ CommitAt({"copy", "seal"}) => capture[call.key].state = "allocating"
  /\ CommitAt({"seal"}) => capture[call.key].whole
  /\ CommitAt({"select", "discard"}) => ~Unused(call.key)
  /\ CommitAt({"wait"}) => runs[checkpoint[call.key].run].key = call.key
  /\ call.op = "checkout" /\ call.at # "open" => runs[0].state # "none"

\* A checkpoint names the run and the content that were captured for it.
CheckpointIsCaptured ==
  \A k \in Keys : Saved(k) => /\ checkpoint[k].run \in Runs /\ ~Unused(k)
                              /\ checkpoint[k].content = capture[k].content

\* The key of a run is the one checkpoint that finalizes it.
KeyNamesRun ==
  \A r \in Runs :
    /\ runs[r].state \in {"none", "active"} => runs[r].key = 0
    /\ runs[r].state \in {"finalizing", "finalized"} => runs[r].key # 0
    /\ runs[r].key # 0 => Saved(runs[r].key) /\ checkpoint[runs[r].key].run = r
    /\ runs[r].state # "none" => runs[r].base \in 1 .. Len(history)

\* The revision of a checkpoint follows the base of the run that it finalized.
RevisionFollowsBase ==
  \A i \in 1 .. Len(history) : LET k == history[i].key IN k # 0 =>
    /\ Saved(k) /\ history[i].content = checkpoint[k].content
    /\ runs[checkpoint[k].run].state = "finalized" /\ runs[checkpoint[k].run].key = k
    /\ i = runs[checkpoint[k].run].base + 1

\* A finalized run left its content as the revision after its base, or as the base.
FinalizedIsPublished ==
  \A r \in Runs : runs[r].state = "finalized" =>
    \/ Len(history) > runs[r].base /\ history[runs[r].base + 1].key = runs[r].key
    \/ history[runs[r].base].content = checkpoint[runs[r].key].content

\* What a checkpoint reports as published is its content, by a finalized run.
ReportIsPublished ==
  \A k \in Keys : checkpoint[k].published # 0 =>
    /\ Saved(k) /\ checkpoint[k].published \in 1 .. Len(history)
    /\ history[checkpoint[k].published].content = checkpoint[k].content
    /\ runs[checkpoint[k].run].state = "finalized"

PublicationInvariant ==
  /\ TypeOK /\ CapturesAreSound /\ CallFollowsJournal /\ CheckpointIsCaptured /\ KeyNamesRun
  /\ RevisionFollowsBase /\ FinalizedIsPublished /\ ReportIsPublished

-----------------------------------------------------------------------------
(* The inductive invariant of ownership, for a host that repeats no key after *)
(* it used a later one                                                       *)

Live(r) == runs[r].state \in {"active", "finalizing"}
Latest(k) == \A l \in Keys : l > k => Unused(l)

\* The phase and the run of the session go together with the call.
SessionFollowsCall ==
  /\ session.phase = "none" => call = Idle /\ session.run = NoRun /\ session.pending = 0
  /\ session.phase = "destroyed" => call = Idle
  /\ session.run = NoRun => /\ session.phase \in {"none", "opening", "destroyed"}
                            /\ \A k \in Keys : Unused(k)
  /\ call.op = "checkout" => session.phase = "opening"
  /\ call.op = "checkout" /\ call.at \in {"open", "opened"} => session.run = NoRun
  /\ call.op = "checkout" /\ call.at \in {"hydrate", "hydrated"} => session.run = 0

\* A commit works on the latest key, which is the only one that may be pending.
CommitIsLatest ==
  /\ session.pending # 0 => Saved(session.pending) /\ Latest(session.pending)
  /\ call.op = "commit" => /\ Latest(call.key) /\ session.pending \in {0, call.key}
                           /\ session.run # NoRun
  /\ CommitAt({"publish", "wait"}) => checkpoint[call.key].published = 0
  /\ CommitAt(Reopening) => checkpoint[call.key].published # 0
  /\ CommitAt(Pending) => session.pending = call.key
  /\ CommitAt({"resume"}) => session.run = call.key

\* The session is on the run of its latest checkpoint, or on the one it reopened.
SessionIsLatest ==
  \A k \in Keys : Saved(k) /\ Latest(k) =>
    session.run = checkpoint[k].run \/ (session.run = k /\ checkpoint[k].published # 0)

\* Every live run is known: it is the session's, the checkout's that was not
\* recorded yet, or the reopened one of the pending checkpoint.
LiveIsKnown ==
  /\ \A k \in Keys : runs[k].state # "none" => checkpoint[k].published # 0
  /\ \A r \in Runs : Live(r) =>
       \/ r = session.run
       \/ r = 0 /\ session.run = NoRun /\ session.phase = "opening" /\ call.op # "destroy"
       \/ r # 0 /\ session.pending = r /\ call.op # "destroy"

\* What a destruction has done so far.
DestructionDone ==
  /\ call.op = "destroy" /\ call.at \in {"clean", "remove", "end"} => \A r \in Runs : ~Live(r)
  /\ call.op = "destroy" /\ call.at \in {"remove", "end"} =>
       \A k \in Keys : capture[k].state \in {"none", "cleaned"}
  /\ call.op = "destroy" /\ call.at = "end" => tree = Absent

Owners == SessionFollowsCall /\ CommitIsLatest /\ SessionIsLatest /\ LiveIsKnown

OwnershipInvariant == PublicationInvariant /\ Owners /\ DestructionDone /\ DestroyedOwnsNothing

-----------------------------------------------------------------------------
(* Calls *)

CommitSteps == Before \cup After
CheckoutSteps == {"open", "opened", "hydrate", "hydrated"}
DestroySteps == {"abort", "clean", "remove", "end"}

\* A call is the one of a known command at one of its steps.
LEMMA CallShape ==
  ASSUME TypeOK
  PROVE  /\ call.op \in {"idle", "checkout", "commit", "destroy"}
         /\ call.op = "idle" => call = Idle
         /\ call.op = "commit" => call.key \in Keys /\ call.at \in CommitSteps
         /\ call.op \in {"checkout", "destroy"} => call.key = 0
         /\ call.op = "checkout" => call.at \in CheckoutSteps
         /\ call.op = "destroy" => call.at \in DestroySteps
         /\ call = Idle => call.op = "idle" /\ call.at = "idle" /\ call.key = 0
  BY DEF TypeOK, Call, Idle, CommitSteps, CheckoutSteps, DestroySteps, Before, After

\* A call that goes on keeps its command and its key.
LEMMA CallGoes ==
  ASSUME TypeOK, NEW s, Goes(s),
         \/ call.op = "commit" /\ s \in CommitSteps
         \/ call.op = "checkout" /\ s \in CheckoutSteps
         \/ call.op = "destroy" /\ s \in DestroySteps
  PROVE  call' \in Call /\ call'.op = call.op /\ call'.key = call.key /\ call'.at = s
<1>1. call \in Call
  BY DEF TypeOK
<1>2. CASE call.op = "commit" /\ s \in CommitSteps
  BY <1>1, <1>2 DEF Goes, Call, Idle, CommitSteps, Before, After
<1>3. CASE call.op = "checkout" /\ s \in CheckoutSteps
  BY <1>1, <1>3 DEF Goes, Call, Idle, CheckoutSteps
<1>4. CASE call.op = "destroy" /\ s \in DestroySteps
  BY <1>1, <1>4 DEF Goes, Call, Idle, DestroySteps
<1> QED BY <1>2, <1>3, <1>4

\* A call that returns leaves the session idle.
LEMMA CallReturns ==
  ASSUME Returns
  PROVE  call' \in Call /\ call' = Idle /\ call'.op = "idle" /\ call'.at = "idle" /\ call'.key = 0
  BY DEF Returns, Call, Idle

\* Keys and runs are numbers, and no run is NoRun.
LEMMA Numbers ==
  /\ Keys \subseteq Nat \ {0} /\ Keys \subseteq Runs /\ Runs \subseteq Nat
  /\ 0 \in Runs /\ NoRun \notin Runs /\ \A r \in Runs : r = 0 \/ r \in Keys
  BY SandboxAssumption DEF Keys, Runs, NoRun

-----------------------------------------------------------------------------
(* Types *)

\* The initial state is well typed.
LEMMA TypeInit == Init => TypeOK
<1> SUFFICES ASSUME Init PROVE TypeOK
  OBVIOUS
<1>1. session \in Session
  BY DEF Init, Session
<1>2. checkpoint \in [Keys -> Checkpoint] /\ capture \in [Keys -> Allocation]
  BY SandboxAssumption DEF Init, Checkpoint, Allocation
<1>3. runs \in [Runs -> RunRecord]
  BY DEF Init, RunRecord
<1>4. history \in Seq(Revision) /\ history # <<>>
  BY SandboxAssumption DEF Init, Revision
<1> QED BY <1>1, <1>2, <1>3, <1>4, SandboxAssumption DEF Init, TypeOK, Call

\* The accepted revisions have contents.
LEMMA HistoryTypes ==
  ASSUME TypeOK
  PROVE  /\ Len(history) \in Nat /\ Len(history) >= 1
         /\ DOMAIN history = 1 .. Len(history)
         /\ \A i \in 1 .. Len(history) : history[i] \in Revision
  BY DEF TypeOK

\* Appending a revision keeps the earlier ones where they are.
LEMMA HistoryAppends ==
  ASSUME TypeOK, NEW v \in Revision, history' = Append(history, v)
  PROVE  /\ history' \in Seq(Revision) /\ history' # <<>>
         /\ Len(history') = Len(history) + 1 /\ history'[Len(history) + 1] = v
         /\ \A i \in 1 .. Len(history) : history'[i] = history[i]
  BY DEF TypeOK

\* Opening, checking out and reading back the base keep the types.
LEMMA TypeCheckout ==
  ASSUME TypeOK, checkoutSandbox \/ open \/ hydrate \/ hydrateWorkspace, CallFollowsJournal,
         KeyNamesRun
  PROVE  TypeOK'
<1>0. session \in Session /\ runs \in [Runs -> RunRecord]
  BY DEF TypeOK
<1>1. CASE checkoutSandbox
  BY <1>0, <1>1 DEF checkoutSandbox, TypeOK, Session, Call
<1>2. CASE open
  <2>1. call' \in Call
    BY <1>2, CallGoes DEF open, At, CommitSteps, CheckoutSteps, After
  <2>2. call.key \in Runs
    BY <1>2, CallShape, Numbers DEF open, At
  <2>3. runs' \in [Runs -> RunRecord]
    BY <1>0, <1>2, <2>2, HistoryTypes DEF open, opened, RunRecord
  <2> QED BY <1>2, <2>1, <2>3 DEF open, TypeOK
<1>3. CASE hydrate
  <2>1. session' \in Session
    BY <1>0, <1>3, Numbers DEF hydrate, Session
  <2>2. call' \in Call
    BY <1>3, CallGoes, CallReturns DEF hydrate, At, CheckoutSteps
  <2> QED BY <1>3, <2>1, <2>2 DEF hydrate, TypeOK
<1>4. CASE hydrateWorkspace
  <2>1. call' \in Call
    BY <1>4, CallGoes DEF hydrateWorkspace, At, CheckoutSteps
  <2>2. runs[0].base \in 1 .. Len(history)
    BY <1>4, Numbers DEF hydrateWorkspace, KeyNamesRun, CallFollowsJournal, At
  <2>3. tree' \in Contents
    BY <1>4, <2>2, HistoryTypes DEF hydrateWorkspace, Revision
  <2> QED BY <1>4, <2>1, <2>3 DEF hydrateWorkspace, TypeOK
<1> QED BY <1>1, <1>2, <1>3, <1>4

\* A capture goes from one owned state to another.
LEMMA TypeCapture ==
  ASSUME TypeOK, allocate \/ retained \/ captureWorkspace \/ seal \/ discard
  PROVE  TypeOK'
<1>0. capture \in [Keys -> Allocation] /\ call.key \in Keys /\ session \in Session
  BY CallShape DEF TypeOK, allocate, retained, captureWorkspace, seal, discard, At
<1>1. call' \in Call
  BY CallGoes, CallReturns
  DEF allocate, retained, captureWorkspace, seal, discard, At, CommitSteps, Before
<1>2. capture' \in [Keys -> Allocation]
  <2>1. CASE allocate
    BY <1>0, <2>1 DEF allocate, Allocation, TypeOK, Session
  <2>2. CASE retained \/ captureWorkspace
    <3>1. discarding(capture[call.key], FALSE) \in Allocation
      BY <1>0 DEF discarding, Allocation
    <3>2. CASE UNCHANGED capture
      BY <1>0, <3>2
    <3>3. CASE capture' = [capture EXCEPT ![call.key].state = "sealed"]
      BY <1>0, <3>3 DEF Allocation
    <3>4. CASE capture' = [capture EXCEPT ![call.key].whole = TRUE]
      BY <1>0, <3>4 DEF Allocation
    <3>5. CASE capture' = [capture EXCEPT ![call.key] = discarding(capture[call.key], FALSE)]
      BY <1>0, <3>1, <3>5
    <3> QED BY <2>2, <3>2, <3>3, <3>4, <3>5 DEF retained, captureWorkspace
  <2>3. CASE seal
    BY <1>0, <2>3 DEF seal, Allocation
  <2>4. CASE discard
    <3>1. discarded(capture[call.key], FALSE) \in Allocation
      BY <1>0 DEF discarded, Allocation
    <3> QED BY <1>0, <2>4, <3>1 DEF discard
  <2> QED BY <2>1, <2>2, <2>3, <2>4
<1>3. UNCHANGED <<session, checkpoint, tree, runs, history, faults>>
  BY DEF allocate, retained, captureWorkspace, seal, discard
<1> QED BY <1>1, <1>2, <1>3 DEF TypeOK

\* Publication keeps the types.
LEMMA TypePublish ==
  ASSUME PublicationInvariant,
         \/ selectSource \/ publishSnapshot \/ publicationFails \/ outcomeUnknown
         \/ recordPublished
  PROVE  TypeOK'
<1> USE DEF PublicationInvariant
<1>0. /\ session \in Session /\ checkpoint \in [Keys -> Checkpoint] /\ call.key \in Keys
      /\ capture \in [Keys -> Allocation] /\ runs \in [Runs -> RunRecord]
  BY CallShape DEF TypeOK, selectSource, publishSnapshot, publicationFails, outcomeUnknown,
                   recordPublished, At
<1>1. call' \in Call
  <2>1. CASE UNCHANGED call
    BY <2>1 DEF TypeOK
  <2> QED BY <2>1, CallGoes, CallReturns
          DEF selectSource, publishSnapshot, publicationFails, outcomeUnknown, recordPublished, At,
              CommitSteps, After
<1>2. session' \in Session
  BY <1>0 DEF selectSource, publishSnapshot, publicationFails, outcomeUnknown, recordPublished,
              Session
<1>3. checkpoint' \in [Keys -> Checkpoint]
  <2>1. CASE selectSource
    <3> DEFINE c == [checkpoint[call.key] EXCEPT !.saved = TRUE, !.run = session.run,
                                                 !.content = capture[call.key].content]
    <3>1. session.run \in Runs \cup {NoRun} /\ capture[call.key].content \in Contents
      BY <1>0 DEF Allocation, Session
    <3>2. checkpoint[call.key] \in Checkpoint
      BY <1>0
    <3>3. c \in Checkpoint
      BY <3>1, <3>2 DEF Checkpoint
    <3> QED BY <1>0, <2>1, <3>3 DEF selectSource
  <2>2. CASE publishSnapshot
    <3>1. CASE UNCHANGED checkpoint
      BY <1>0, <3>1
    <3>2. CASE /\ bindCaptureRun(call.key)
               /\ checkpoint' = [checkpoint EXCEPT ![call.key] =
                     [@ EXCEPT !.submitted = TRUE, !.content = capturedProvider(call.key)]]
      <4>1. capture[call.key].whole
        BY <1>0, <3>2 DEF bindCaptureRun, CapturesAreSound
      <4>2. capturedProvider(call.key) = checkpoint[call.key].content
        BY <4>1 DEF capturedProvider
      <4> QED BY <1>0, <3>2, <4>2 DEF Checkpoint
    <3> QED BY <2>2, <3>1, <3>2 DEF publishSnapshot
  <2>3. CASE recordPublished
    <3>1. CASE At("commit", "wait") /\ runs[runOf(call.key)].state = "finalized"
      <4>1. runOf(call.key) \in Runs
        BY <1>0, <3>1 DEF At, runOf, CallFollowsJournal, CommitAt, After, CheckpointIsCaptured
      <4>2. runs[runOf(call.key)].base \in Nat
        BY <1>0, <4>1 DEF RunRecord
      <4>3. revisionOf(runOf(call.key)) \in Nat
        BY <4>2 DEF revisionOf
      <4>4. checkpoint' = [checkpoint EXCEPT ![call.key].published = revisionOf(runOf(call.key))]
        BY <2>3, <3>1 DEF recordPublished, At
      <4> QED BY <1>0, <4>3, <4>4 DEF Checkpoint
    <3> QED BY <1>0, <2>3, <3>1 DEF recordPublished
  <2>4. CASE publicationFails \/ outcomeUnknown
    BY <1>0, <2>4 DEF publicationFails, outcomeUnknown
  <2> QED BY <2>1, <2>2, <2>3, <2>4
<1>4. runs' \in [Runs -> RunRecord]
  <2>1. CASE UNCHANGED runs
    BY <1>0, <2>1
  <2>2. CASE /\ publishSnapshot
             /\ runs' = [runs EXCEPT ![runOf(call.key)] =
                           [@ EXCEPT !.state = "finalizing", !.key = call.key]]
    <3> DEFINE r == [runs[runOf(call.key)] EXCEPT !.state = "finalizing", !.key = call.key]
    <3>1. runOf(call.key) \in Runs
      BY <1>0, <2>2 DEF publishSnapshot, At, runOf, CallFollowsJournal, CommitAt, After,
                        CheckpointIsCaptured
    <3>2. r \in RunRecord
      BY <1>0, <3>1 DEF RunRecord
    <3> QED BY <1>0, <2>2, <3>2
  <2> QED BY <2>1, <2>2 DEF selectSource, publishSnapshot, publicationFails, outcomeUnknown,
                            recordPublished
<1>5. UNCHANGED <<capture, tree, history, faults>>
  BY DEF selectSource, publishSnapshot, publicationFails, outcomeUnknown, recordPublished
<1> QED BY <1>1, <1>2, <1>3, <1>4, <1>5 DEF TypeOK

\* Reopening keeps the types.
LEMMA TypeResume ==
  ASSUME TypeOK, resume \/ reopenFails
  PROVE  TypeOK'
<1>0. /\ session \in Session /\ checkpoint \in [Keys -> Checkpoint] /\ call.key \in Keys
      /\ call.key \in Runs
  BY CallShape, Numbers DEF TypeOK, resume, reopenFails, At
<1>1. call' \in Call
  BY CallGoes, CallReturns DEF resume, reopenFails, At, CommitSteps, After
<1>2. session' \in Session
  BY <1>0 DEF resume, reopenFails, Session
<1>3. checkpoint' \in [Keys -> Checkpoint]
  <2>1. CASE UNCHANGED checkpoint
    BY <1>0, <2>1
  <2>2. CASE checkpoint' = [checkpoint EXCEPT ![call.key].reopened = TRUE]
    BY <1>0, <2>2 DEF Checkpoint
  <2>3. CASE checkpoint' = [checkpoint EXCEPT ![call.key].result = TRUE]
    BY <1>0, <2>3 DEF Checkpoint
  <2> QED BY <2>1, <2>2, <2>3 DEF resume, reopenFails
<1>4. faults' \in Nat
  BY SandboxAssumption DEF resume, reopenFails, TypeOK
<1>5. UNCHANGED <<capture, tree, runs, history>>
  BY DEF resume, reopenFails
<1> QED BY <1>1, <1>2, <1>3, <1>4, <1>5 DEF TypeOK

\* Destruction keeps the types.
LEMMA TypeDestroy ==
  ASSUME TypeOK,
         \/ \E abandon \in BOOLEAN : destroySandbox(abandon)
         \/ abortRuns \/ cleanupOwnedCaptures \/ removeWorkspace
  PROVE  TypeOK'
<1>0. /\ session \in Session /\ checkpoint \in [Keys -> Checkpoint]
      /\ capture \in [Keys -> Allocation] /\ runs \in [Runs -> RunRecord]
  BY DEF TypeOK
<1>1. CASE \E abandon \in BOOLEAN : destroySandbox(abandon)
  <2> PICK abandon \in BOOLEAN : destroySandbox(abandon)
    BY <1>1
  <2>1. session' \in Session
    BY <1>0, Numbers DEF destroySandbox, Session
  <2>2. checkpoint' \in [Keys -> Checkpoint]
    <3>1. CASE UNCHANGED checkpoint
      BY <1>0, <3>1
    <3>2. CASE \E k \in Keys : checkpoint' = [checkpoint EXCEPT ![k].reopened = @ \/ recordedOpen(k)]
      <4> PICK k \in Keys : checkpoint' = [checkpoint EXCEPT ![k].reopened = @ \/ recordedOpen(k)]
        BY <3>2
      <4> DEFINE b == checkpoint[k].reopened \/ recordedOpen(k)
      <4>1. b \in BOOLEAN /\ checkpoint' = [checkpoint EXCEPT ![k].reopened = b]
        OBVIOUS
      <4> HIDE DEF b
      <4>2. [checkpoint[k] EXCEPT !.reopened = b] \in Checkpoint
        BY <1>0, <4>1 DEF Checkpoint
      <4> QED BY <1>0, <4>1, <4>2
    <3>3. session.pending \in Keys \cup {0}
      BY <1>0 DEF Session
    <3> QED BY <3>1, <3>2, <3>3 DEF destroySandbox
  <2> QED BY <2>1, <2>2 DEF destroySandbox, TypeOK, Call
<1>2. CASE abortRuns
  <2>1. call' \in Call
    <3>1. CASE UNCHANGED call
      BY <3>1 DEF TypeOK
    <3> QED BY <1>2, <3>1, CallGoes, CallReturns DEF abortRuns, At, DestroySteps
  <2>2. runs' \in [Runs -> RunRecord]
    <3>1. CASE UNCHANGED runs
      BY <1>0, <3>1
    <3>2. ASSUME NEW r, runs' = [runs EXCEPT ![r].state = "aborted"]
          PROVE  runs' \in [Runs -> RunRecord]
      BY <1>0, <3>2 DEF RunRecord
    <3> QED BY <1>2, <3>1, <3>2 DEF abortRuns
  <2> QED BY <1>2, <2>1, <2>2 DEF abortRuns, TypeOK
<1>3. CASE cleanupOwnedCaptures
  <2>1. call' \in Call
    <3>1. CASE UNCHANGED call
      BY <3>1 DEF TypeOK
    <3> QED BY <1>3, <3>1, CallGoes DEF cleanupOwnedCaptures, At, DestroySteps
  <2>2. \A k \in Keys : /\ discarding(capture[k], TRUE) \in Allocation
                        /\ discarded(capture[k], TRUE) \in Allocation
    BY <1>0 DEF discarding, discarded, Allocation
  <2>3. capture' \in [Keys -> Allocation]
    BY <1>0, <1>3, <2>2 DEF cleanupOwnedCaptures
  <2> QED BY <1>3, <2>1, <2>3 DEF cleanupOwnedCaptures, TypeOK
<1>4. CASE removeWorkspace
  <2>1. call' \in Call
    BY <1>4, CallGoes, CallReturns DEF removeWorkspace, At, DestroySteps
  <2>2. session' \in Session
    BY <1>0, <1>4 DEF removeWorkspace, Session
  <2> QED BY <1>4, <2>1, <2>2 DEF removeWorkspace, TypeOK
<1> QED BY <1>1, <1>2, <1>3, <1>4

\* Everyone else keeps the types.
LEMMA TypeOthers ==
  ASSUME PublicationInvariant,
         \/ interrupted \/ agentEdits \/ push \/ UNCHANGED vars
         \/ \E k \in Keys : commitSandbox(k)
         \/ \E r \in Runs : expireActiveRun(r) \/ processOperation(r)
  PROVE  TypeOK'
<1> USE DEF PublicationInvariant
<1>0. runs \in [Runs -> RunRecord] /\ checkpoint \in [Keys -> Checkpoint]
  BY DEF TypeOK
<1>1. CASE interrupted
  BY <1>1, CallReturns, SandboxAssumption DEF interrupted, TypeOK
<1>2. CASE agentEdits \/ UNCHANGED vars
  BY <1>2 DEF agentEdits, vars, TypeOK
<1>3. CASE push
  <2>1. [key |-> 0, content |-> Initial] \in Revision
    BY SandboxAssumption DEF Revision
  <2> QED BY <1>3, <2>1, HistoryAppends DEF push, TypeOK
<1>4. CASE \E k \in Keys : commitSandbox(k)
  <2> PICK k \in Keys : commitSandbox(k)
    BY <1>4
  <2>1. call' \in Call
    BY DEF commitSandbox, Call
  <2> QED BY <2>1 DEF commitSandbox, TypeOK
<1>5. CASE \E r \in Runs : expireActiveRun(r)
  BY <1>0, <1>5 DEF expireActiveRun, TypeOK, RunRecord
<1>6. CASE \E r \in Runs : processOperation(r)
  <2> PICK r \in Runs : processOperation(r)
    BY <1>6
  <2>1. runs' \in [Runs -> RunRecord]
    <3>1. CASE runs' = [runs EXCEPT ![r].state = "finalized"]
      BY <1>0, <3>1 DEF RunRecord
    <3>2. CASE runs' = [runs EXCEPT ![r].state = "failed"]
      BY <1>0, <3>2 DEF RunRecord
    <3> QED BY <3>1, <3>2 DEF processOperation
  <2>2. runs[r].key \in Keys
    BY <1>0 DEF processOperation, KeyNamesRun, RunRecord
  <2>3. [key |-> runs[r].key, content |-> checkpoint[runs[r].key].content] \in Revision
    BY <1>0, <2>2 DEF Revision, Checkpoint
  <2>4. history' \in Seq(Revision) /\ history' # <<>>
    <3>1. CASE UNCHANGED history
      BY <3>1 DEF TypeOK
    <3> QED BY <2>3, <3>1, HistoryAppends DEF processOperation
  <2> QED BY <2>1, <2>4 DEF processOperation, TypeOK
<1> QED BY <1>1, <1>2, <1>3, <1>4, <1>5, <1>6

\* Every step keeps the types.
LEMMA TypeNext == PublicationInvariant /\ [Next]_vars => TypeOK'
  BY TypeCheckout, TypeCapture, TypePublish, TypeResume, TypeDestroy, TypeOthers
  DEF PublicationInvariant, Next, CallNext

-----------------------------------------------------------------------------
(* The data: captures, checkpoints, runs and history without the call *)

Data ==
  /\ CapturesAreSound /\ CheckpointIsCaptured /\ KeyNamesRun
  /\ RevisionFollowsBase /\ FinalizedIsPublished /\ ReportIsPublished

sameCheckpoint(k) ==
  /\ checkpoint'[k].saved = checkpoint[k].saved /\ checkpoint'[k].run = checkpoint[k].run
  /\ checkpoint'[k].content = checkpoint[k].content
  /\ checkpoint'[k].published = checkpoint[k].published

sameCheckpoints == \A k \in Keys : sameCheckpoint(k)

\* A step that leaves captures, runs and history alone keeps the data.
LEMMA DataSame ==
  ASSUME TypeOK, Data, sameCheckpoints, UNCHANGED <<capture, runs, history>>
  PROVE  Data'
<1>0. \A r \in Runs : runs[r].key \in Keys \cup {0}
  BY DEF TypeOK, RunRecord
<1>0a. \A i \in 1 .. Len(history) : history[i].key \in Keys \cup {0}
  BY HistoryTypes DEF Revision
<1>1. CapturesAreSound' /\ CheckpointIsCaptured'
  BY DEF Data, CapturesAreSound, CheckpointIsCaptured, sameCheckpoints, sameCheckpoint, Saved, Unused
<1>2. KeyNamesRun'
  BY <1>0 DEF Data, KeyNamesRun, sameCheckpoints, sameCheckpoint, Saved
<1>3. RevisionFollowsBase'
  BY <1>0a DEF Data, RevisionFollowsBase, sameCheckpoints, sameCheckpoint, Saved
<1>4. FinalizedIsPublished'
  BY <1>0 DEF Data, FinalizedIsPublished, KeyNamesRun, sameCheckpoints, sameCheckpoint
<1>5. ReportIsPublished'
  BY DEF Data, ReportIsPublished, sameCheckpoints, sameCheckpoint, Saved
<1> QED BY <1>1, <1>2, <1>3, <1>4, <1>5 DEF Data

captureMoves(k) ==
  /\ \A q \in Keys \ {k} : capture'[q] = capture[q]
  /\ Saved(k) => capture'[k].content = capture[k].content
  /\ capture'[k].state # "none"
  /\ capture'[k].state = "sealed" => capture'[k].whole
  /\ capture'[k].state \in {"failed", "cleaned"} => ~capture'[k].whole

\* A step of one capture keeps the data: a saved one keeps its content.
LEMMA DataCapture ==
  ASSUME TypeOK, Data, NEW k \in Keys, captureMoves(k), UNCHANGED <<checkpoint, runs, history>>
  PROVE  Data'
<1>1. CapturesAreSound'
  BY DEF Data, CapturesAreSound, captureMoves
<1>2. CheckpointIsCaptured'
  BY DEF Data, CheckpointIsCaptured, captureMoves, Saved, Unused
<1> QED BY <1>1, <1>2
        DEF Data, KeyNamesRun, RevisionFollowsBase, FinalizedIsPublished, ReportIsPublished, Saved

\* What the steps of a capture do to it.
LEMMA CaptureMoves ==
  ASSUME PublicationInvariant, allocate \/ captureWorkspace \/ seal \/ discard
  PROVE  call.key \in Keys /\ captureMoves(call.key)
<1> USE DEF PublicationInvariant
<1>0. capture \in [Keys -> Allocation] /\ call.key \in Keys
  BY CallShape DEF TypeOK, allocate, captureWorkspace, seal, discard, At
<1>1. ~Saved(call.key)
  BY DEF allocate, captureWorkspace, seal, discard, At, CallFollowsJournal, CommitAt, Before
<1>2. CASE allocate
  BY <1>0, <1>1, <1>2 DEF allocate, captureMoves
<1>3. CASE captureWorkspace
  <2>1. capture[call.key].state = "allocating"
    BY <1>3 DEF captureWorkspace, At, CallFollowsJournal, CommitAt
  <2>2. CASE capture' = [capture EXCEPT ![call.key].whole = TRUE]
    BY <1>0, <1>1, <2>1, <2>2 DEF captureMoves, Allocation
  <2>3. CASE capture' = [capture EXCEPT ![call.key] = discarding(capture[call.key], FALSE)]
    <3>1. discarding(capture[call.key], FALSE).state = "discarding"
      BY <1>0 DEF discarding, Allocation
    <3> QED BY <1>0, <1>1, <2>3, <3>1 DEF captureMoves
  <2> QED BY <1>3, <2>2, <2>3 DEF captureWorkspace
<1>4. CASE seal
  <2>1. capture[call.key].whole
    BY <1>4 DEF seal, At, CallFollowsJournal, CommitAt
  <2>2. /\ capture'[call.key].state = "sealed" /\ capture'[call.key].whole = capture[call.key].whole
        /\ \A q \in Keys \ {call.key} : capture'[q] = capture[q]
    BY <1>0, <1>4 DEF seal, Allocation
  <2>3. capture'[call.key].whole
    BY <2>1, <2>2
  <2> QED BY <1>0, <1>1, <2>2, <2>3 DEF captureMoves
<1>5. CASE discard
  <2>1. /\ discarded(capture[call.key], FALSE).state = "failed"
        /\ ~discarded(capture[call.key], FALSE).whole
    BY <1>0 DEF discarded, Allocation
  <2>2. /\ capture'[call.key] = discarded(capture[call.key], FALSE)
        /\ \A q \in Keys \ {call.key} : capture'[q] = capture[q]
    BY <1>0, <1>5 DEF discard
  <2>3. capture'[call.key].state = "failed" /\ ~capture'[call.key].whole
    BY <2>1, <2>2
  <2> QED BY <1>0, <1>1, <2>2, <2>3 DEF captureMoves
<1> QED BY <1>0, <1>2, <1>3, <1>4, <1>5

\* What an earlier attempt captured is sealed again only when it is whole.
LEMMA RetainedMoves ==
  ASSUME PublicationInvariant, retained
  PROVE  UNCHANGED capture \/ (call.key \in Keys /\ captureMoves(call.key))
<1> USE DEF PublicationInvariant
<1>0. capture \in [Keys -> Allocation] /\ call.key \in Keys
  BY CallShape DEF TypeOK, retained, At
<1>1. CASE /\ capture[call.key].whole
           /\ capture' = [capture EXCEPT ![call.key].state = "sealed"]
  <2>1. /\ capture'[call.key].state = "sealed" /\ capture'[call.key].whole = capture[call.key].whole
        /\ capture'[call.key].content = capture[call.key].content
        /\ \A q \in Keys \ {call.key} : capture'[q] = capture[q]
    BY <1>0, <1>1 DEF Allocation
  <2> QED BY <1>0, <1>1, <2>1 DEF captureMoves
<1> QED BY <1>1 DEF retained

\* A destruction removes bytes between two writes of their record.
LEMMA CleanupMoves ==
  ASSUME TypeOK, cleanupOwnedCaptures
  PROVE  UNCHANGED capture \/ \E k \in Keys : captureMoves(k)
<1>0. capture \in [Keys -> Allocation]
  BY DEF TypeOK
<1>1. \A k \in Keys : LET d == discarding(capture[k], TRUE)
                          e == discarded(capture[k], TRUE)
                      IN  /\ d.state = "discarding" /\ d.content = capture[k].content
                          /\ e.state = "cleaned" /\ ~e.whole /\ e.content = capture[k].content
  BY <1>0 DEF discarding, discarded, Allocation
<1>2. ASSUME NEW k \in Keys,
             \/ capture' = [capture EXCEPT ![k] = discarding(capture[k], TRUE)]
             \/ capture' = [capture EXCEPT ![k] = discarded(capture[k], TRUE)]
      PROVE  captureMoves(k)
  BY <1>0, <1>1, <1>2 DEF captureMoves
<1> QED BY <1>2 DEF cleanupOwnedCaptures

\* Selecting a capture saves its checkpoint: no run and no revision has its key yet.
LEMMA DataSelect ==
  ASSUME PublicationInvariant, At("commit", "select"), selectSource
  PROVE  Data'
<1> USE DEF PublicationInvariant
<1> DEFINE k == call.key
<1>0. k \in Keys /\ checkpoint \in [Keys -> Checkpoint]
  BY CallShape DEF TypeOK, At
<1>1. ~Saved(k) /\ ~Unused(k) /\ session.run # NoRun
  BY DEF At, CallFollowsJournal, CommitAt, Before
<1>2. /\ UNCHANGED <<capture, runs, history>>
      /\ \A q \in Keys \ {k} : checkpoint'[q] = checkpoint[q]
      /\ checkpoint'[k].saved /\ checkpoint'[k].run = session.run
      /\ checkpoint'[k].content = capture[k].content
      /\ checkpoint'[k].published = checkpoint[k].published
  BY <1>0 DEF selectSource, At, Checkpoint
<1>3. session.run \in Runs
  BY <1>1 DEF TypeOK, Session
<1>4. checkpoint[k].published = 0
  BY <1>0, <1>1 DEF ReportIsPublished
<1>5. \A r \in Runs : runs[r].key # k /\ runs[r].key \in Keys \cup {0}
  BY <1>0, <1>1, Numbers DEF KeyNamesRun, TypeOK, RunRecord
<1>6. \A i \in 1 .. Len(history) : history[i].key # k /\ history[i].key \in Keys \cup {0}
  BY <1>0, <1>1, Numbers, HistoryTypes DEF RevisionFollowsBase, Revision
<1>7. CapturesAreSound' /\ CheckpointIsCaptured'
  BY <1>1, <1>2, <1>3 DEF CapturesAreSound, CheckpointIsCaptured, Saved, Unused
<1>8. KeyNamesRun'
  BY <1>2, <1>5 DEF KeyNamesRun, Saved
<1>9. RevisionFollowsBase'
  BY <1>2, <1>6 DEF RevisionFollowsBase, Saved
<1>10. FinalizedIsPublished'
  BY <1>2, <1>5 DEF FinalizedIsPublished, KeyNamesRun
<1>11. ReportIsPublished'
  BY <1>2, <1>4 DEF ReportIsPublished, Saved
<1> QED BY <1>7, <1>8, <1>9, <1>10, <1>11 DEF Data

\* What a step may do to the state of one run without touching history.
runMoves(r) ==
  /\ \A q \in Runs \ {r} : runs'[q] = runs[q]
  /\ runs[r].state \notin {"finalized"} /\ runs'[r].state \notin {"none", "finalized"}
  /\ runs'[r].base \in 1 .. Len(history)
  /\ runs'[r].state = "active" => runs'[r].key = 0
  /\ runs'[r].state = "finalizing" => runs'[r].key # 0
  /\ runs'[r].key # 0 => Saved(runs'[r].key) /\ checkpoint[runs'[r].key].run = r

\* A step of a run that was not finalized keeps the data.
LEMMA DataRun ==
  ASSUME TypeOK, Data, NEW r \in Runs, runMoves(r), sameCheckpoints, UNCHANGED <<capture, history>>,
         runs'[r].key \in Keys \cup {0}
  PROVE  Data'
<1>0. \A q \in Runs : runs[q].key \in Keys \cup {0} /\ runs'[q].key \in Keys \cup {0}
  BY DEF TypeOK, RunRecord, runMoves
<1>0a. \A i \in 1 .. Len(history) : history[i].key \in Keys \cup {0}
  BY HistoryTypes DEF Revision
<1>1. CapturesAreSound' /\ CheckpointIsCaptured'
  BY DEF Data, CapturesAreSound, CheckpointIsCaptured, sameCheckpoints, sameCheckpoint, Saved, Unused
<1>2. KeyNamesRun'
  <2> SUFFICES ASSUME NEW q \in Runs
               PROVE  /\ runs'[q].state \in {"none", "active"} => runs'[q].key = 0
                      /\ runs'[q].state \in {"finalizing", "finalized"} => runs'[q].key # 0
                      /\ runs'[q].key # 0 =>
                           checkpoint'[runs'[q].key].saved /\ checkpoint'[runs'[q].key].run = q
                      /\ runs'[q].state # "none" => runs'[q].base \in 1 .. Len(history')
    BY DEF KeyNamesRun, Saved
  <2>1. CASE q = r
    BY <1>0, <2>1 DEF runMoves, sameCheckpoints, sameCheckpoint, Saved
  <2>2. CASE q # r
    BY <1>0, <2>2 DEF Data, KeyNamesRun, runMoves, sameCheckpoints, sameCheckpoint, Saved
  <2> QED BY <2>1, <2>2
<1>3. RevisionFollowsBase'
  <2> SUFFICES ASSUME NEW i \in 1 .. Len(history), history[i].key # 0
               PROVE  LET k == history[i].key IN
                      /\ Saved(k)' /\ history[i].content = checkpoint'[k].content
                      /\ runs'[checkpoint'[k].run].state = "finalized"
                      /\ runs'[checkpoint'[k].run].key = k
                      /\ i = runs'[checkpoint'[k].run].base + 1
    BY DEF RevisionFollowsBase, Saved
  <2> DEFINE k == history[i].key
  <2>1. /\ k \in Keys /\ Saved(k) /\ history[i].content = checkpoint[k].content
        /\ runs[checkpoint[k].run].state = "finalized" /\ runs[checkpoint[k].run].key = k
        /\ i = runs[checkpoint[k].run].base + 1
    BY <1>0a DEF Data, RevisionFollowsBase
  <2>2. checkpoint[k].run \in Runs \ {r}
    BY <2>1 DEF Data, CheckpointIsCaptured, runMoves
  <2>3. runs'[checkpoint[k].run] = runs[checkpoint[k].run]
    BY <2>2 DEF runMoves
  <2>4. sameCheckpoint(k)
    BY <2>1 DEF sameCheckpoints
  <2> QED BY <2>1, <2>3, <2>4 DEF sameCheckpoint, Saved
<1>4. FinalizedIsPublished'
  BY <1>0 DEF Data, FinalizedIsPublished, KeyNamesRun, runMoves, sameCheckpoints, sameCheckpoint
<1>5. ReportIsPublished'
  <2> SUFFICES ASSUME NEW k \in Keys, checkpoint'[k].published # 0
               PROVE  /\ Saved(k)' /\ checkpoint'[k].published \in 1 .. Len(history)
                      /\ history[checkpoint'[k].published].content = checkpoint'[k].content
                      /\ runs'[checkpoint'[k].run].state = "finalized"
    BY DEF ReportIsPublished, Saved
  <2>1. sameCheckpoint(k)
    BY DEF sameCheckpoints
  <2>2. /\ Saved(k) /\ checkpoint[k].published \in 1 .. Len(history)
        /\ history[checkpoint[k].published].content = checkpoint[k].content
        /\ runs[checkpoint[k].run].state = "finalized"
    BY <2>1 DEF Data, ReportIsPublished, sameCheckpoint
  <2>3. runs'[checkpoint[k].run] = runs[checkpoint[k].run]
    BY <2>2 DEF Data, CheckpointIsCaptured, runMoves
  <2> QED BY <2>1, <2>2, <2>3 DEF sameCheckpoint, Saved
<1> QED BY <1>1, <1>2, <1>3, <1>4, <1>5 DEF Data

grows == Len(history') >= Len(history) /\ \A i \in 1 .. Len(history) : history'[i] = history[i]

\* A publication of another client keeps the data.
LEMMA DataPush ==
  ASSUME TypeOK, Data, push
  PROVE  Data'
<1>1. [key |-> 0, content |-> Initial] \in Revision
  BY SandboxAssumption DEF Revision
<1>2. /\ Len(history') = Len(history) + 1 /\ history'[Len(history) + 1].key = 0
      /\ \A i \in 1 .. Len(history) : history'[i] = history[i]
      /\ Len(history) \in Nat
  BY <1>1, HistoryAppends, HistoryTypes DEF push
<1>3. UNCHANGED <<capture, checkpoint, runs>>
  BY DEF push
<1>4. CapturesAreSound' /\ CheckpointIsCaptured'
  BY <1>3 DEF Data, CapturesAreSound, CheckpointIsCaptured, Saved, Unused
<1>5. KeyNamesRun'
  BY <1>2, <1>3 DEF Data, KeyNamesRun, Saved
<1>6. RevisionFollowsBase'
  BY <1>2, <1>3 DEF Data, RevisionFollowsBase, Saved
<1>7. FinalizedIsPublished'
  <2> SUFFICES ASSUME NEW q \in Runs, runs[q].state = "finalized"
               PROVE  \/ Len(history') > runs[q].base /\ history'[runs[q].base + 1].key = runs[q].key
                      \/ history'[runs[q].base].content = checkpoint[runs[q].key].content
    BY <1>3 DEF FinalizedIsPublished
  <2>1. runs[q].base \in 1 .. Len(history)
    BY DEF Data, KeyNamesRun
  <2> QED BY <1>2, <2>1 DEF Data, FinalizedIsPublished
<1>8. ReportIsPublished'
  BY <1>2, <1>3 DEF Data, ReportIsPublished, Saved
<1> QED BY <1>4, <1>5, <1>6, <1>7, <1>8 DEF Data

\* What an accepted finalization does to its run and to history.
finalizes(r) ==
  /\ runs[r].state = "finalizing" /\ runs[r].base = Len(history)
  /\ runs'[r].state = "finalized" /\ runs'[r].base = runs[r].base /\ runs'[r].key = runs[r].key
  /\ \A q \in Runs \ {r} : runs'[q] = runs[q]
  /\ grows
  /\ \/ /\ Len(history') = Len(history)
        /\ history[Len(history)].content = checkpoint[runs[r].key].content
     \/ /\ Len(history') = Len(history) + 1
        /\ history'[Len(history) + 1].key = runs[r].key
        /\ history'[Len(history) + 1].content = checkpoint[runs[r].key].content

\* A processed finalization is accepted on its base or fails.
LEMMA ProcessEffect ==
  ASSUME TypeOK, Data, NEW r \in Runs, processOperation(r)
  PROVE  /\ UNCHANGED <<session, checkpoint, capture, tree, call>>
         /\ \/ finalizes(r)
            \/ /\ UNCHANGED history /\ runs'[r].state = "failed" /\ runMoves(r)
               /\ runs'[r].key \in Keys \cup {0}
<1>0. runs \in [Runs -> RunRecord] /\ checkpoint \in [Keys -> Checkpoint]
  BY DEF TypeOK
<1>1. runs[r].key \in Keys /\ runs[r].base \in 1 .. Len(history)
  BY <1>0 DEF processOperation, Data, KeyNamesRun, RunRecord
<1>2. CASE runs[r].base # Len(history)
  <2>1. /\ runs'[r].state = "failed" /\ runs'[r].base = runs[r].base /\ runs'[r].key = runs[r].key
        /\ \A q \in Runs \ {r} : runs'[q] = runs[q]
    BY <1>0, <1>2 DEF processOperation, RunRecord
  <2>2. Saved(runs[r].key) /\ checkpoint[runs[r].key].run = r
    BY <1>1, Numbers DEF Data, KeyNamesRun
  <2>3. runMoves(r)
    BY <1>1, <2>1, <2>2 DEF runMoves, processOperation
  <2> QED BY <1>1, <1>2, <2>1, <2>3 DEF processOperation
<1>3. CASE runs[r].base = Len(history)
  <2>1. /\ runs'[r].state = "finalized" /\ runs'[r].base = runs[r].base /\ runs'[r].key = runs[r].key
        /\ \A q \in Runs \ {r} : runs'[q] = runs[q]
    BY <1>0, <1>3 DEF processOperation, RunRecord
  <2> DEFINE v == [key |-> runs[r].key, content |-> checkpoint[runs[r].key].content]
  <2>2. v \in Revision
    BY <1>0, <1>1 DEF Revision, Checkpoint
  <2>3. CASE UNCHANGED history /\ checkpoint[runs[r].key].content = baseOf(r)
    BY <1>3, <2>1, <2>3, HistoryTypes DEF processOperation, finalizes, grows, baseOf
  <2>4. CASE history' = Append(history, v)
    <3>1. /\ Len(history') = Len(history) + 1 /\ history'[Len(history) + 1] = v
          /\ \A i \in 1 .. Len(history) : history'[i] = history[i]
      BY <2>2, <2>4, HistoryAppends
    <3> QED BY <1>3, <2>1, <3>1, HistoryTypes DEF processOperation, finalizes, grows
  <2> QED BY <1>3, <2>3, <2>4 DEF processOperation
<1> QED BY <1>2, <1>3

\* An accepted finalization keeps the data: it is the first revision with its key.
LEMMA DataFinalize ==
  ASSUME TypeOK, Data, NEW r \in Runs, finalizes(r), UNCHANGED <<checkpoint, capture>>
  PROVE  Data'
<1>0. /\ \A q \in Runs : runs[q].key \in Keys \cup {0}
      /\ Len(history) \in Nat /\ Len(history') \in Nat
      /\ \A i \in 1 .. Len(history) : history[i].key \in Keys \cup {0}
  BY HistoryTypes DEF TypeOK, RunRecord, finalizes, Revision
<1> DEFINE k == runs[r].key
<1>1. k \in Keys /\ Saved(k) /\ checkpoint[k].run = r
  BY <1>0 DEF finalizes, Data, KeyNamesRun
<1>2. CapturesAreSound' /\ CheckpointIsCaptured'
  BY DEF Data, CapturesAreSound, CheckpointIsCaptured, Saved, Unused
<1>3. KeyNamesRun'
  <2> SUFFICES ASSUME NEW q \in Runs
               PROVE  /\ runs'[q].state \in {"none", "active"} => runs'[q].key = 0
                      /\ runs'[q].state \in {"finalizing", "finalized"} => runs'[q].key # 0
                      /\ runs'[q].key # 0 =>
                           checkpoint[runs'[q].key].saved /\ checkpoint[runs'[q].key].run = q
                      /\ runs'[q].state # "none" => runs'[q].base \in 1 .. Len(history')
    BY DEF KeyNamesRun, Saved
  <2>1. 1 .. Len(history) \subseteq 1 .. Len(history')
    BY <1>0 DEF finalizes, grows
  <2>2. /\ runs[q].key # 0 => checkpoint[runs[q].key].saved /\ checkpoint[runs[q].key].run = q
        /\ runs[q].state # "none" => runs[q].base \in 1 .. Len(history)
    BY DEF Data, KeyNamesRun, Saved
  <2>3. CASE q = r
    BY <2>1, <2>2, <2>3 DEF finalizes, Data, KeyNamesRun
  <2>4. CASE q # r
    BY <2>1, <2>2, <2>4 DEF finalizes, Data, KeyNamesRun
  <2> QED BY <2>3, <2>4
<1>4. RevisionFollowsBase'
  <2> SUFFICES ASSUME NEW i \in 1 .. Len(history'), history'[i].key # 0
               PROVE  LET l == history'[i].key IN
                      /\ checkpoint[l].saved /\ history'[i].content = checkpoint[l].content
                      /\ runs'[checkpoint[l].run].state = "finalized"
                      /\ runs'[checkpoint[l].run].key = l
                      /\ i = runs'[checkpoint[l].run].base + 1
    BY DEF RevisionFollowsBase, Saved
  <2>1. CASE i \in 1 .. Len(history)
    <3> DEFINE l == history[i].key
    <3>1. history'[i] = history[i] /\ l \in Keys
      BY <1>0, <2>1 DEF finalizes, grows
    <3>2. /\ Saved(l) /\ history[i].content = checkpoint[l].content
          /\ runs[checkpoint[l].run].state = "finalized" /\ runs[checkpoint[l].run].key = l
          /\ i = runs[checkpoint[l].run].base + 1
      BY <2>1, <3>1 DEF Data, RevisionFollowsBase
    <3>3. checkpoint[l].run \in Runs \ {r}
      BY <3>1, <3>2 DEF Data, CheckpointIsCaptured, finalizes
    <3>4. runs'[checkpoint[l].run] = runs[checkpoint[l].run]
      BY <3>3 DEF finalizes
    <3> QED BY <3>1, <3>2, <3>4 DEF Saved
  <2>2. CASE i \notin 1 .. Len(history)
    <3>1. i = Len(history) + 1 /\ history'[i].key = k /\ history'[i].content = checkpoint[k].content
      BY <1>0, <2>2 DEF finalizes
    <3> QED BY <1>1, <3>1 DEF finalizes, Saved
  <2> QED BY <2>1, <2>2
<1>5. FinalizedIsPublished'
  <2> SUFFICES ASSUME NEW q \in Runs, runs'[q].state = "finalized"
               PROVE  \/ Len(history') > runs'[q].base /\ history'[runs'[q].base + 1].key = runs'[q].key
                      \/ history'[runs'[q].base].content = checkpoint[runs'[q].key].content
    BY DEF FinalizedIsPublished
  <2>1. CASE q = r
    <3>1. Len(history) \in 1 .. Len(history)
      BY HistoryTypes
    <3> QED BY <1>0, <2>1, <3>1 DEF finalizes, grows
  <2>2. CASE q # r
    <3>1. runs'[q] = runs[q] /\ runs[q].base \in 1 .. Len(history)
      BY <2>2 DEF finalizes, Data, KeyNamesRun
    <3>2. \/ Len(history) > runs[q].base /\ history[runs[q].base + 1].key = runs[q].key
          \/ history[runs[q].base].content = checkpoint[runs[q].key].content
      BY <3>1 DEF Data, FinalizedIsPublished
    <3> QED BY <1>0, <3>1, <3>2 DEF finalizes, grows
  <2> QED BY <2>1, <2>2
<1>6. ReportIsPublished'
  <2> SUFFICES ASSUME NEW l \in Keys, checkpoint[l].published # 0
               PROVE  /\ checkpoint[l].saved /\ checkpoint[l].published \in 1 .. Len(history')
                      /\ history'[checkpoint[l].published].content = checkpoint[l].content
                      /\ runs'[checkpoint[l].run].state = "finalized"
    BY DEF ReportIsPublished, Saved
  <2>1. /\ Saved(l) /\ checkpoint[l].published \in 1 .. Len(history)
        /\ history[checkpoint[l].published].content = checkpoint[l].content
        /\ runs[checkpoint[l].run].state = "finalized"
    BY DEF Data, ReportIsPublished
  <2>2. runs'[checkpoint[l].run] = runs[checkpoint[l].run]
    BY <2>1 DEF Data, CheckpointIsCaptured, finalizes
  <2> QED BY <1>0, <2>1, <2>2 DEF finalizes, grows, Saved
<1> QED BY <1>2, <1>3, <1>4, <1>5, <1>6 DEF Data

\* What a finalized run is reported to have published is the content of its checkpoint.
LEMMA DataRecord ==
  ASSUME PublicationInvariant, recordPublished, At("commit", "wait")
  PROVE  Data' /\ checkpoint'[call.key].published # 0
<1> USE DEF PublicationInvariant
<1> DEFINE k == call.key
           r == checkpoint[k].run
           n == revisionOf(r)
<1>0. k \in Keys /\ checkpoint \in [Keys -> Checkpoint]
  BY CallShape DEF TypeOK, At
<1>1. Saved(k) /\ runs[r].key = k /\ runs[r].state = "finalized"
  BY DEF recordPublished, At, CallFollowsJournal, CommitAt, After, runOf
<1>2. r \in Runs
  BY <1>0, <1>1 DEF CheckpointIsCaptured
<1>3. runs[r].base \in 1 .. Len(history)
  BY <1>1, <1>2 DEF KeyNamesRun
<1>4. n \in 1 .. Len(history) /\ history[n].content = checkpoint[k].content
  <2>1. CASE Len(history) > runs[r].base /\ history[runs[r].base + 1].key = runs[r].key
    <3>1. n = runs[r].base + 1 /\ n \in 1 .. Len(history)
      BY <1>3, <2>1, HistoryTypes DEF revisionOf
    <3>2. history[n].key = k
      BY <1>1, <2>1, <3>1
    <3> QED BY <1>0, <3>1, <3>2, Numbers DEF RevisionFollowsBase
  <2>2. CASE ~(Len(history) > runs[r].base /\ history[runs[r].base + 1].key = runs[r].key)
    BY <1>1, <1>2, <1>3, <2>2 DEF revisionOf, FinalizedIsPublished
  <2> QED BY <2>1, <2>2
<1>5. /\ UNCHANGED <<capture, runs, history>>
      /\ checkpoint' = [checkpoint EXCEPT ![k].published = n]
  BY DEF recordPublished, At, runOf
<1> HIDE DEF n
<1>6. /\ \A q \in Keys \ {k} : checkpoint'[q] = checkpoint[q]
      /\ checkpoint'[k].saved = checkpoint[k].saved /\ checkpoint'[k].run = checkpoint[k].run
      /\ checkpoint'[k].content = checkpoint[k].content /\ checkpoint'[k].published = n
  BY <1>0, <1>5 DEF Checkpoint
<1>7. /\ \A q \in Keys : /\ checkpoint'[q].saved = checkpoint[q].saved
                         /\ checkpoint'[q].run = checkpoint[q].run
                         /\ checkpoint'[q].content = checkpoint[q].content
      /\ \A q \in Runs : runs[q].key \in Keys \cup {0}
      /\ \A i \in 1 .. Len(history) : history[i].key \in Keys \cup {0}
  BY <1>6, HistoryTypes DEF TypeOK, RunRecord, Revision
<1>8. CapturesAreSound' /\ CheckpointIsCaptured'
  BY <1>5, <1>7 DEF CapturesAreSound, CheckpointIsCaptured, Saved, Unused
<1>9. KeyNamesRun'
  BY <1>5, <1>7 DEF KeyNamesRun, Saved
<1>10. RevisionFollowsBase'
  BY <1>5, <1>7 DEF RevisionFollowsBase, Saved
<1>11. FinalizedIsPublished'
  BY <1>5, <1>7 DEF FinalizedIsPublished, KeyNamesRun
<1>12. ReportIsPublished'
  <2> SUFFICES ASSUME NEW q \in Keys, checkpoint'[q].published # 0
               PROVE  /\ checkpoint'[q].saved /\ checkpoint'[q].published \in 1 .. Len(history)
                      /\ history[checkpoint'[q].published].content = checkpoint'[q].content
                      /\ runs[checkpoint'[q].run].state = "finalized"
    BY <1>5 DEF ReportIsPublished, Saved
  <2>1. CASE q = k
    BY <1>1, <1>4, <1>6, <2>1 DEF Saved
  <2>2. CASE q # k
    BY <1>6, <2>2 DEF ReportIsPublished, Saved
  <2> QED BY <2>1, <2>2
<1> QED BY <1>4, <1>6, <1>8, <1>9, <1>10, <1>11, <1>12 DEF Data

\* What opening, aborting, expiring and finalizing do to the run.
LEMMA RunMoves ==
  ASSUME PublicationInvariant, NEW r \in Runs,
         \/ open /\ r = call.key /\ runs[r].state = "none"
         \/ runs[r].state = "active" /\ runs' = [runs EXCEPT ![r].state = "aborted"]
         \/ runs[r].state = "active" /\ runs' = [runs EXCEPT ![r].state = "expired"]
         \/ /\ At("commit", "publish") /\ r = runOf(call.key) /\ runs[r].state = "active"
            /\ runs' = [runs EXCEPT ![r] = [@ EXCEPT !.state = "finalizing", !.key = call.key]]
  PROVE  /\ runMoves(r) /\ runs'[r].key \in Keys \cup {0}
         /\ runs'[r].state \in {"active", "aborted", "expired", "finalizing"}
         /\ At("commit", "publish") /\ runs'[r].state = "finalizing" => runs'[r].key = call.key
         /\ runs[r].state = "none" => runs'[r].state = "active"
<1> USE DEF PublicationInvariant
<1>0. runs \in [Runs -> RunRecord]
  BY DEF TypeOK
<1>1. CASE open /\ r = call.key /\ runs[r].state = "none"
  BY <1>0, <1>1, HistoryTypes DEF open, opened, runMoves
<1>2. CASE runs[r].state = "active" /\ \E s \in {"aborted", "expired"} : runs' = [runs EXCEPT ![r].state = s]
  <2>1. runs[r].key = 0 /\ runs[r].base \in 1 .. Len(history)
    BY <1>2 DEF KeyNamesRun
  <2> PICK s \in {"aborted", "expired"} : runs' = [runs EXCEPT ![r].state = s]
    BY <1>2
  <2>2. /\ runs'[r].state = s /\ runs'[r].key = 0 /\ runs'[r].base = runs[r].base
        /\ \A q \in Runs \ {r} : runs'[q] = runs[q]
    BY <1>0, <2>1 DEF RunRecord
  <2> QED BY <1>2, <2>1, <2>2 DEF runMoves
<1>3. CASE /\ At("commit", "publish") /\ r = runOf(call.key) /\ runs[r].state = "active"
           /\ runs' = [runs EXCEPT ![r] = [@ EXCEPT !.state = "finalizing", !.key = call.key]]
  <2>1. call.key \in Keys /\ Saved(call.key) /\ checkpoint[call.key].run = r
    BY <1>3, CallShape DEF At, runOf, CallFollowsJournal, CommitAt, After
  <2>2. runs[r].base \in 1 .. Len(history)
    BY <1>3 DEF KeyNamesRun
  <2>3. /\ runs'[r].state = "finalizing" /\ runs'[r].key = call.key /\ runs'[r].base = runs[r].base
        /\ \A q \in Runs \ {r} : runs'[q] = runs[q]
    BY <1>0, <1>3 DEF RunRecord
  <2> QED BY <1>3, <2>1, <2>2, <2>3, Numbers DEF runMoves
<1> QED BY <1>1, <1>2, <1>3

\* A submission holds what was captured; the other marks of a checkpoint are not data.
LEMMA CheckpointMarks ==
  ASSUME PublicationInvariant,
         \/ UNCHANGED checkpoint
         \/ /\ publishSnapshot /\ bindCaptureRun(call.key)
            /\ checkpoint' = [checkpoint EXCEPT ![call.key] =
                  [@ EXCEPT !.submitted = TRUE, !.content = capturedProvider(call.key)]]
         \/ checkpoint' = [checkpoint EXCEPT ![call.key].reopened = TRUE]
         \/ checkpoint' = [checkpoint EXCEPT ![call.key].result = TRUE]
         \/ \E b \in BOOLEAN, k \in Keys : checkpoint' = [checkpoint EXCEPT ![k].reopened = b]
  PROVE  sameCheckpoints
<1> USE DEF PublicationInvariant
<1>0. checkpoint \in [Keys -> Checkpoint]
  BY DEF TypeOK
<1>1. CASE UNCHANGED checkpoint
  BY <1>1 DEF sameCheckpoints, sameCheckpoint
<1>2. CASE /\ publishSnapshot /\ bindCaptureRun(call.key)
           /\ checkpoint' = [checkpoint EXCEPT ![call.key] =
                 [@ EXCEPT !.submitted = TRUE, !.content = capturedProvider(call.key)]]
  <2>0. call.key \in Keys
    BY <1>2, CallShape DEF publishSnapshot, At
  <2>1. capture[call.key].whole
    BY <1>2, <2>0 DEF bindCaptureRun, CapturesAreSound
  <2>2. capturedProvider(call.key) = checkpoint[call.key].content
    BY <2>1 DEF capturedProvider
  <2> QED BY <1>0, <1>2, <2>0, <2>2 DEF sameCheckpoints, sameCheckpoint, Checkpoint
<1>3. CASE \/ checkpoint' = [checkpoint EXCEPT ![call.key].reopened = TRUE]
           \/ checkpoint' = [checkpoint EXCEPT ![call.key].result = TRUE]
  BY <1>0, <1>3 DEF sameCheckpoints, sameCheckpoint, Checkpoint
<1>4. CASE \E b \in BOOLEAN, k \in Keys : checkpoint' = [checkpoint EXCEPT ![k].reopened = b]
  BY <1>0, <1>4 DEF sameCheckpoints, sameCheckpoint, Checkpoint
<1> QED BY <1>1, <1>2, <1>3, <1>4

\* A destruction records the reopened run of the pending checkpoint.
LEMMA DestroyMarks ==
  ASSUME PublicationInvariant, NEW abandon \in BOOLEAN, destroySandbox(abandon)
  PROVE  sameCheckpoints
<1>1. CASE UNCHANGED checkpoint
  BY <1>1, CheckpointMarks
<1>2. CASE /\ session.pending # 0
           /\ checkpoint' = [checkpoint EXCEPT ![session.pending].reopened = @ \/ recordedOpen(session.pending)]
  <2> DEFINE k == session.pending
             b == checkpoint[k].reopened \/ recordedOpen(k)
  <2>1. k \in Keys
    BY <1>2 DEF PublicationInvariant, TypeOK, Session
  <2>2. b \in BOOLEAN /\ checkpoint' = [checkpoint EXCEPT ![k].reopened = b]
    BY <1>2
  <2> HIDE DEF b
  <2> QED BY <2>1, <2>2, CheckpointMarks
<1> QED BY <1>1, <1>2 DEF destroySandbox

\* Every step keeps the data.
LEMMA DataNext == PublicationInvariant /\ [Next]_vars => Data'
<1> SUFFICES ASSUME PublicationInvariant, [Next]_vars PROVE Data'
  OBVIOUS
<1>0. TypeOK /\ Data
  BY DEF PublicationInvariant, Data
<1>1. CASE sameCheckpoints /\ UNCHANGED <<capture, runs, history>>
  BY <1>0, <1>1, DataSame
<1>2. CASE UNCHANGED <<checkpoint, capture, runs, history>>
  BY <1>1, <1>2, CheckpointMarks
<1>3. CASE \/ checkoutSandbox \/ hydrate \/ hydrateWorkspace \/ publicationFails \/ outcomeUnknown
           \/ reopenFails \/ removeWorkspace \/ interrupted \/ agentEdits \/ UNCHANGED vars
           \/ \E k \in Keys : commitSandbox(k)
  BY <1>2, <1>3 DEF checkoutSandbox, hydrate, hydrateWorkspace, publicationFails, outcomeUnknown,
                    reopenFails, removeWorkspace, interrupted, agentEdits, vars, commitSandbox
<1>4. ASSUME NEW r \in Runs, runMoves(r), runs'[r].key \in Keys \cup {0},
             UNCHANGED <<checkpoint, capture, history>>
      PROVE  Data'
  BY <1>0, <1>4, DataRun, CheckpointMarks
<1>5. CASE open
  <2>1. call.key \in Runs /\ UNCHANGED <<checkpoint, capture, history>>
    BY <1>0, <1>5, CallShape, Numbers DEF open, At
  <2>2. CASE runs[call.key].state = "none"
    BY <1>4, <1>5, <2>1, <2>2, RunMoves
  <2>3. CASE runs[call.key].state # "none"
    BY <1>2, <1>5, <2>1, <2>3 DEF open, opened
  <2> QED BY <2>2, <2>3
<1>6. CASE allocate \/ captureWorkspace \/ seal \/ discard
  <2>1. UNCHANGED <<checkpoint, runs, history>>
    BY <1>6 DEF allocate, captureWorkspace, seal, discard
  <2> QED BY <1>0, <1>6, <2>1, CaptureMoves, DataCapture
<1>7. CASE retained
  <2>1. UNCHANGED <<checkpoint, runs, history>>
    BY <1>7 DEF retained
  <2> QED BY <1>0, <1>2, <1>7, <2>1, RetainedMoves, DataCapture
<1>8. CASE cleanupOwnedCaptures
  <2>1. UNCHANGED <<checkpoint, runs, history>>
    BY <1>8 DEF cleanupOwnedCaptures
  <2> QED BY <1>0, <1>2, <1>8, <2>1, CleanupMoves, DataCapture
<1>9. CASE selectSource
  <2>1. CASE At("commit", "select")
    BY <1>9, <2>1, DataSelect
  <2>2. CASE ~At("commit", "select")
    BY <1>2, <1>9, <2>2 DEF selectSource
  <2> QED BY <2>1, <2>2
<1>10. CASE publishSnapshot
  <2> DEFINE k == call.key
             r == runOf(k)
  <2>0. r \in Runs
    BY <1>10, CallShape
    DEF publishSnapshot, At, runOf, PublicationInvariant, CallFollowsJournal, CommitAt, After,
        CheckpointIsCaptured
  <2>1. CASE /\ bindCaptureRun(k) /\ UNCHANGED runs
             /\ checkpoint' = [checkpoint EXCEPT ![k] = [@ EXCEPT !.submitted = TRUE, !.content = capturedProvider(k)]]
    BY <1>1, <1>10, <2>1, CheckpointMarks DEF publishSnapshot
  <2>2. CASE /\ runs[r].state = "active" /\ UNCHANGED checkpoint
             /\ runs' = [runs EXCEPT ![r] = [@ EXCEPT !.state = "finalizing", !.key = k]]
    <3>1. runMoves(r) /\ runs'[r].key \in Keys \cup {0}
      BY <1>10, <2>0, <2>2, RunMoves DEF publishSnapshot
    <3> QED BY <1>4, <1>10, <2>0, <2>2, <3>1 DEF publishSnapshot
  <2>3. CASE UNCHANGED <<runs, checkpoint>>
    BY <1>2, <1>10, <2>3 DEF publishSnapshot
  <2> QED BY <1>10, <2>1, <2>2, <2>3 DEF publishSnapshot
<1>11. CASE recordPublished
  <2>1. CASE At("commit", "wait")
    BY <1>11, <2>1, DataRecord
  <2>2. CASE ~At("commit", "wait")
    BY <1>2, <1>11, <2>2 DEF recordPublished
  <2> QED BY <2>1, <2>2
<1>12. CASE resume
  BY <1>1, <1>12, CheckpointMarks DEF resume
<1>13. CASE \E abandon \in BOOLEAN : destroySandbox(abandon)
  <2>1. UNCHANGED <<capture, runs, history>>
    BY <1>13 DEF destroySandbox
  <2> QED BY <1>1, <1>13, <2>1, DestroyMarks
<1>14. CASE abortRuns
  <2>1. UNCHANGED <<checkpoint, capture, history>>
    BY <1>14 DEF abortRuns
  <2>2. CASE UNCHANGED runs
    BY <1>2, <2>1, <2>2
  <2>3. CASE \E r \in ownedRuns : runs[r].state = "active" /\ runs' = [runs EXCEPT ![r].state = "aborted"]
    <3> PICK r \in ownedRuns : runs[r].state = "active" /\ runs' = [runs EXCEPT ![r].state = "aborted"]
      BY <2>3
    <3>1. r \in Runs
      <4>1. ASSUME NEW k \in Keys PROVE capture[k].run \in Runs \cup {NoRun} /\ checkpoint[k].run \in Runs \cup {NoRun}
        BY <1>0 DEF TypeOK, Allocation, Checkpoint
      <4>2. session.run \in Runs \cup {NoRun} /\ session.pending \in Keys \cup {0}
        BY <1>0 DEF TypeOK, Session
      <4> QED BY <4>1, <4>2, Numbers DEF ownedRuns
    <3> QED BY <1>4, <2>1, <3>1, RunMoves
  <2> QED BY <1>14, <2>2, <2>3 DEF abortRuns
<1>15. CASE \E r \in Runs : expireActiveRun(r)
  BY <1>4, <1>15, RunMoves DEF expireActiveRun
<1>16. CASE \E r \in Runs : processOperation(r)
  BY <1>0, <1>4, <1>16, ProcessEffect, DataFinalize
<1>17. CASE push
  BY <1>0, <1>17, DataPush
<1> QED BY <1>3, <1>5, <1>6, <1>7, <1>8, <1>9, <1>10, <1>11, <1>12, <1>13, <1>14, <1>15, <1>16, <1>17
        DEF Next, CallNext

-----------------------------------------------------------------------------
(* The call *)

\* A step that leaves the call and what it wrote alone keeps them in agreement.
LEMMA CallStays ==
  ASSUME PublicationInvariant, UNCHANGED <<session, checkpoint, capture, call>>,
         \A r \in Runs : /\ runs'[r].key = runs[r].key
                         /\ runs[r].state # "none" => runs'[r].state # "none"
  PROVE  CallFollowsJournal'
<1>1. CommitAt({"wait"}) => checkpoint[call.key].run \in Runs
  BY CallShape DEF PublicationInvariant, CallFollowsJournal, CommitAt, After, CheckpointIsCaptured
<1> QED BY <1>1, Numbers DEF PublicationInvariant, CallFollowsJournal, CommitAt, Saved, Unused

\* An idle session has no call to account for.
LEMMA CallEnds == call' = Idle => CallFollowsJournal'
  BY DEF CallFollowsJournal, CommitAt, Idle

\* What the steps of others leave of a call.
LEMMA CallOthers ==
  ASSUME PublicationInvariant,
         \/ interrupted \/ agentEdits \/ push \/ UNCHANGED vars
         \/ \E r \in Runs : expireActiveRun(r) \/ processOperation(r)
  PROVE  CallFollowsJournal'
<1>0. runs \in [Runs -> RunRecord] /\ TypeOK /\ Data
  BY DEF PublicationInvariant, Data, TypeOK
<1>1. CASE interrupted
  BY <1>1, CallEnds, CallReturns DEF interrupted
<1>2. CASE agentEdits \/ push \/ UNCHANGED vars
  BY <1>2, CallStays DEF agentEdits, push, vars
<1>3. CASE \E r \in Runs : expireActiveRun(r)
  <2>1. \A r \in Runs : /\ runs'[r].key = runs[r].key
                        /\ runs[r].state # "none" => runs'[r].state # "none"
    BY <1>0, <1>3 DEF expireActiveRun, RunRecord
  <2> QED BY <1>3, <2>1, CallStays DEF expireActiveRun
<1>4. CASE \E r \in Runs : processOperation(r)
  <2>1. \A r \in Runs : /\ runs'[r].key = runs[r].key
                        /\ runs[r].state # "none" => runs'[r].state # "none"
    BY <1>0, <1>4 DEF processOperation, RunRecord
  <2> QED BY <1>4, <2>1, CallStays DEF processOperation
<1> QED BY <1>1, <1>2, <1>3, <1>4

\* A checkout opens its run before anything else is recorded.
LEMMA CallCheckout ==
  ASSUME PublicationInvariant, checkoutSandbox \/ open \/ hydrate \/ hydrateWorkspace
  PROVE  CallFollowsJournal'
<1> USE DEF PublicationInvariant
<1>0. runs \in [Runs -> RunRecord]
  BY DEF TypeOK
<1>1. CASE checkoutSandbox
  BY <1>1 DEF checkoutSandbox, CallFollowsJournal, CommitAt
<1>2. CASE open
  <2>1. /\ call'.op = call.op /\ call'.key = call.key /\ call'.at = "opened"
        /\ call.op \in {"checkout", "commit"} /\ call.op = "commit" => call.at = "reopen"
    BY <1>2, CallGoes DEF open, At, CommitSteps, CheckoutSteps, After
  <2>2. call.op = "checkout" => runs'[0].state # "none"
    <3>1. call.op = "checkout" => call.key = 0 /\ call.key \in Runs
      BY CallShape, Numbers
    <3> QED BY <1>0, <1>2, <3>1 DEF open, opened
  <2>3. call.op = "commit" => Saved(call.key)'
    BY <1>2, <2>1 DEF open, CallFollowsJournal, CommitAt, After, Saved
  <2> QED BY <2>1, <2>2, <2>3 DEF CallFollowsJournal, CommitAt, Before, Saved
<1>3. CASE hydrate
  <2>1. CASE call' = Idle
    BY <2>1, CallEnds
  <2>2. CASE At("checkout", "opened") /\ Goes("hydrate") /\ UNCHANGED runs
    <3>1. call'.op = "checkout" /\ call'.at = "hydrate"
      BY <2>2, CallGoes DEF At, CheckoutSteps
    <3> QED BY <2>2, <3>1 DEF CallFollowsJournal, CommitAt, At
  <2> QED BY <1>3, <2>1, <2>2, CallReturns DEF hydrate
<1>4. CASE hydrateWorkspace
  <2>1. call'.op = "checkout" /\ call'.at = "hydrated"
    BY <1>4, CallGoes DEF hydrateWorkspace, At, CheckoutSteps
  <2> QED BY <1>4, <2>1 DEF hydrateWorkspace, CallFollowsJournal, CommitAt, At
<1> QED BY <1>1, <1>2, <1>3, <1>4

\* A commit starts with the journal as it finds it.
LEMMA CallCommit ==
  ASSUME PublicationInvariant, NEW k \in Keys, commitSandbox(k)
  PROVE  CallFollowsJournal'
<1>1. /\ call'.op = "commit" /\ call'.key = k
      /\ call'.at = IF checkpoint[k].saved THEN "pending" ELSE "capture"
      /\ UNCHANGED <<session, checkpoint, capture, runs>>
      /\ ~checkpoint[k].saved => session.run # NoRun
  BY DEF commitSandbox
<1> QED BY <1>1 DEF CallFollowsJournal, CommitAt, Before, After, Saved

\* The steps up to the selection work on a checkpoint that is not saved.
LEMMA CallCapture ==
  ASSUME PublicationInvariant, allocate \/ retained \/ captureWorkspace \/ seal \/ discard
  PROVE  CallFollowsJournal'
<1> USE DEF PublicationInvariant
<1> DEFINE k == call.key
<1>0. capture \in [Keys -> Allocation] /\ k \in Keys
  BY CallShape DEF TypeOK, allocate, retained, captureWorkspace, seal, discard, At
<1>1. /\ ~Saved(k) /\ session.run # NoRun /\ UNCHANGED <<session, checkpoint, runs>> /\ call.op = "commit"
  BY DEF allocate, retained, captureWorkspace, seal, discard, At, CallFollowsJournal, CommitAt, Before
<1>2. CASE call' = Idle
  BY <1>2, CallEnds
<1>3. ASSUME NEW s \in Before, Goes(s), s \in {"copy", "seal"} => capture'[k].state = "allocating",
             s = "seal" => capture'[k].whole, s \in {"select", "discard"} => capture'[k].state # "none"
      PROVE  CallFollowsJournal'
  <2>1. call'.op = "commit" /\ call'.key = k /\ call'.at = s
    BY <1>1, <1>3, CallGoes DEF CommitSteps
  <2> QED BY <1>1, <1>3, <2>1 DEF CallFollowsJournal, CommitAt, Before, After, Saved, Unused
<1>4. CASE allocate
  <2>1. capture'[k].state = "allocating" /\ Goes("copy")
    BY <1>0, <1>4 DEF allocate
  <2> QED BY <1>3, <2>1 DEF Before
<1>5. CASE retained
  <2>1. CASE capture' = [capture EXCEPT ![k].state = "sealed"] /\ Goes("select")
    <3>1. capture'[k].state = "sealed"
      BY <1>0, <2>1 DEF Allocation
    <3> QED BY <1>3, <2>1, <3>1 DEF Before
  <2> QED BY <1>2, <1>5, <2>1, CallReturns DEF retained
<1>6. CASE captureWorkspace
  <2>1. capture[k].state = "allocating"
    BY <1>6 DEF captureWorkspace, At, CallFollowsJournal, CommitAt
  <2>2. CASE capture' = [capture EXCEPT ![k].whole = TRUE] /\ Goes("seal")
    <3>1. capture'[k].state = "allocating" /\ capture'[k].whole
      BY <1>0, <2>1, <2>2 DEF Allocation
    <3> QED BY <1>3, <2>2, <3>1 DEF Before
  <2>3. CASE capture' = [capture EXCEPT ![k] = discarding(capture[k], FALSE)] /\ Goes("discard")
    <3>1. capture'[k].state = "discarding"
      BY <1>0, <2>3 DEF Allocation, discarding
    <3> QED BY <1>3, <2>3, <3>1 DEF Before
  <2> QED BY <1>6, <2>2, <2>3 DEF captureWorkspace
<1>7. CASE seal
  <2>1. capture'[k].state = "sealed" /\ Goes("select")
    BY <1>0, <1>7 DEF seal, Allocation
  <2> QED BY <1>3, <2>1 DEF Before
<1>8. CASE discard
  BY <1>2, <1>8, CallReturns DEF discard
<1> QED BY <1>4, <1>5, <1>6, <1>7, <1>8

\* The steps after the selection work on a saved checkpoint.
LEMMA CallPublish ==
  ASSUME PublicationInvariant,
         \/ selectSource \/ publishSnapshot \/ publicationFails \/ outcomeUnknown
         \/ recordPublished \/ resume \/ reopenFails
  PROVE  CallFollowsJournal'
<1> USE DEF PublicationInvariant
<1>a. /\ checkpoint \in [Keys -> Checkpoint] /\ runs \in [Runs -> RunRecord] /\ call.key \in Keys
      /\ call.op = "commit"
  BY CallShape DEF TypeOK, selectSource, publishSnapshot, publicationFails, outcomeUnknown,
                   recordPublished, resume, reopenFails, At
<1>b. PICK k \in Keys : k = call.key
  BY <1>a
<1>0. /\ checkpoint \in [Keys -> Checkpoint] /\ runs \in [Runs -> RunRecord]
      /\ call.op = "commit" /\ call.key = k
  BY <1>a, <1>b
<1>2. CASE call' = Idle
  BY <1>2, CallEnds
<1>3. ASSUME NEW s \in After, Goes(s), Saved(k)', s = "wait" => runs'[checkpoint'[k].run].key = k
      PROVE  CallFollowsJournal'
  <2>1. call'.op = "commit" /\ call'.key = k /\ call'.at = s
    BY <1>0, <1>3, CallGoes DEF CommitSteps
  <2> QED BY <1>3, <2>1 DEF CallFollowsJournal, CommitAt, Before, After, Saved
<1>4. CASE selectSource
  <2>1. CASE At("commit", "select")
    <3>1. Goes("pending") /\ checkpoint'[k].saved
      BY <1>0, <1>4, <2>1 DEF selectSource, At, Checkpoint
    <3> QED BY <1>3, <3>1 DEF After, Saved
  <2>2. CASE At("commit", "pending")
    <3>1. Saved(k) /\ UNCHANGED checkpoint /\ (Goes("reopen") \/ Goes("publish"))
      BY <1>0, <1>4, <2>2 DEF selectSource, At, CallFollowsJournal, CommitAt, After
    <3> QED BY <1>3, <3>1 DEF After, Saved
  <2> QED BY <1>4, <2>1, <2>2 DEF selectSource
<1>5. CASE publishSnapshot
  <2>1. Saved(k) /\ checkpoint[k].run \in Runs
    BY <1>0, <1>5 DEF publishSnapshot, At, CallFollowsJournal, CommitAt, After, CheckpointIsCaptured
  <2>2. CASE /\ bindCaptureRun(k) /\ UNCHANGED <<runs, call>>
             /\ checkpoint' = [checkpoint EXCEPT ![k] = [@ EXCEPT !.submitted = TRUE, !.content = capturedProvider(k)]]
    <3>1. Saved(k)'
      BY <1>5, <2>1, <2>2, CheckpointMarks DEF sameCheckpoints, sameCheckpoint, Saved
    <3>2. call.at = "publish"
      BY <1>5 DEF publishSnapshot, At
    <3> QED BY <1>0, <2>2, <3>1, <3>2 DEF CallFollowsJournal, CommitAt, Before, After, Saved
  <2>3. CASE /\ runs' = [runs EXCEPT ![runOf(k)] = [@ EXCEPT !.state = "finalizing", !.key = k]]
             /\ Goes("wait") /\ UNCHANGED checkpoint
    <3>1. runs'[checkpoint[k].run].key = k
      BY <1>0, <2>1, <2>3 DEF runOf, RunRecord
    <3> QED BY <1>3, <2>1, <2>3, <3>1 DEF After, Saved
  <2>4. CASE runs[runOf(k)].key = k /\ Goes("wait") /\ UNCHANGED <<runs, checkpoint>>
    BY <1>3, <2>1, <2>4 DEF After, Saved, runOf
  <2> QED BY <1>0, <1>5, <2>2, <2>3, <2>4 DEF publishSnapshot
<1>6. CASE publicationFails \/ outcomeUnknown \/ reopenFails
  BY <1>2, <1>6, CallReturns DEF publicationFails, outcomeUnknown, reopenFails
<1>7. CASE recordPublished
  <2>1. Saved(k)
    BY <1>0, <1>7 DEF recordPublished, At, CallFollowsJournal, CommitAt, After
  <2>2. Saved(k)'
    BY <1>0, <1>7, <2>1 DEF recordPublished, Saved, Checkpoint
  <2>3. Goes("published") \/ Goes("reopen")
    BY <1>7 DEF recordPublished
  <2> QED BY <1>3, <2>2, <2>3 DEF After
<1>8. CASE resume
  <2>1. Saved(k)
    BY <1>0, <1>8 DEF resume, At, CallFollowsJournal, CommitAt, After
  <2>2. Saved(k)'
    BY <1>0, <1>8, <2>1, CheckpointMarks DEF resume, sameCheckpoints, sameCheckpoint, Saved
  <2>3. call' = Idle \/ Goes("reopened") \/ Goes("resume") \/ Goes("result")
    BY <1>8, CallReturns DEF resume
  <2> QED BY <1>2, <1>3, <2>2, <2>3 DEF After
<1> QED BY <1>4, <1>5, <1>6, <1>7, <1>8

\* A destruction has no checkpoint in hand.
LEMMA CallDestroy ==
  ASSUME PublicationInvariant,
         \/ \E abandon \in BOOLEAN : destroySandbox(abandon)
         \/ abortRuns \/ cleanupOwnedCaptures \/ removeWorkspace
  PROVE  CallFollowsJournal'
<1> USE DEF PublicationInvariant
<1>1. call'.op \in {"idle", "destroy"}
  <2>1. CASE \E abandon \in BOOLEAN : destroySandbox(abandon)
    BY <2>1 DEF destroySandbox
  <2>2. CASE abortRuns \/ cleanupOwnedCaptures \/ removeWorkspace
    BY <2>2, CallGoes, CallReturns DEF abortRuns, cleanupOwnedCaptures, removeWorkspace, At, DestroySteps
  <2> QED BY <2>1, <2>2
<1> QED BY <1>1 DEF CallFollowsJournal, CommitAt

\* Every step keeps the call and the journal in agreement.
LEMMA CallNextAgrees == PublicationInvariant /\ [Next]_vars => CallFollowsJournal'
  BY CallCheckout, CallCommit, CallCapture, CallPublish, CallDestroy, CallOthers DEF Next, CallNext

\* The invariant of publication holds initially and every step keeps it.
LEMMA PublicationInit == Init => PublicationInvariant
<1> SUFFICES ASSUME Init PROVE PublicationInvariant
  OBVIOUS
<1>1. TypeOK
  BY TypeInit
<1>2. Len(history) = 1 /\ history[1].key = 0
  BY DEF Init
<1>3. RevisionFollowsBase
  BY <1>2 DEF RevisionFollowsBase
<1>4. CapturesAreSound /\ CheckpointIsCaptured /\ ReportIsPublished
  BY DEF Init, CapturesAreSound, CheckpointIsCaptured, ReportIsPublished, Saved
<1>5. KeyNamesRun /\ FinalizedIsPublished
  BY DEF Init, KeyNamesRun, FinalizedIsPublished
<1>6. CallFollowsJournal
  BY DEF Init, CallFollowsJournal, CommitAt, Idle
<1> QED BY <1>1, <1>3, <1>4, <1>5, <1>6 DEF PublicationInvariant

\* Every step keeps the invariant of publication.
LEMMA PublicationNext == PublicationInvariant /\ [Next]_vars => PublicationInvariant'
  BY TypeNext, DataNext, CallNextAgrees DEF PublicationInvariant, Data

\* The invariant of publication holds in every reachable state.
LEMMA PublicationHolds == Spec => []PublicationInvariant
  BY PublicationInit, PublicationNext, PTL DEF Spec

\* Every reachable state is well typed, whatever the constants.
THEOREM TypeCorrect == Spec => []TypeOK
<1>1. PublicationInvariant => TypeOK
  BY DEF PublicationInvariant
<1> QED BY <1>1, PublicationHolds, PTL

\* A checkpoint is published once, with exactly what was captured for it, and
\* reports that revision, also when the host repeats old keys.
THEOREM PublishedOnce == Spec => []CheckpointPublishedOnce
<1>1. PublicationInvariant => CheckpointPublishedOnce
  <2> SUFFICES ASSUME PublicationInvariant PROVE CheckpointPublishedOnce
    OBVIOUS
  <2> USE DEF PublicationInvariant
  <2>0. DOMAIN history = 1 .. Len(history) /\ \A i \in 1 .. Len(history) : history[i].key \in Keys \cup {0}
    BY HistoryTypes DEF Revision
  <2>1. ASSUME NEW i \in DOMAIN history, NEW j \in DOMAIN history,
               history[i].key # 0, history[i].key = history[j].key
        PROVE  i = j
    BY <2>0, <2>1 DEF RevisionFollowsBase
  <2>2. ASSUME NEW i \in DOMAIN history, history[i].key # 0
        PROVE  history[i].content = capture[history[i].key].content
    BY <2>0, <2>2 DEF RevisionFollowsBase, CheckpointIsCaptured
  <2>3. ASSUME NEW k \in Keys, checkpoint[k].published # 0
        PROVE  history[checkpoint[k].published].content = capture[k].content
    BY <2>3 DEF ReportIsPublished, CheckpointIsCaptured
  <2> QED BY <2>1, <2>2, <2>3 DEF CheckpointPublishedOnce
<1> QED BY <1>1, PublicationHolds, PTL

-----------------------------------------------------------------------------
(* Ownership *)

sameUnused == \A l \in Keys : Unused(l)' <=> Unused(l)

\* No run comes to exist or to life.
noRunBegins ==
  \A r \in Runs : /\ runs'[r].state # "none" => runs[r].state # "none"
                  /\ Live(r)' => Live(r)

\* A checkpoint that is saved has a capture, so only one saved checkpoint is the latest.
LEMMA LatestIsOne ==
  ASSUME CheckpointIsCaptured, NEW k \in Keys, NEW l \in Keys,
         Saved(k), Saved(l), Latest(k), Latest(l)
  PROVE  k = l
<1>1. ~Unused(k) /\ ~Unused(l)
  BY DEF CheckpointIsCaptured
<1>2. ~(l > k) /\ ~(k > l)
  BY <1>1 DEF Latest
<1>3. k \in Nat /\ l \in Nat
  BY Numbers
<1> QED BY <1>2, <1>3

\* A session without a run has no checkpoint.
LEMMA NothingSaved ==
  ASSUME CheckpointIsCaptured, SessionFollowsCall, session.run = NoRun, NEW k \in Keys
  PROVE  ~Saved(k)
  BY DEF CheckpointIsCaptured, SessionFollowsCall

\* A step that leaves the session and the checkpoints alone, and begins no run, keeps what is known of the
\* owners while its call stays or ends.
LEMMA OwnersStay ==
  ASSUME TypeOK, Owners, UNCHANGED session, sameCheckpoints, sameUnused, noRunBegins,
         call' = call \/ call' = Idle
  PROVE  Owners'
<1> USE DEF Owners
<1>0. session.pending \in Keys \cup {0} /\ (call.op = "commit" => call.key \in Keys)
  BY CallShape DEF TypeOK, Session
<1>1. \A k \in Keys : /\ Saved(k)' <=> Saved(k)
                      /\ Latest(k)' <=> Latest(k)
                      /\ checkpoint'[k].published = checkpoint[k].published
                      /\ checkpoint'[k].run = checkpoint[k].run
  BY DEF sameCheckpoints, sameCheckpoint, sameUnused, Saved, Latest
<1>2. SessionFollowsCall'
  BY DEF SessionFollowsCall, sameUnused, Idle
<1>3. CommitIsLatest'
  <2>1. CASE call' = call
    BY <1>0, <1>1, <2>1 DEF CommitIsLatest, CommitAt
  <2>2. CASE call' = Idle
    BY <1>0, <1>1, <2>2 DEF CommitIsLatest, CommitAt, Idle
  <2> QED BY <2>1, <2>2
<1>4. SessionIsLatest'
  BY <1>1 DEF SessionIsLatest
<1>5. LiveIsKnown'
  <2>1. \A k \in Keys : k \in Runs
    BY Numbers
  <2>2. call'.op # "destroy" \/ call'.op = call.op
    BY DEF Idle
  <2> QED BY <1>1, <2>1, <2>2 DEF LiveIsKnown, noRunBegins
<1> QED BY <1>2, <1>3, <1>4, <1>5

\* Nothing has been destroyed, and is not being destroyed, unless the call or the phase says so.
LEMMA NotDestroyed ==
  ASSUME call'.op # "destroy", session'.phase # "destroyed"
  PROVE  DestructionDone' /\ DestroyedOwnsNothing'
  BY DEF DestructionDone, DestroyedOwnsNothing

\* A session with a call is neither new nor destroyed.
LEMMA CallIsOpen ==
  ASSUME TypeOK, Owners, call # Idle
  PROVE  session.phase \notin {"none", "destroyed"}
  BY DEF Owners, SessionFollowsCall

\* The steps of a capture are of the latest key, which has no checkpoint yet.
LEMMA OwnersCapture ==
  ASSUME PublicationInvariant, Owners, allocate \/ retained \/ captureWorkspace \/ seal \/ discard
  PROVE  Owners' /\ DestructionDone' /\ DestroyedOwnsNothing'
<1> USE DEF PublicationInvariant, Owners
<1>0. /\ call.op = "commit" /\ call.at \in Before /\ call.key \in Keys
      /\ UNCHANGED <<session, checkpoint, runs>>
  BY CallShape DEF allocate, retained, captureWorkspace, seal, discard, At, Before
<1>1. PICK k \in Keys : k = call.key
  BY <1>0
<1>2. call' = Idle \/ (call'.op = "commit" /\ call'.key = k /\ call'.at \in Before)
  BY <1>0, <1>1, CallGoes, CallReturns
  DEF allocate, retained, captureWorkspace, seal, discard, CommitSteps, Before
<1>3. session.phase \notin {"none", "destroyed"} /\ session.run # NoRun /\ Latest(k) /\ ~Saved(k)
  BY <1>0, <1>1, CallIsOpen DEF Idle, CommitIsLatest, CallFollowsJournal, CommitAt
<1>4. UNCHANGED capture \/ captureMoves(k)
  BY <1>1, CaptureMoves, RetainedMoves
<1>5. Latest(k)'
  BY <1>3, <1>4, Numbers DEF Latest, captureMoves, Unused
<1>6. call'.op # "destroy"
  BY <1>2 DEF Idle
<1>7. DestructionDone' /\ DestroyedOwnsNothing'
  BY <1>0, <1>3, <1>6, NotDestroyed
<1>8. SessionFollowsCall'
  BY <1>0, <1>2, <1>3 DEF SessionFollowsCall, Idle
<1>9. CommitIsLatest'
  <2>1. session.pending \in {0, k} /\ (session.pending # 0 => Saved(session.pending))
    BY <1>0, <1>1 DEF CommitIsLatest
  <2>2. session.pending = 0
    BY <1>3, <2>1
  <2> QED BY <1>0, <1>2, <1>3, <1>5, <2>2
          DEF CommitIsLatest, CommitAt, Idle, Before, Reopening, Pending
<1>10. SessionIsLatest'
  <2> SUFFICES ASSUME NEW l \in Keys, Saved(l)', Latest(l)'
               PROVE  session'.run = checkpoint'[l].run \/ (session'.run = l /\ checkpoint'[l].published # 0)
    BY DEF SessionIsLatest
  <2>1. Saved(l) /\ ~Unused(l) /\ l # k
    BY <1>0, <1>3 DEF Saved, CheckpointIsCaptured
  <2>2. ~(l > k)
    BY <1>3, <2>1 DEF Latest
  <2>3. CASE UNCHANGED capture
    BY <1>0, <2>1, <2>3 DEF SessionIsLatest, Latest, Unused
  <2>4. CASE captureMoves(k)
    <3>1. ~Unused(k)'
      BY <2>4 DEF captureMoves, Unused
    <3>2. k \in Nat /\ l \in Nat
      BY Numbers
    <3>3. k > l
      BY <2>1, <2>2, <3>2
    <3> QED BY <3>1, <3>3 DEF Latest
  <2> QED BY <1>4, <2>3, <2>4
<1>11. LiveIsKnown'
  BY <1>0, <1>6 DEF LiveIsKnown, Live
<1> QED BY <1>7, <1>8, <1>9, <1>10, <1>11

\* Checking out records its run only after the run was opened.
LEMMA OwnersCheckout ==
  ASSUME PublicationInvariant, Owners, checkoutSandbox \/ hydrate \/ hydrateWorkspace
  PROVE  Owners' /\ DestructionDone' /\ DestroyedOwnsNothing'
<1> USE DEF PublicationInvariant, Owners
<1>0. session \in Session /\ UNCHANGED <<checkpoint, capture, runs>>
  BY DEF TypeOK, checkoutSandbox, hydrate, hydrateWorkspace
<1>2. CASE checkoutSandbox
  <2>1. /\ session.run = NoRun /\ session.pending = 0 /\ call = Idle
        /\ session'.run = NoRun /\ session'.pending = 0 /\ session'.phase = "opening"
        /\ call'.op = "checkout" /\ call'.at = "open"
    BY <1>0, <1>2 DEF checkoutSandbox, SessionFollowsCall, Session
  <2>2. SessionFollowsCall'
    BY <1>0, <2>1 DEF SessionFollowsCall, Unused
  <2>3. CommitIsLatest'
    BY <2>1 DEF CommitIsLatest, CommitAt
  <2>4. SessionIsLatest'
    BY <1>0, <2>1, NothingSaved DEF SessionIsLatest, Saved
  <2>5. LiveIsKnown'
    BY <1>0, <1>2, <2>1, Numbers DEF LiveIsKnown, Live, checkoutSandbox
  <2> QED BY <2>1, <2>2, <2>3, <2>4, <2>5, NotDestroyed
<1>3. CASE hydrate /\ At("checkout", "opened")
  <2>1. /\ session.run = NoRun /\ session'.run = 0 /\ session.phase = "opening"
        /\ session'.pending = session.pending /\ session'.phase = session.phase
    BY <1>0, <1>3 DEF hydrate, At, SessionFollowsCall, Session
  <2>2. call'.op = "checkout" /\ call'.at = "hydrate"
    BY <1>3, CallGoes DEF hydrate, At, CheckoutSteps
  <2>3. session.pending = 0
    BY <1>0, <2>1, NothingSaved DEF CommitIsLatest, Session
  <2>4. 0 # NoRun
    BY Numbers
  <2>5. SessionFollowsCall'
    BY <2>1, <2>2, <2>4 DEF SessionFollowsCall
  <2>6. CommitIsLatest'
    BY <2>1, <2>2, <2>3 DEF CommitIsLatest, CommitAt
  <2>7. SessionIsLatest'
    BY <1>0, <2>1, NothingSaved DEF SessionIsLatest, Saved
  <2>8. LiveIsKnown'
    BY <1>0, <2>1, <2>3, Numbers DEF LiveIsKnown, Live
  <2> QED BY <2>1, <2>2, <2>5, <2>6, <2>7, <2>8, NotDestroyed
<1>4. CASE hydrate /\ At("checkout", "hydrated")
  <2>1. /\ session.run = 0 /\ session'.run = 0 /\ session'.phase = "active"
        /\ session'.pending = session.pending /\ call' = Idle
    BY <1>0, <1>4, CallReturns DEF hydrate, At, SessionFollowsCall, Session
  <2>2. 0 # NoRun /\ call'.op = "idle"
    BY <2>1, Numbers DEF Idle
  <2>3. SessionFollowsCall'
    BY <2>1, <2>2 DEF SessionFollowsCall
  <2>4. CommitIsLatest'
    BY <1>0, <2>1, <2>2 DEF CommitIsLatest, CommitAt, Saved, Latest, Unused
  <2>5. SessionIsLatest'
    BY <1>0, <2>1 DEF SessionIsLatest, Saved, Latest, Unused
  <2>6. LiveIsKnown'
    BY <1>0, <2>1, <2>2 DEF LiveIsKnown, Live
  <2> QED BY <2>1, <2>2, <2>3, <2>4, <2>5, <2>6, NotDestroyed
<1>5. CASE hydrateWorkspace
  <2>1. /\ UNCHANGED session /\ session.phase = "opening" /\ session.run = 0
        /\ call.op = "checkout"
    BY <1>5 DEF hydrateWorkspace, At, SessionFollowsCall
  <2>2. call'.op = "checkout" /\ call'.at = "hydrated"
    BY <1>5, CallGoes DEF hydrateWorkspace, At, CheckoutSteps
  <2>3. 0 # NoRun
    BY Numbers
  <2>4. SessionFollowsCall'
    BY <2>1, <2>2, <2>3 DEF SessionFollowsCall
  <2>5. CommitIsLatest'
    BY <1>0, <2>1, <2>2 DEF CommitIsLatest, CommitAt, Saved, Latest, Unused
  <2>6. SessionIsLatest'
    BY <1>0, <2>1 DEF SessionIsLatest, Saved, Latest, Unused
  <2>7. LiveIsKnown'
    BY <1>0, <2>1, <2>2 DEF LiveIsKnown, Live
  <2> QED BY <2>1, <2>2, <2>4, <2>5, <2>6, <2>7, NotDestroyed
<1> QED BY <1>2, <1>3, <1>4, <1>5 DEF hydrate

\* The run of a checkout is not recorded yet when it is opened, that of a reopening is the pending one.
LEMMA OwnersOpen ==
  ASSUME PublicationInvariant, Owners, open
  PROVE  Owners' /\ DestructionDone' /\ DestroyedOwnsNothing'
<1> USE DEF PublicationInvariant, Owners
<1>0. /\ UNCHANGED <<session, checkpoint, capture>> /\ runs \in [Runs -> RunRecord]
      /\ session.phase \notin {"none", "destroyed"} /\ call.key \in Runs
      /\ call'.op = call.op /\ call'.key = call.key /\ call'.at = "opened"
  BY CallGoes, CallShape, CallIsOpen, Numbers
  DEF open, TypeOK, Idle, At, CommitSteps, CheckoutSteps, After
<1>1. PICK k \in Runs : k = call.key
  BY <1>0
<1>2. \A r \in Runs \ {k} : runs'[r] = runs[r]
  BY <1>0, <1>1 DEF open, opened
<1>3. CASE At("checkout", "open")
  <2>1. /\ k = 0 /\ session.phase = "opening" /\ session.run = NoRun /\ call.op = "checkout"
    BY <1>1, <1>3, CallShape DEF At, SessionFollowsCall
  <2>2. SessionFollowsCall'
    BY <1>0, <2>1 DEF SessionFollowsCall, Unused
  <2>3. CommitIsLatest'
    BY <1>0, <2>1 DEF CommitIsLatest, CommitAt, Saved, Latest, Unused
  <2>4. SessionIsLatest'
    BY <1>0 DEF SessionIsLatest, Saved, Latest, Unused
  <2>5. LiveIsKnown'
    BY <1>0, <1>2, <2>1, Numbers DEF LiveIsKnown, Live
  <2> QED BY <1>0, <2>1, <2>2, <2>3, <2>4, <2>5, NotDestroyed
<1>4. CASE At("commit", "reopen")
  <2>1. /\ k \in Keys /\ session.pending = k /\ checkpoint[k].published # 0 /\ call.op = "commit"
        /\ session.run # NoRun /\ k # 0
    BY <1>1, <1>4, CallShape, Numbers DEF At, CommitIsLatest, CommitAt, Pending, Reopening
  <2>2. SessionFollowsCall'
    BY <1>0, <2>1 DEF SessionFollowsCall
  <2>3. CommitIsLatest'
    BY <1>0, <1>1, <1>4, <2>1
    DEF CommitIsLatest, CommitAt, Saved, Latest, Unused, Pending, Reopening, At
  <2>4. SessionIsLatest'
    BY <1>0 DEF SessionIsLatest, Saved, Latest, Unused
  <2>5. LiveIsKnown'
    BY <1>0, <1>2, <2>1, Numbers DEF LiveIsKnown, Live
  <2> QED BY <1>0, <2>1, <2>2, <2>3, <2>4, <2>5, NotDestroyed
<1> QED BY <1>3, <1>4 DEF open

\* A commit starts on the latest key if the host repeats none after it used a later one.
LEMMA OwnersCommit ==
  ASSUME PublicationInvariant, Owners, ~LateRepeats, NEW k \in Keys, commitSandbox(k)
  PROVE  Owners' /\ DestructionDone' /\ DestroyedOwnsNothing'
<1> USE DEF PublicationInvariant, Owners
<1>0. /\ UNCHANGED <<session, checkpoint, capture, runs>> /\ call = Idle
      /\ session.phase \notin {"none", "destroyed"} /\ session.pending \in {0, k}
      /\ call'.op = "commit" /\ call'.key = k /\ call'.at \in {"pending", "capture"}
  BY DEF commitSandbox
<1>1. Latest(k)
  BY DEF commitSandbox, Latest, Unused
<1>2. session.run # NoRun
  <2>1. CASE Saved(k)
    BY <2>1, NothingSaved
  <2>2. CASE ~Saved(k)
    BY <2>2 DEF commitSandbox, Saved
  <2> QED BY <2>1, <2>2
<1>3. SessionFollowsCall'
  BY <1>0, <1>2 DEF SessionFollowsCall
<1>4. CommitIsLatest'
  BY <1>0, <1>1, <1>2 DEF CommitIsLatest, CommitAt, Saved, Latest, Unused, Pending, Reopening
<1>5. SessionIsLatest'
  BY <1>0 DEF SessionIsLatest, Saved, Latest, Unused
<1>6. LiveIsKnown'
  BY <1>0 DEF LiveIsKnown, Live
<1> QED BY <1>0, <1>3, <1>4, <1>5, <1>6, NotDestroyed

\* What is known of the owners after a step of a commit.
LEMMA OwnersOfCommit ==
  ASSUME TypeOK, Owners, NEW k \in Keys, call.key = k, call.op = "commit",
         call' = Idle \/ (call'.op = "commit" /\ call'.key = k),
         session'.phase \notin {"none", "destroyed"}, session'.run # NoRun,
         session'.pending \in {0, k}, Saved(k)', UNCHANGED capture,
         CommitAt({"publish", "wait"})' => checkpoint'[k].published = 0,
         CommitAt(Reopening)' => checkpoint'[k].published # 0,
         CommitAt(Pending)' => session'.pending = k,
         CommitAt({"resume"})' => session'.run = k,
         SessionIsLatest', LiveIsKnown'
  PROVE  Owners' /\ DestructionDone' /\ DestroyedOwnsNothing'
<1>1. Latest(k)'
  BY DEF Owners, CommitIsLatest, Latest, Unused
<1>2. /\ call'.op # "destroy" /\ (call'.op # "commit" => call'.op = "idle")
      /\ call'.op = "commit" => call'.key = k
  BY DEF Idle
<1>3. SessionFollowsCall'
  BY <1>2 DEF SessionFollowsCall
<1>4. CommitIsLatest'
  <2>1. session'.pending # 0 => checkpoint'[session'.pending].saved /\ Latest(session.pending)'
    BY <1>1 DEF Saved, Latest, Unused
  <2>2. call'.op = "commit" => Latest(call.key)' /\ session'.pending \in {0, call'.key}
    BY <1>1, <1>2 DEF Latest, Unused
  <2> QED BY <1>2, <2>1, <2>2 DEF CommitIsLatest, CommitAt, Saved
<1> QED BY <1>2, <1>3, <1>4, NotDestroyed DEF Owners

\* A checkpoint is pending from the moment it is saved until its session is on the reopened run.
LEMMA OwnersPublish ==
  ASSUME PublicationInvariant, Owners,
         \/ selectSource \/ publishSnapshot \/ publicationFails \/ outcomeUnknown \/ recordPublished
         \/ resume \/ reopenFails
  PROVE  Owners' /\ DestructionDone' /\ DestroyedOwnsNothing'
<1> USE DEF PublicationInvariant, Owners
<1>a. /\ checkpoint \in [Keys -> Checkpoint] /\ runs \in [Runs -> RunRecord] /\ session \in Session
      /\ call.key \in Keys /\ call.op = "commit" /\ UNCHANGED capture
  BY CallShape DEF TypeOK, selectSource, publishSnapshot, publicationFails, outcomeUnknown,
                   recordPublished, resume, reopenFails, At
<1>b. PICK k \in Keys : k = call.key
  BY <1>a
<1>0. /\ checkpoint \in [Keys -> Checkpoint] /\ runs \in [Runs -> RunRecord] /\ session \in Session
      /\ call.op = "commit" /\ call.key = k /\ UNCHANGED capture
  BY <1>a, <1>b
<1>1. /\ session.phase \notin {"none", "destroyed"} /\ session.run # NoRun
      /\ Latest(k) /\ session.pending \in {0, k}
  BY <1>0, CallIsOpen DEF Idle, CommitIsLatest
<1>2. \A s \in CommitSteps : Goes(s) => call'.op = "commit" /\ call'.key = k /\ call'.at = s
  BY <1>0, CallGoes
<1>3. ASSUME UNCHANGED runs, sameCheckpoints, session'.run = session.run, session'.pending = session.pending,
             session'.phase \notin {"none", "destroyed"}, call' = Idle, Saved(k)
      PROVE  Owners' /\ DestructionDone' /\ DestroyedOwnsNothing'
  <2>1. SessionIsLatest'
    BY <1>0, <1>3 DEF SessionIsLatest, sameCheckpoints, sameCheckpoint, Saved, Latest, Unused
  <2>2. call'.op = "idle"
    BY <1>3 DEF Idle
  <2>3. LiveIsKnown'
    BY <1>1, <1>3, <2>2 DEF LiveIsKnown, sameCheckpoints, sameCheckpoint, Live
  <2>4. Saved(k)'
    BY <1>3 DEF sameCheckpoints, sameCheckpoint, Saved
  <2>5. ~CommitAt({"publish", "wait"})' /\ ~CommitAt(Reopening)' /\ ~CommitAt(Pending)' /\ ~CommitAt({"resume"})'
    BY <2>2 DEF CommitAt
  <2> QED BY <1>0, <1>1, <1>3, <2>1, <2>3, <2>4, <2>5, OwnersOfCommit
<1>4. CASE selectSource
  <2>1. CASE At("commit", "select")
    <3>1. ~Saved(k) /\ ~Unused(k)
      BY <1>0, <2>1 DEF At, CallFollowsJournal, CommitAt, Before
    <3>2. /\ checkpoint'[k].saved /\ checkpoint'[k].run = session.run
          /\ checkpoint'[k].published = checkpoint[k].published
          /\ \A l \in Keys \ {k} : checkpoint'[l] = checkpoint[l]
      <4> DEFINE c == [checkpoint[k] EXCEPT !.saved = TRUE, !.run = session.run, !.content = capture[k].content]
      <4>1. c.saved /\ c.run = session.run /\ c.published = checkpoint[k].published
        BY <1>0 DEF Checkpoint
      <4>2. checkpoint' = [checkpoint EXCEPT ![k] = c]
        BY <1>0, <1>4, <2>1 DEF selectSource, At
      <4> HIDE DEF c
      <4> QED BY <1>0, <4>1, <4>2
    <3>3. UNCHANGED <<session, runs>> /\ call'.op = "commit" /\ call'.key = k /\ call'.at = "pending"
      BY <1>2, <1>4, <2>1 DEF selectSource, At, CommitSteps, After
    <3>4. SessionIsLatest'
      BY <1>0, <3>2, <3>3 DEF SessionIsLatest, Saved, Latest, Unused
    <3>5. LiveIsKnown'
      BY <1>0, <3>2, <3>3 DEF LiveIsKnown, Live
    <3>6. Saved(k)'
      BY <3>2 DEF Saved
    <3>7. ~CommitAt({"publish", "wait"})' /\ ~CommitAt(Reopening)' /\ ~CommitAt(Pending)' /\ ~CommitAt({"resume"})'
      BY <3>3 DEF CommitAt, Reopening, Pending
    <3> QED BY <1>0, <1>1, <3>3, <3>4, <3>5, <3>6, <3>7, OwnersOfCommit
  <2>2. CASE At("commit", "pending")
    <3>1. Saved(k)
      BY <1>0, <2>2 DEF At, CallFollowsJournal, CommitAt, After
    <3>2. /\ UNCHANGED <<checkpoint, runs>> /\ call'.op = "commit" /\ call'.key = k
          /\ call'.at = (IF checkpoint[k].published # 0 THEN "reopen" ELSE "publish")
      BY <1>0, <1>2, <1>4, <2>2 DEF selectSource, At, CommitSteps, After
    <3>3. session'.pending = k /\ session'.run = session.run /\ session'.phase = session.phase
      BY <1>0, <1>4, <2>2 DEF selectSource, At, Session
    <3>4. SessionIsLatest'
      BY <1>0, <3>2, <3>3 DEF SessionIsLatest, Saved, Latest, Unused
    <3>5. LiveIsKnown'
      BY <1>0, <1>1, <3>2, <3>3 DEF LiveIsKnown, Live
    <3>6. Saved(k)'
      BY <3>1, <3>2 DEF Saved
    <3>7. /\ CommitAt({"publish", "wait"})' => checkpoint'[k].published = 0
          /\ CommitAt(Reopening)' => checkpoint'[k].published # 0
          /\ ~CommitAt({"resume"})'
      BY <3>2 DEF CommitAt, Reopening
    <3> QED BY <1>0, <1>1, <3>2, <3>3, <3>4, <3>5, <3>6, <3>7, OwnersOfCommit
  <2> QED BY <1>4, <2>1, <2>2 DEF selectSource
<1>5. CASE publishSnapshot
  <2>1. /\ CommitAt({"publish"}) /\ UNCHANGED session /\ checkpoint[k].published = 0 /\ session.pending = k
        /\ Saved(k) /\ checkpoint[k].run \in Runs
    BY <1>0, <1>5 DEF publishSnapshot, At, CommitAt, CommitIsLatest, Pending, CallFollowsJournal, After, CheckpointIsCaptured
  <2>2. sameCheckpoints
    BY <1>0, <1>5, CheckpointMarks DEF publishSnapshot, sameCheckpoints, sameCheckpoint
  <2>3. noRunBegins
    <3>1. CASE UNCHANGED runs
      BY <3>1 DEF noRunBegins, Live
    <3>2. CASE runs[runOf(k)].state = "active" /\ runs' = [runs EXCEPT ![runOf(k)] = [@ EXCEPT !.state = "finalizing", !.key = k]]
      BY <1>0, <3>2 DEF noRunBegins, Live, RunRecord
    <3> QED BY <1>0, <1>5, <3>1, <3>2 DEF publishSnapshot
  <2>4. call'.op = "commit" /\ call'.key = k /\ call'.at \in {"publish", "wait"}
    <3>1. CASE UNCHANGED call
      BY <1>0, <2>1, <3>1 DEF CommitAt
    <3> QED BY <1>2, <1>5, <3>1 DEF publishSnapshot, CommitSteps, After
  <2>5. Saved(k)' /\ checkpoint'[k].published = 0
    BY <2>1, <2>2 DEF sameCheckpoints, sameCheckpoint, Saved
  <2>6. SessionIsLatest'
    BY <1>0, <2>1, <2>2 DEF SessionIsLatest, sameCheckpoints, sameCheckpoint, Saved, Latest, Unused
  <2>7. LiveIsKnown'
    BY <1>0, <2>1, <2>2, <2>3, <2>4, Numbers DEF LiveIsKnown, sameCheckpoints, sameCheckpoint, noRunBegins
  <2>8. ~CommitAt(Reopening)' /\ ~CommitAt({"resume"})'
    BY <2>4 DEF CommitAt, Reopening
  <2> QED BY <1>0, <1>1, <2>1, <2>4, <2>5, <2>6, <2>7, <2>8, OwnersOfCommit
<1>6. CASE publicationFails
  <2>1. /\ CommitAt({"publish", "wait"}) /\ UNCHANGED <<checkpoint, runs>> /\ call' = Idle
        /\ session'.run = session.run /\ session'.pending = 0 /\ session'.phase = "failed"
    BY <1>0, <1>6, CallReturns DEF publicationFails, At, CommitAt, Session
  <2>2. Saved(k) /\ checkpoint[k].published = 0
    BY <1>0, <2>1 DEF CommitAt, CallFollowsJournal, After, CommitIsLatest
  <2>3. runs[k].state = "none"
    BY <2>2 DEF LiveIsKnown
  <2>4. SessionIsLatest'
    BY <1>0, <2>1 DEF SessionIsLatest, Saved, Latest, Unused
  <2>5. LiveIsKnown'
    BY <1>1, <2>1, <2>3 DEF LiveIsKnown, Live
  <2>6. Saved(k)' /\ call'.op = "idle"
    BY <2>1, <2>2 DEF Saved, Idle
  <2>7. ~CommitAt({"publish", "wait"})' /\ ~CommitAt(Reopening)' /\ ~CommitAt(Pending)' /\ ~CommitAt({"resume"})'
    BY <2>6 DEF CommitAt
  <2> QED BY <1>0, <1>1, <2>1, <2>4, <2>5, <2>6, <2>7, OwnersOfCommit
<1>7. CASE outcomeUnknown \/ reopenFails
  <2>1. /\ UNCHANGED <<checkpoint, runs>> /\ call' = Idle /\ call.at \in After
        /\ session'.run = session.run /\ session'.pending = session.pending
        /\ session'.phase \in {"uncertain", "published-needs-reopen"}
    BY <1>0, <1>7, CallReturns DEF outcomeUnknown, reopenFails, At, After, Session
  <2>2. Saved(k) /\ sameCheckpoints
    BY <1>0, <2>1 DEF CommitAt, CallFollowsJournal, sameCheckpoints, sameCheckpoint
  <2> QED BY <1>3, <2>1, <2>2
<1>8. CASE recordPublished
  <2>0. Saved(k) /\ session.pending = k /\ UNCHANGED runs
    BY <1>0, <1>8 DEF recordPublished, At, CallFollowsJournal, CommitIsLatest, CommitAt, After, Pending
  <2>1. CASE At("commit", "wait")
    <3>1. /\ UNCHANGED session /\ call'.op = "commit" /\ call'.key = k /\ call'.at = "published"
      BY <1>2, <1>8, <2>1 DEF recordPublished, At, CommitSteps, After
    <3>2. PICK v : v = revisionOf(runOf(k))
      OBVIOUS
    <3>3. v \in Nat \ {0}
      <4>1. runOf(k) \in Runs
        BY <2>0 DEF runOf, CheckpointIsCaptured
      <4>2. runs[runOf(k)].base \in 1 .. Len(history)
        BY <1>0, <1>8, <2>1, <4>1 DEF recordPublished, At, KeyNamesRun
      <4>3. runs[runOf(k)].base \in Nat \ {0}
        BY <4>2
      <4> QED BY <3>2, <4>3 DEF revisionOf
    <3>4. checkpoint' = [checkpoint EXCEPT ![k].published = v]
      BY <1>0, <1>8, <2>1, <3>2 DEF recordPublished, At
    <3>5. /\ checkpoint'[k].published = v /\ checkpoint'[k].saved = checkpoint[k].saved
          /\ checkpoint'[k].run = checkpoint[k].run
          /\ \A l \in Keys \ {k} : checkpoint'[l] = checkpoint[l]
      BY <1>0, <3>4 DEF Checkpoint
    <3>6. Saved(k)' /\ checkpoint'[k].published # 0
      BY <2>0, <3>3, <3>5 DEF Saved
    <3>7. SessionIsLatest'
      <4> SUFFICES ASSUME NEW l \in Keys, Saved(l)', Latest(l)'
                   PROVE  \/ session'.run = checkpoint'[l].run
                          \/ session'.run = l /\ checkpoint'[l].published # 0
        BY DEF SessionIsLatest
      <4>1. Saved(l) /\ Latest(l) /\ checkpoint'[l].run = checkpoint[l].run
        BY <1>0, <3>5 DEF Saved, Latest, Unused
      <4>2. checkpoint[l].published # 0 => checkpoint'[l].published # 0
        BY <3>5, <3>6
      <4> QED BY <3>1, <4>1, <4>2 DEF SessionIsLatest
    <3>8. LiveIsKnown'
      BY <2>0, <3>1, <3>5, <3>6 DEF LiveIsKnown, Live
    <3>9. ~CommitAt({"publish", "wait"})' /\ ~CommitAt({"resume"})'
      BY <3>1 DEF CommitAt
    <3> QED BY <1>0, <1>1, <2>0, <3>1, <3>6, <3>7, <3>8, <3>9, OwnersOfCommit
  <2>2. CASE At("commit", "published")
    <3>1. /\ UNCHANGED checkpoint /\ call'.op = "commit" /\ call'.key = k /\ call'.at = "reopen"
          /\ session'.phase = "published-needs-reopen" /\ session'.run = session.run
          /\ session'.pending = session.pending
      BY <1>0, <1>2, <1>8, <2>2 DEF recordPublished, At, CommitSteps, After, Session
    <3>2. Saved(k)' /\ checkpoint'[k].published # 0
      BY <1>0, <2>0, <2>2, <3>1 DEF Saved, CommitIsLatest, CommitAt, At, Reopening
    <3>3. SessionIsLatest'
      BY <1>0, <3>1 DEF SessionIsLatest, Saved, Latest, Unused
    <3>4. LiveIsKnown'
      BY <1>1, <2>0, <3>1 DEF LiveIsKnown, Live
    <3>5. ~CommitAt({"publish", "wait"})' /\ ~CommitAt({"resume"})'
      BY <3>1 DEF CommitAt
    <3> QED BY <1>0, <1>1, <2>0, <3>1, <3>2, <3>3, <3>4, <3>5, OwnersOfCommit
  <2> QED BY <1>8, <2>1, <2>2 DEF recordPublished
<1>9. CASE resume
  <2>0. Saved(k)
    BY <1>0, <1>9 DEF resume, At, CallFollowsJournal, CommitAt, After
  <2>1. sameCheckpoints /\ UNCHANGED runs
    BY <1>9, CheckpointMarks DEF resume
  <2>2. Saved(k)' /\ checkpoint'[k].published # 0
    <3>1. checkpoint[k].published # 0
      BY <1>0, <1>9 DEF resume, At, CommitIsLatest, CommitAt, Reopening
    <3> QED BY <2>0, <2>1, <3>1 DEF sameCheckpoints, sameCheckpoint, Saved
  <2>3. CASE At("commit", "reopen") \/ At("commit", "opened")
    <3>1. UNCHANGED session /\ session.pending = k
      BY <1>0, <1>9, <2>3 DEF resume, At, CommitIsLatest, CommitAt, Pending
    <3>2. call'.op = "commit" /\ call'.key = k /\ call'.at = "reopened"
      BY <1>2, <1>9, <2>3 DEF resume, At, CommitSteps, After
    <3>3. SessionIsLatest'
      BY <1>0, <2>1, <3>1 DEF SessionIsLatest, sameCheckpoints, sameCheckpoint, Saved, Latest, Unused
    <3>4. LiveIsKnown'
      BY <1>1, <2>1, <3>1, <3>2 DEF LiveIsKnown, sameCheckpoints, sameCheckpoint, Live
    <3>5. ~CommitAt({"publish", "wait"})' /\ ~CommitAt({"resume"})'
      BY <3>2 DEF CommitAt
    <3> QED BY <1>0, <1>1, <2>2, <3>1, <3>2, <3>3, <3>4, <3>5, OwnersOfCommit
  <2>4. CASE At("commit", "reopened")
    <3>1. session'.run = k /\ session'.pending = k /\ session'.phase = session.phase /\ session.pending = k
      <4>1. session.pending = k
        BY <1>0, <2>4 DEF At, CommitIsLatest, CommitAt, Pending
      <4> QED BY <1>0, <1>9, <2>4, <4>1 DEF resume, At, Session
    <3>2. call'.op = "commit" /\ call'.key = k /\ call'.at = "resume"
      BY <1>2, <1>9, <2>4 DEF resume, At, CommitSteps, After
    <3>3. SessionIsLatest'
      <4> SUFFICES ASSUME NEW l \in Keys, Saved(l)', Latest(l)'
                   PROVE  session'.run = l /\ checkpoint'[l].published # 0
        BY DEF SessionIsLatest
      <4>1. Saved(l) /\ Latest(l)
        BY <1>0, <2>1 DEF sameCheckpoints, sameCheckpoint, Saved, Latest, Unused
      <4>2. l = k
        BY <1>1, <2>0, <4>1, LatestIsOne
      <4> QED BY <2>2, <3>1, <4>2
    <3>4. LiveIsKnown'
      <4>1. session.run = checkpoint[k].run \/ session.run = k
        BY <1>1, <2>0 DEF SessionIsLatest
      <4>2. runs[checkpoint[k].run].state = "finalized"
        <5>1. checkpoint[k].published # 0
          BY <2>1, <2>2 DEF sameCheckpoints, sameCheckpoint
        <5> QED BY <5>1 DEF ReportIsPublished
      <4>3. \A l \in Keys : runs'[l].state # "none" => checkpoint'[l].published # 0
        BY <2>1 DEF LiveIsKnown, sameCheckpoints, sameCheckpoint
      <4>4. ASSUME NEW r \in Runs, Live(r)' PROVE r = k
        BY <1>1, <2>1, <3>1, <4>1, <4>2, <4>4 DEF LiveIsKnown, Live
      <4> QED BY <3>1, <4>3, <4>4 DEF LiveIsKnown
    <3>5. ~CommitAt({"publish", "wait"})' /\ k # NoRun
      BY <3>2, Numbers DEF CommitAt
    <3> QED BY <1>0, <1>1, <2>2, <3>1, <3>2, <3>3, <3>4, <3>5, OwnersOfCommit
  <2>5. CASE At("commit", "resume")
    <3>1. session.run = k /\ session.pending = k
      BY <1>0, <2>5 DEF At, CommitIsLatest, CommitAt, Pending
    <3>2. CASE runs[k].state = "active" /\ runs[k].base = checkpoint[k].published
      <4>1. /\ session'.run = k /\ session'.pending = 0 /\ session'.phase = "active"
            /\ call'.op = "commit" /\ call'.key = k /\ call'.at = "result"
        BY <1>0, <1>2, <1>9, <2>5, <3>1, <3>2 DEF resume, At, CommitSteps, After, Session
      <4>2. SessionIsLatest'
        BY <1>0, <2>1, <3>1, <4>1 DEF SessionIsLatest, sameCheckpoints, sameCheckpoint, Saved, Latest, Unused
      <4>3. LiveIsKnown'
        BY <1>1, <2>1, <3>1, <4>1 DEF LiveIsKnown, sameCheckpoints, sameCheckpoint, Live
      <4>4. ~CommitAt({"publish", "wait"})' /\ ~CommitAt(Pending)' /\ k # NoRun
        BY <4>1, Numbers DEF CommitAt, Pending
      <4> QED BY <1>0, <1>1, <2>2, <4>1, <4>2, <4>3, <4>4, OwnersOfCommit
    <3>3. CASE ~(runs[k].state = "active" /\ runs[k].base = checkpoint[k].published)
      <4>1. /\ session'.run = session.run /\ session'.pending = session.pending
            /\ session'.phase = "published-needs-reopen" /\ call' = Idle
        BY <1>0, <1>9, <2>5, <3>3, CallReturns DEF resume, At, Session
      <4> QED BY <1>3, <2>0, <2>1, <4>1
    <3> QED BY <3>2, <3>3
  <2>6. CASE At("commit", "result")
    <3>1. UNCHANGED session /\ call' = Idle
      BY <1>9, <2>6, CallReturns DEF resume, At
    <3> QED BY <1>1, <1>3, <2>0, <2>1, <3>1
  <2> QED BY <1>9, <2>3, <2>4, <2>5, <2>6 DEF resume
<1> QED BY <1>4, <1>5, <1>6, <1>7, <1>8, <1>9

\* A destruction that starts knows every live run.
LEMMA OwnersDestroy ==
  ASSUME PublicationInvariant, Owners, NEW abandon \in BOOLEAN, destroySandbox(abandon)
  PROVE  Owners' /\ DestructionDone' /\ DestroyedOwnsNothing'
<1> USE DEF PublicationInvariant, Owners
<1>0. /\ session \in Session /\ UNCHANGED <<capture, runs>> /\ call = Idle
      /\ session.phase \notin {"none", "destroyed"}
      /\ call'.op = "destroy" /\ call'.at = "abort"
  BY DEF destroySandbox, TypeOK
<1>1. sameCheckpoints
  BY DestroyMarks
<1>2. session'.phase = session.phase /\ session'.pending = session.pending
  BY <1>0 DEF destroySandbox, Session
<1>3. DestructionDone' /\ DestroyedOwnsNothing'
  BY <1>0, <1>2 DEF DestructionDone, DestroyedOwnsNothing
<1>4. CommitIsLatest'
  <2>1. session.pending # 0 => session.pending \in Keys /\ Saved(session.pending) /\ Latest(session.pending)
    BY <1>0 DEF CommitIsLatest, Session
  <2>2. \A k \in Keys : (Saved(k)' <=> Saved(k)) /\ (Latest(k)' <=> Latest(k))
    BY <1>0, <1>1 DEF sameCheckpoints, sameCheckpoint, Saved, Latest, Unused
  <2>3. session'.pending # 0 => Saved(session.pending)' /\ Latest(session.pending)'
    BY <1>2, <2>1, <2>2 DEF Saved, Latest
  <2> QED BY <1>0, <2>3 DEF CommitIsLatest, CommitAt
<1>5. CASE session.pending # 0
  <2>1. PICK k \in Keys : k = session.pending
    BY <1>0, <1>5 DEF Session
  <2>2. Saved(k) /\ Latest(k) /\ checkpoint[k].published # 0 /\ session.run # NoRun
    BY <1>5, <2>1, NothingSaved DEF CommitIsLatest, destroySandbox
  <2>3. session.run = checkpoint[k].run \/ session.run = k
    BY <2>2 DEF SessionIsLatest
  <2>4. session'.run = k \/ (session'.run = session.run /\ runs[k].state = "none")
    BY <1>0, <1>5, <2>1 DEF destroySandbox, recordedOpen, Session
  <2>5. k # NoRun
    BY Numbers
  <2>6. SessionFollowsCall'
    BY <1>0, <1>2, <2>2, <2>4, <2>5 DEF SessionFollowsCall
  <2>7. SessionIsLatest'
    <3> SUFFICES ASSUME NEW l \in Keys, Saved(l)', Latest(l)'
                 PROVE  \/ session'.run = checkpoint'[l].run
                        \/ session'.run = l /\ checkpoint'[l].published # 0
      BY DEF SessionIsLatest
    <3>1. Saved(l) /\ Latest(l)
      BY <1>0, <1>1 DEF sameCheckpoints, sameCheckpoint, Saved, Latest, Unused
    <3>2. l = k
      BY <2>2, <3>1, LatestIsOne
    <3> QED BY <1>1, <2>2, <2>3, <2>4, <3>2 DEF sameCheckpoints, sameCheckpoint
  <2>8. LiveIsKnown'
    <3>1. runs[checkpoint[k].run].state = "finalized"
      BY <2>2 DEF ReportIsPublished
    <3>2. \A l \in Keys : runs'[l].state # "none" => checkpoint'[l].published # 0
      BY <1>0, <1>1 DEF LiveIsKnown, sameCheckpoints, sameCheckpoint
    <3>3. ASSUME NEW r \in Runs, Live(r)' PROVE r = session'.run
      <4>1. r = k
        BY <1>0, <2>1, <2>2, <2>3, <3>1, <3>3 DEF LiveIsKnown, Live
      <4> QED BY <1>0, <2>4, <3>3, <4>1 DEF Live
    <3> QED BY <3>2, <3>3 DEF LiveIsKnown
  <2> QED BY <1>3, <1>4, <2>6, <2>7, <2>8
<1>6. CASE session.pending = 0
  <2>1. \/ session'.run = session.run /\ ~(session.phase = "opening" /\ session.run = NoRun /\ recordedOpen(0))
        \/ session'.run = 0 /\ session.phase = "opening" /\ session.run = NoRun
    BY <1>0, <1>6 DEF destroySandbox, Session
  <2>2. 0 # NoRun
    BY Numbers
  <2>3. SessionFollowsCall'
    BY <1>0, <1>2, <2>1, <2>2 DEF SessionFollowsCall, Unused
  <2>4. SessionIsLatest'
    <3>1. CASE session'.run = session.run
      BY <1>0, <1>1, <3>1 DEF SessionIsLatest, sameCheckpoints, sameCheckpoint, Saved, Latest, Unused
    <3>2. CASE session.run = NoRun
      BY <1>1, <3>2, NothingSaved DEF SessionIsLatest, sameCheckpoints, sameCheckpoint, Saved
    <3> QED BY <2>1, <3>1, <3>2
  <2>5. LiveIsKnown'
    <3>1. \A l \in Keys : runs'[l].state # "none" => checkpoint'[l].published # 0
      BY <1>0, <1>1 DEF LiveIsKnown, sameCheckpoints, sameCheckpoint
    <3>2. ASSUME NEW r \in Runs, Live(r)' PROVE r = session'.run
      <4>1. r # NoRun /\ Live(r)
        BY <1>0, <3>2, Numbers DEF Live
      <4>2. r = session.run \/ (r = 0 /\ session.run = NoRun /\ session.phase = "opening")
        BY <1>6, <4>1 DEF LiveIsKnown
      <4> QED BY <2>1, <4>1, <4>2 DEF Live, recordedOpen
    <3> QED BY <3>1, <3>2 DEF LiveIsKnown
  <2> QED BY <1>3, <1>4, <2>3, <2>4, <2>5
<1> QED BY <1>5, <1>6

\* Runs are aborted before captures are cleaned, and captures before the directory is removed.
LEMMA OwnersRemove ==
  ASSUME PublicationInvariant, Owners, DestructionDone, DestroyedOwnsNothing,
         abortRuns \/ cleanupOwnedCaptures \/ removeWorkspace
  PROVE  Owners' /\ DestructionDone' /\ DestroyedOwnsNothing'
<1> USE DEF PublicationInvariant, Owners
<1>0. /\ call.op = "destroy" /\ session.phase \notin {"none", "destroyed"} /\ UNCHANGED checkpoint
      /\ runs \in [Runs -> RunRecord] /\ capture \in [Keys -> Allocation] /\ session \in Session
  <2>1. call.op = "destroy" /\ UNCHANGED checkpoint
    BY DEF abortRuns, cleanupOwnedCaptures, removeWorkspace, At
  <2>2. call # Idle
    BY <2>1 DEF Idle
  <2> QED BY <2>1, <2>2, CallIsOpen DEF TypeOK
<1>1. sameCheckpoints
  BY <1>0 DEF sameCheckpoints, sameCheckpoint
<1>2. \A s \in DestroySteps : Goes(s) => call'.op = "destroy" /\ call'.at = s
  BY <1>0, CallGoes
<1>3. \A r \in Runs : Live(r) => r = session.run
  BY <1>0 DEF LiveIsKnown
<1>4. ASSUME UNCHANGED session, sameUnused, noRunBegins, call'.op = "destroy"
      PROVE  Owners' /\ DestroyedOwnsNothing'
  <2>1. SessionFollowsCall'
    BY <1>0, <1>4 DEF SessionFollowsCall, sameUnused
  <2>2. CommitIsLatest'
    BY <1>0, <1>4 DEF CommitIsLatest, CommitAt, Latest, Saved, sameUnused
  <2>3. SessionIsLatest'
    BY <1>0, <1>4 DEF SessionIsLatest, Latest, Saved, sameUnused
  <2>4. LiveIsKnown'
    BY <1>0, <1>3, <1>4, Numbers DEF LiveIsKnown, noRunBegins
  <2>5. DestroyedOwnsNothing'
    BY <1>0, <1>4 DEF DestroyedOwnsNothing
  <2> QED BY <2>1, <2>2, <2>3, <2>4, <2>5
<1>5. CASE abortRuns
  <2>0. UNCHANGED <<session, capture>> /\ call.at = "abort"
    BY <1>5 DEF abortRuns, At
  <2>1. sameUnused
    BY <2>0 DEF sameUnused, Unused
  <2>2. ASSUME NEW r \in ownedRuns, runs[r].state = "active", runs' = [runs EXCEPT ![r].state = "aborted"],
               UNCHANGED call
        PROVE  Owners' /\ DestructionDone' /\ DestroyedOwnsNothing'
    <3>1. noRunBegins
      BY <1>0, <2>2 DEF noRunBegins, Live, RunRecord
    <3>2. DestructionDone'
      BY <2>0, <2>2 DEF DestructionDone
    <3> QED BY <1>0, <1>4, <2>0, <2>1, <2>2, <3>1, <3>2
  <2>3. CASE UNCHANGED runs /\ call' = Idle
    <3>1. noRunBegins /\ call'.op = "idle"
      BY <2>3 DEF noRunBegins, Live, Idle
    <3> QED BY <1>0, <1>1, <2>0, <2>1, <2>3, <3>1, OwnersStay, NotDestroyed
  <2>4. CASE /\ UNCHANGED runs /\ Goes("clean")
             /\ \A r \in ownedRuns : runs[r].state # "active"
             /\ ~\E r \in ownedRuns : runs[r].state = "finalizing"
    <3>1. noRunBegins /\ call'.op = "destroy" /\ call'.at = "clean"
      BY <1>2, <2>4 DEF noRunBegins, Live, DestroySteps
    <3>2. \A r \in Runs : r = session.run => r \in ownedRuns
      BY Numbers DEF ownedRuns
    <3>3. \A r \in Runs : ~Live(r)
      BY <1>3, <2>4, <3>2 DEF Live
    <3>4. DestructionDone'
      BY <2>4, <3>1, <3>3 DEF DestructionDone, Live
    <3> QED BY <1>4, <2>0, <2>1, <3>1, <3>4
  <2> QED BY <1>5, <2>2, <2>3, <2>4, CallReturns DEF abortRuns
<1>6. CASE cleanupOwnedCaptures
  <2>0. UNCHANGED <<session, runs>> /\ call.at = "clean"
    BY <1>6 DEF cleanupOwnedCaptures, At
  <2>1. noRunBegins
    BY <2>0 DEF noRunBegins, Live
  <2>2. \A r \in Runs : ~Live(r)
    BY <1>0, <2>0 DEF DestructionDone
  <2>3. ASSUME NEW k \in Keys, capture[k].state # "none", NEW c \in Allocation, c.state # "none",
               capture' = [capture EXCEPT ![k] = c], UNCHANGED call
        PROVE  Owners' /\ DestructionDone' /\ DestroyedOwnsNothing'
    <3>1. sameUnused
      BY <1>0, <2>3 DEF sameUnused, Unused
    <3>2. DestructionDone'
      BY <2>0, <2>2, <2>3 DEF DestructionDone, Live
    <3> QED BY <1>0, <1>4, <2>0, <2>1, <2>3, <3>1, <3>2
  <2>4. \A k \in Keys : LET d == discarding(capture[k], TRUE)
                            e == discarded(capture[k], TRUE)
                        IN  /\ d \in Allocation /\ e \in Allocation
                            /\ d.state # "none" /\ e.state # "none"
    BY <1>0 DEF discarding, discarded, Allocation
  <2>5. ASSUME NEW k \in Keys, capture[k].state # "none", UNCHANGED call,
               \/ capture' = [capture EXCEPT ![k] = discarding(capture[k], TRUE)]
               \/ capture' = [capture EXCEPT ![k] = discarded(capture[k], TRUE)]
        PROVE  Owners' /\ DestructionDone' /\ DestroyedOwnsNothing'
    BY <2>3, <2>4, <2>5
  <2>6. CASE (\A k \in Keys : capture[k].state \in {"none", "cleaned"}) /\ Goes("remove") /\ UNCHANGED capture
    <3>1. sameUnused /\ call'.op = "destroy" /\ call'.at = "remove"
      BY <1>2, <2>6 DEF sameUnused, Unused, DestroySteps
    <3>2. DestructionDone'
      BY <2>0, <2>2, <2>6, <3>1 DEF DestructionDone, Live
    <3> QED BY <1>4, <2>0, <2>1, <3>1, <3>2
  <2> QED BY <1>6, <2>5, <2>6 DEF cleanupOwnedCaptures
<1>7. CASE removeWorkspace
  <2>0. UNCHANGED <<capture, runs>> /\ call.at \in {"remove", "end"}
    BY <1>7 DEF removeWorkspace, At
  <2>1. noRunBegins /\ sameUnused
    BY <2>0 DEF noRunBegins, Live, sameUnused, Unused
  <2>2. (\A r \in Runs : ~Live(r)) /\ \A k \in Keys : capture[k].state \in {"none", "cleaned"}
    BY <1>0, <2>0 DEF DestructionDone
  <2>3. CASE At("destroy", "remove")
    <3>1. call'.op = "destroy" /\ call'.at = "end" /\ tree' = Absent /\ UNCHANGED session
      BY <1>2, <1>7, <2>3 DEF removeWorkspace, At, DestroySteps
    <3>2. DestructionDone'
      BY <2>0, <2>2, <3>1 DEF DestructionDone, Live
    <3> QED BY <1>4, <2>1, <3>1, <3>2
  <2>4. CASE At("destroy", "end")
    <3>1. /\ session'.phase = "destroyed" /\ session'.pending = 0 /\ session'.run = session.run
          /\ call' = Idle /\ UNCHANGED tree
      BY <1>0, <1>7, <2>4, CallReturns DEF removeWorkspace, At, Session
    <3>2. call'.op = "idle" /\ tree = Absent
      BY <2>4, <3>1 DEF Idle, DestructionDone, At
    <3>3. SessionFollowsCall'
      BY <2>0, <3>1, <3>2 DEF SessionFollowsCall, Unused
    <3>4. CommitIsLatest'
      BY <3>1, <3>2 DEF CommitIsLatest, CommitAt
    <3>5. SessionIsLatest'
      BY <1>0, <2>0, <3>1 DEF SessionIsLatest, Saved, Latest, Unused
    <3>6. LiveIsKnown'
      BY <1>0, <2>0, <2>2 DEF LiveIsKnown, Live
    <3>7. DestroyedOwnsNothing'
      BY <2>0, <2>2, <3>1, <3>2 DEF DestroyedOwnsNothing, Live, CapturesAreSound
    <3>8. DestructionDone'
      BY <3>2 DEF DestructionDone
    <3> QED BY <3>3, <3>4, <3>5, <3>6, <3>7, <3>8
  <2> QED BY <1>7, <2>3, <2>4 DEF removeWorkspace
<1> QED BY <1>5, <1>6, <1>7

\* Everyone else, and a call that is interrupted, leave the owners alone; an agent edits only a directory
\* that is there.
LEMMA OwnersOthers ==
  ASSUME PublicationInvariant, Owners, DestructionDone, DestroyedOwnsNothing,
         \/ interrupted \/ agentEdits \/ push \/ UNCHANGED vars
         \/ \E r \in Runs : expireActiveRun(r) \/ processOperation(r)
  PROVE  Owners' /\ DestructionDone' /\ DestroyedOwnsNothing'
<1> USE DEF PublicationInvariant
<1>0. UNCHANGED <<session, checkpoint, capture>> /\ runs \in [Runs -> RunRecord]
  BY DEF interrupted, agentEdits, push, vars, expireActiveRun, processOperation, TypeOK
<1>1. sameCheckpoints /\ sameUnused
  BY <1>0 DEF sameCheckpoints, sameCheckpoint, sameUnused, Unused
<1>2. noRunBegins
  <2>1. CASE UNCHANGED runs
    BY <2>1 DEF noRunBegins, Live
  <2>2. ASSUME NEW r \in Runs, runs[r].state \in {"active", "finalizing"}, NEW s \in {"expired", "finalized", "failed"},
               runs' = [runs EXCEPT ![r].state = s]
        PROVE  noRunBegins
    BY <1>0, <2>2 DEF noRunBegins, Live, RunRecord
  <2> QED BY <2>1, <2>2 DEF interrupted, agentEdits, push, vars, expireActiveRun, processOperation
<1>3. call' = call \/ call' = Idle
  BY CallReturns DEF interrupted, agentEdits, push, vars, expireActiveRun, processOperation
<1>4. Owners'
  BY <1>0, <1>1, <1>2, <1>3, OwnersStay
<1>5. UNCHANGED tree \/ tree # Absent
  BY DEF interrupted, agentEdits, push, vars, expireActiveRun, processOperation
<1>6. DestroyedOwnsNothing'
  BY <1>0, <1>2, <1>5 DEF DestroyedOwnsNothing, noRunBegins, Live
<1>7. DestructionDone'
  <2>1. CASE call' = Idle
    BY <2>1 DEF Idle, DestructionDone
  <2>2. CASE call' = call
    BY <1>0, <1>2, <1>5, <2>2 DEF DestructionDone, noRunBegins
  <2> QED BY <1>3, <2>1, <2>2
<1> QED BY <1>4, <1>6, <1>7

\* Every step of a host that repeats no key after it used a later one keeps the invariant of ownership.
LEMMA OwnershipNext == ~LateRepeats /\ OwnershipInvariant /\ [Next]_vars => OwnershipInvariant'
  BY PublicationNext, OwnersCapture, OwnersCheckout, OwnersOpen, OwnersCommit, OwnersPublish, OwnersDestroy,
     OwnersRemove, OwnersOthers
  DEF OwnershipInvariant, Next, CallNext

\* The invariant of ownership holds initially.
LEMMA OwnershipInit == Init => OwnershipInvariant
<1> SUFFICES ASSUME Init PROVE OwnershipInvariant
  OBVIOUS
<1>1. \A k \in Keys : ~Saved(k) /\ Unused(k) /\ runs[k].state = "none"
  BY Numbers DEF Init, Saved, Unused
<1>2. \A r \in Runs : ~Live(r)
  BY DEF Init, Live
<1>3. /\ session.phase = "none" /\ session.run = NoRun /\ session.pending = 0
      /\ call = Idle /\ call.op = "idle"
  BY DEF Init, Idle
<1>4. SessionFollowsCall
  BY <1>1, <1>3 DEF SessionFollowsCall
<1>5. CommitIsLatest /\ SessionIsLatest
  BY <1>1, <1>3 DEF CommitIsLatest, SessionIsLatest, CommitAt
<1>6. LiveIsKnown
  BY <1>1, <1>2 DEF LiveIsKnown
<1>7. DestructionDone /\ DestroyedOwnsNothing
  BY <1>3 DEF DestructionDone, DestroyedOwnsNothing
<1> QED BY <1>4, <1>5, <1>6, <1>7, PublicationInit DEF OwnershipInvariant, Owners

\* A destroyed session leaves nothing behind, if the host repeats no key after it used a later one: no
\* interruption loses sight of a run that was opened.
THEOREM DestroyedLeavesNothing == ~LateRepeats => (Spec => []DestroyedOwnsNothing)
<1> SUFFICES ASSUME ~LateRepeats PROVE Spec => []DestroyedOwnsNothing
  OBVIOUS
<1>1. OwnershipInvariant /\ [Next]_vars => OwnershipInvariant'
  BY OwnershipNext
<1>2. OwnershipInvariant => DestroyedOwnsNothing
  BY DEF OwnershipInvariant
<1> QED BY <1>1, <1>2, OwnershipInit, PTL DEF Spec
=============================================================================
