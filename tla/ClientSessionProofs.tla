-------------------------- MODULE ClientSessionProofs --------------------------
(***************************************************************************)
(* Proofs about ClientSessions for any set of contents, any number of runs *)
(* and faults, and any choice among the four libraries.                    *)
(***************************************************************************)
EXTENDS ClientSessions, FiniteSetTheorems, SequenceTheorems, TLAPS

-----------------------------------------------------------------------------
(* Types *)

CallRecord == [at: {"idle", "waiting", "polling"}, first: BOOLEAN]
ServerRecord == [workspace: {"none", "creating", "created", "failed"}, runs: [Runs -> RunRecord]]

ServiceTypes == server \in ServerRecord /\ answers \in [Keys -> Answer] /\ late \subseteq Request /\ faults \in Nat
SessionTypes == journal \in Journal /\ call \in CallRecord /\ (call.at = "idle" => call = Idle)

-----------------------------------------------------------------------------
(* The inductive invariant: what holds for every library *)

Opening == journal.pending.kind = "run:open"
IsAnswered(k) == answers[k] # NoAnswer
Carried(k) == \E q \in late : q.key = k

\* The newest run: the one that the pending open was answered with, or the one of the journal.
Current ==
    IF Opening /\ IsAnswered(journal.pending.key) THEN answers[journal.pending.key].run ELSE journal.run

\* Every request on its way was given up at the cost of a fault, so that a key is always free.
FewLate == IsFiniteSet(late) /\ Cardinality(late) + faults <= MaxFaults

\* A request on its way is an attempt of the pending command, or its answer is known already.
LateIsHarmless ==
    \A q \in late : IF Pending /\ q.key = journal.pending.key THEN q = Asked ELSE IsAnswered(q.key)

\* The server cannot know a command that was not sent, or whose only attempt is the one being awaited.
Unsent == journal.pending.phase # "sent" \/ (call.at = "waiting" /\ call.first)
UnsentIsUnknown ==
    Pending /\ Unsent => ~IsAnswered(journal.pending.key) /\ ~Carried(journal.pending.key)

CallIsPending ==
    /\ call.at # "idle" => Pending /\ journal.pending.phase = "sent"
    /\ call.at = "polling" => journal.pending.op
    /\ Pending /\ journal.pending.op => IsAnswered(journal.pending.key)

\* The pending command is about the run of the journal and, if it seals, about its capture.
CommandFits ==
    Pending =>
       /\ Asked \in Request
       /\ IF journal.pending.kind \in {"workspace:create", "run:open"}
          THEN journal.pending.run = 0 /\ journal.pending.sub = 0
          ELSE journal.pending.run = journal.run /\ journal.run # 0
       /\ journal.pending.kind = "submission:seal" => journal.pending.content = journal.capture

\* Runs are opened one after the other, and only the newest can live.
RunsInOrder ==
    \A r \in Runs : /\ server.runs[r].state # "none" <=> r <= Current
                    /\ server.runs[r].state \in Live => r = Current

\* A run is opened when the one before has ended, and has no submission and nothing published before its opening is learned.
OpeningIsNext ==
    Opening =>
       /\ journal.run # 0 => server.runs[journal.run].state \in Terminal
       /\ IsAnswered(journal.pending.key) => Current \in Runs /\ journal.run < Current /\ server.runs[Current].subs = <<>>
            /\ server.runs[Current].source = 0

Sealed(r, i) == i \in 1 .. Len(server.runs[r].subs) /\ server.runs[r].subs[i].sealed
NothingSealed == \A i \in Nat : ~Sealed(journal.run, i)

\* Sealed content is the captured one, until the capture is given up.
Captured ==
    journal.run # 0 /\ (journal.cleanup = "pending" \/ (library = "python" /\ journal.capture # NoContent))
    => \A i \in Nat : Sealed(journal.run, i) => server.runs[journal.run].subs[i].content = journal.capture

SharedInvariant ==
    /\ ServiceTypes /\ SessionTypes
    /\ FewLate /\ LateIsHarmless /\ UnsentIsUnknown /\ CallIsPending /\ CommandFits
    /\ RunsInOrder /\ OpeningIsNext /\ Captured

-----------------------------------------------------------------------------
(* What holds for one library *)

Ended == journal.run # 0 /\ server.runs[journal.run].state \in Terminal

\* No content of the run was sealed, and none is about to be.
Unsealed == journal.pending.kind # "submission:seal" /\ (journal.run # 0 => NothingSealed)

\* The state that the journal shows is behind the server's, never ahead; a capture precedes a seal.
TypescriptKnows ==
    library \in {"typescript", "mcp"} =>
       /\ journal.view # "none" => journal.run # 0
       /\ journal.view \in Terminal => Ended
       /\ journal.stage \in {"finalized", "published-needs-reopen"} => Ended
       /\ journal.flow \in {"submit", "finalize", "checkpoint"} => journal.run # 0
       /\ journal.pending.kind = "abort" /\ IsAnswered(journal.pending.key) => Ended
       /\ journal.cleanup = "pending" /\ journal.capture = NoContent => Unsealed

\* The submission that the later phases work on.
SubmissionKnown == journal.sub \in 1 .. Len(server.runs[journal.run].subs)

OnRunPhases == {"hydrating", "ready", "submission-create", "uploading", "sealing", "finalizing"}

PythonKnows ==
    library = "python" =>
       /\ journal.stage \in {"creating", "opening"} => journal.run = 0
       /\ journal.stage \in OnRunPhases => journal.run # 0
       /\ journal.stage = "published-needs-reopen" => Ended
       /\ journal.stage \in {"hydrating", "ready"} => Unsealed
       /\ journal.pending.kind = "workspace:create" => journal.stage = "creating"
       /\ Opening => journal.stage \in {"opening", "published-needs-reopen"}
       /\ journal.pending.kind = "submission:create" =>
             (IsAnswered(journal.pending.key) =>
                answers[journal.pending.key].sub \in 1 .. Len(server.runs[journal.run].subs))
       /\ journal.pending.kind = "submission:file" => journal.stage = "uploading"
       /\ journal.pending.kind = "submission:seal" => journal.stage = "sealing"
       /\ journal.pending.kind = "finalize" =>
             (journal.pending.sub # 0 => journal.pending.sub \in 1 .. Len(server.runs[journal.run].subs))
       /\ journal.mode = "read-write" /\ journal.stage \in {"uploading", "sealing", "finalizing"} => SubmissionKnown

\* What a run published is one of its sealed submissions, so the captured content, and a run whose
\* base is the session's own last publication is based on it.
PythonPublishes ==
    library = "python" =>
       /\ journal.run # 0 /\ server.runs[journal.run].source # 0
          => Sealed(journal.run, server.runs[journal.run].source)
       /\ (Opening /\ IsAnswered(journal.pending.key)) \/ journal.stage = "hydrating"
          => (server.runs[Current].own /\ journal.capture # NoContent => server.runs[Current].base = journal.capture)

PhpKnows ==
    library = "php" =>
       /\ journal.stage \in {"create", "open"} => journal.run = 0
       /\ journal.stage \in {"hydrate", "ready", "heartbeat", "capture", "submission", "upload", "seal", "finalize", "abort"}
          => journal.run # 0
       /\ journal.stage = "reopen" => Ended
       /\ journal.stage \in {"hydrate", "ready", "heartbeat", "capture"} => Unsealed
       /\ journal.pending.kind = "workspace:create" => journal.stage = "create"
       /\ journal.pending.kind = "run:heartbeat" => journal.stage = "heartbeat"
       /\ Pending /\ journal.flow = "checkpoint" /\ journal.stage = "reopen" /\ ~journal.doubt
          => journal.pending.phase # "sent"

LibraryInvariant == library \in {"typescript", "mcp", "python", "php"} /\ TypescriptKnows /\ PythonKnows /\ PythonPublishes /\ PhpKnows

SessionInvariant == SharedInvariant /\ LibraryInvariant

-----------------------------------------------------------------------------
(* Records, keys and runs *)

SubRecord == [sealed: BOOLEAN, content: Contents \cup {NoContent}]

\* The records that the initial states and the steps are made of have their types.
LEMMA Basics ==
    /\ Idle \in CallRecord /\ NoAnswer \in Answer
    /\ NoRun \in RunRecord /\ NoRun.state = "none" /\ NoRun.subs = <<>> /\ NoRun.source = 0
    /\ NoCommand.kind = "none" /\ NoCommand \notin Command
    /\ [sealed |-> FALSE, content |-> NoContent] \in SubRecord
    /\ MaxRuns \in Nat /\ MaxFaults \in Nat /\ 1 \in Runs /\ Runs \subseteq Nat /\ 0 \notin Runs
<1>1. Idle \in CallRecord /\ NoCommand.kind = "none" /\ [sealed |-> FALSE, content |-> NoContent] \in SubRecord
    BY DEF Idle, CallRecord, NoCommand, SubRecord
<1>2. NoCommand \notin Command
    <2>1. SUFFICES ASSUME NoCommand \in Command PROVE FALSE
        OBVIOUS
    <2>2. DOMAIN NoCommand = {"kind"}
        BY DEF NoCommand
    <2>3. "key" \in DOMAIN NoCommand
        BY <2>1 DEF Command
    <2>4. QED BY <2>2, <2>3
<1>3. MaxRuns \in Nat /\ MaxFaults \in Nat /\ 1 \in Runs /\ Runs \subseteq Nat /\ 0 \notin Runs
    BY SessionBounds DEF Runs
<1>4. NoAnswer \in Answer
    BY <1>3 DEF NoAnswer, Answer
<1>5. NoRun \in RunRecord /\ NoRun.state = "none" /\ NoRun.subs = <<>> /\ NoRun.source = 0
    <2>1. (CHOOSE c \in Contents : TRUE) \in Contents
        BY SessionBounds
    <2>2. QED BY <2>1 DEF NoRun, RunRecord, RunStates
<1>6. QED BY <1>1, <1>2, <1>3, <1>4, <1>5

\* A pending command is a complete one.
LEMMA PendingIsCommand ==
    ASSUME SessionTypes, Pending
    PROVE  /\ journal.pending \in Command /\ journal.pending.key \in Keys
           /\ Asked.kind = journal.pending.kind /\ Asked.key = journal.pending.key /\ Asked.run = journal.pending.run
           /\ Asked.sub = journal.pending.sub /\ Asked.content = journal.pending.content
<1>1. journal.pending \in Command
    BY DEF SessionTypes, Journal, Pending
<1>2. QED BY <1>1 DEF Command, Asked

\* Every new command finds a key that no request on its way carries (Unused).
LEMMA FreeKey ==
    ASSUME ServiceTypes, FewLate
    PROVE  Unused \in Keys /\ ~Carried(Unused)
<1>1. \E k \in Keys : \A q \in late : q.key # k
    <2>1. SUFFICES ASSUME \A k \in Keys : \E q \in late : q.key = k PROVE FALSE
        OBVIOUS
    <2>2. DEFINE g == [k \in Keys |-> CHOOSE q \in late : q.key = k]
    <2>3. \A k \in Keys : g[k] \in late /\ g[k].key = k
        BY <2>1
    <2>4. g \in Injection(Keys, late)
        <3>1. g \in [Keys -> late]
            BY <2>3
        <3>2. \A a, b \in DOMAIN g : g[a] = g[b] => a = b
            BY <2>3
        <3>3. QED BY <3>1, <3>2 DEF Injection, IsInjective
    <2>5. HIDE DEF g
    <2>6. IsFiniteSet(late) /\ Cardinality(Keys) <= Cardinality(late)
        <3>1. IsFiniteSet(late)
            BY DEF FewLate
        <3>2. QED BY <2>4, <3>1, FS_Injection
    <2>7. Cardinality(Keys) = MaxFaults + 1
        BY FS_Interval, Basics DEF Keys
    <2>8. Cardinality(late) \in Nat
        BY <2>6, FS_CardinalityType
    <2>9. Cardinality(late) + faults <= MaxFaults /\ faults \in Nat
        BY DEF FewLate, ServiceTypes
    <2>10. QED BY <2>6, <2>7, <2>8, <2>9, Basics
<1>2. QED BY <1>1 DEF Unused, Carried

\* The number of the next run (NextRun) when runs have been opened one after the other.
LEMMA NextRunNumber ==
    ASSUME NEW n \in 0 .. MaxRuns, \A r \in Runs : server.runs[r].state # "none" <=> r <= n
    PROVE  NextRun = n + 1
<1>1. {r \in Runs : server.runs[r].state # "none"} = 1 .. n
    BY Basics DEF Runs
<1>2. Cardinality(1 .. n) = n
    <2>1. 1 \in Int /\ n \in Int
        BY Basics
    <2>2. Cardinality(1 .. n) = IF 1 > n THEN 0 ELSE n - 1 + 1
        BY <2>1, FS_Interval
    <2>3. QED BY <2>2, Basics
<1>3. QED BY <1>1, <1>2 DEF NextRun

\* The fields of the server.
LEMMA ServerFields ==
    ASSUME ServiceTypes
    PROVE  /\ server = [workspace |-> server.workspace, runs |-> server.runs]
           /\ server.workspace \in {"none", "creating", "created", "failed"}
           /\ server.runs \in [Runs -> RunRecord]
BY DEF ServiceTypes, ServerRecord

\* The fields of one run.
LEMMA RunFields ==
    ASSUME NEW run \in RunRecord
    PROVE  /\ run.subs \in Seq(SubRecord) /\ Len(run.subs) \in Nat /\ run.base \in Contents /\ run.own \in BOOLEAN
           /\ run.source \in Nat /\ DOMAIN run.subs = 1 .. Len(run.subs)
           /\ \A i \in 1 .. Len(run.subs) : run.subs[i] \in SubRecord
<1>1. run.subs \in Seq(SubRecord) /\ run.base \in Contents /\ run.own \in BOOLEAN /\ run.source \in Nat
    BY DEF RunRecord, SubRecord
<1>2. QED BY <1>1, LenProperties

-----------------------------------------------------------------------------
(* What a command that is accepted now does to the server *)

\* The record of a run before and after a command on it: nothing sealed is changed, only a seal seals,
\* and what it seals has the content that it asks for.
RunStep(q, old, new) ==
    /\ new.state \in {"active", "finalizing", "aborted"} /\ new.base = old.base /\ new.own = old.own
    /\ Len(old.subs) <= Len(new.subs)
    /\ \A i \in 1 .. Len(old.subs) : old.subs[i].sealed => new.subs[i].sealed /\ new.subs[i].content = old.subs[i].content
    /\ \A i \in 1 .. Len(new.subs) : new.subs[i].sealed =>
          \/ i \in 1 .. Len(old.subs) /\ old.subs[i].sealed
          \/ q.kind = "submission:seal" /\ new.subs[i].content = q.content
    /\ q.kind = "submission:create" => Len(new.subs) = Len(old.subs) + 1
    /\ \/ new.source = old.source
       \/ q.kind = "finalize" /\ new.source = q.sub /\ new.subs = old.subs /\ (q.sub # 0 => old.subs[q.sub].sealed)

\* A change of one run leaves the others and the workspace alone.
LEMMA OneRunChanges ==
    ASSUME ServiceTypes, NEW r \in Runs, NEW new \in RunRecord,
           server' = [server EXCEPT !.runs = [server.runs EXCEPT ![r] = new]]
    PROVE  /\ server' \in ServerRecord /\ server'.workspace = server.workspace /\ server'.runs[r] = new
           /\ \A s \in Runs \ {r} : server'.runs[s] = server.runs[s]
<1>1. [server.runs EXCEPT ![r] = new] \in [Runs -> RunRecord]
    BY ServerFields
<1>2. server' = [workspace |-> server.workspace, runs |-> [server.runs EXCEPT ![r] = new]]
    BY ServerFields
<1>3. QED BY <1>1, <1>2, ServerFields DEF ServerRecord

\* A new submission is the last of its run, empty and open (createSubmission).
LEMMA CreateEffect ==
    ASSUME ServiceTypes, NEW q \in Request, q.run \in Runs, q.kind = "submission:create", server.runs[q.run].state = "active",
           server' = createSubmission(q)
    PROVE  \E new \in RunRecord : RunStep(q, server.runs[q.run], new) /\ server' = [server EXCEPT !.runs = [server.runs EXCEPT ![q.run] = new]]
<1> DEFINE old == server.runs[q.run]
           sub == [sealed |-> FALSE, content |-> NoContent]
           new == [old EXCEPT !.subs = Append(old.subs, sub)]
<1>1. old \in RunRecord
    BY ServerFields
<1>2. sub \in SubRecord /\ ~sub.sealed /\ old.subs \in Seq(SubRecord) /\ Len(old.subs) \in Nat
    BY <1>1, Basics, RunFields
<1> HIDE DEF sub, old
<1>3. /\ Append(old.subs, sub) \in Seq(SubRecord) /\ Len(Append(old.subs, sub)) = Len(old.subs) + 1
      /\ \A i \in 1 .. Len(old.subs) : Append(old.subs, sub)[i] = old.subs[i]
      /\ Append(old.subs, sub)[Len(old.subs) + 1] = sub
    BY <1>2, AppendProperties
<1>4. new \in RunRecord /\ new.subs = Append(old.subs, sub) /\ new.state = old.state /\ new.base = old.base
      /\ new.own = old.own /\ new.source = old.source
    BY <1>1, <1>3 DEF RunRecord, RunStates, SubRecord
<1>5. server' = [server EXCEPT !.runs = [server.runs EXCEPT ![q.run] = new]]
    BY ServerFields DEF createSubmission, old, sub
<1>6. old.state = "active"
    BY DEF old
<1>7. RunStep(q, old, new)
    <2> HIDE DEF new
    <2>1. \A i \in 1 .. Len(new.subs) : new.subs[i].sealed => i \in 1 .. Len(old.subs) /\ old.subs[i].sealed
        BY <1>2, <1>3, <1>4
    <2>2. QED BY <1>2, <1>3, <1>4, <1>6, <2>1 DEF RunStep
<1>8. QED BY <1>4, <1>5, <1>7 DEF old

\* A file is written to an open submission; a seal finds the content that it names (OnRun).
LEMMA SubmissionEffect ==
    ASSUME ServiceTypes, NEW q \in Request, q.run \in Runs, q.kind \in {"submission:file", "submission:seal"},
           Acceptable(q), server' = OnRun(q)
    PROVE  /\ server.runs[q.run].state = "active"
           /\ \E new \in RunRecord : RunStep(q, server.runs[q.run], new) /\ server' = [server EXCEPT !.runs = [server.runs EXCEPT ![q.run] = new]]
<1> DEFINE old == server.runs[q.run]
           sub == IF q.kind = "submission:file" THEN [old.subs[q.sub] EXCEPT !.content = q.content]
                  ELSE [old.subs[q.sub] EXCEPT !.sealed = TRUE]
           new == [old EXCEPT !.subs = [old.subs EXCEPT ![q.sub] = sub]]
<1>1. old \in RunRecord /\ old.subs \in Seq(SubRecord) /\ Len(old.subs) \in Nat /\ DOMAIN old.subs = 1 .. Len(old.subs)
    BY ServerFields, RunFields
<1>2. /\ old.state = "active"
      /\ q.kind = "submission:file" => ~old.subs[q.sub].sealed
      /\ q.kind = "submission:seal" => old.subs[q.sub].content = q.content
    BY DEF Acceptable
<1>3. q.content \in Contents \cup {NoContent}
    BY DEF Request, Kinds
<1>4. server' = [server EXCEPT !.runs = [server.runs EXCEPT ![q.run] = new]]
    BY ServerFields DEF OnRun
<1>5. CASE q.sub \notin 1 .. Len(old.subs)
    <2>1. [old.subs EXCEPT ![q.sub] = sub] = old.subs
        BY <1>1, <1>5
    <2>2. new = old
        BY <1>1, <2>1 DEF RunRecord
    <2>3. RunStep(q, old, old)
        <3> HIDE DEF old
        <3>1. QED BY <1>1, <1>2 DEF RunStep
    <2>4. QED BY <1>1, <1>2, <1>4, <2>2, <2>3
<1>6. CASE q.sub \in 1 .. Len(old.subs)
    <2>1. old.subs[q.sub] \in SubRecord
        BY <1>1, <1>6, RunFields
    <2>2. /\ sub \in SubRecord /\ (sub.sealed => old.subs[q.sub].sealed \/ (q.kind = "submission:seal" /\ sub.content = q.content))
          /\ (old.subs[q.sub].sealed => sub.sealed /\ sub.content = old.subs[q.sub].content)
        BY <1>2, <1>3, <2>1 DEF SubRecord
    <2> HIDE DEF sub
    <2>3. /\ [old.subs EXCEPT ![q.sub] = sub] \in Seq(SubRecord) /\ Len([old.subs EXCEPT ![q.sub] = sub]) = Len(old.subs)
          /\ \A j \in 1 .. Len(old.subs) : [old.subs EXCEPT ![q.sub] = sub][j] = IF j = q.sub THEN sub ELSE old.subs[j]
        BY <1>1, <1>6, <2>2, ExceptSeq
    <2>4. /\ new \in RunRecord /\ new.subs = [old.subs EXCEPT ![q.sub] = sub] /\ new.state = old.state /\ new.base = old.base
          /\ new.own = old.own /\ new.source = old.source
        BY <1>1, <2>3 DEF RunRecord, RunStates, SubRecord
    <2>5. RunStep(q, old, new)
        <3> HIDE DEF old, new
        <3>1. Len(new.subs) = Len(old.subs) /\ \A j \in 1 .. Len(old.subs) : new.subs[j] = IF j = q.sub THEN sub ELSE old.subs[j]
            BY <2>3, <2>4
        <3>2. \A i \in 1 .. Len(new.subs) : new.subs[i].sealed =>
                 \/ i \in 1 .. Len(old.subs) /\ old.subs[i].sealed
                 \/ q.kind = "submission:seal" /\ new.subs[i].content = q.content
            BY <2>2, <3>1
        <3>3. \A i \in 1 .. Len(old.subs) : old.subs[i].sealed =>
                 new.subs[i].sealed /\ new.subs[i].content = old.subs[i].content
            BY <2>2, <3>1
        <3>4. QED BY <1>1, <1>2, <2>4, <3>1, <3>2, <3>3 DEF RunStep
    <2>6. QED BY <1>2, <1>4, <2>4, <2>5
<1>7. QED BY <1>5, <1>6

\* A finalization names its submission, an abort and a heartbeat leave the submissions alone (OnRun).
LEMMA EndEffect ==
    ASSUME ServiceTypes, NEW q \in Request, q.run \in Runs, q.kind \in {"finalize", "abort", "run:heartbeat"},
           Acceptable(q), server' = OnRun(q)
    PROVE  /\ server.runs[q.run].state = "active"
           /\ \E new \in RunRecord : RunStep(q, server.runs[q.run], new) /\ server' = [server EXCEPT !.runs = [server.runs EXCEPT ![q.run] = new]]
<1> DEFINE old == server.runs[q.run]
           new == CASE q.kind = "finalize" -> [old EXCEPT !.state = "finalizing", !.source = q.sub]
                    [] q.kind = "abort" -> [old EXCEPT !.state = "aborted"]
                    [] OTHER -> old
<1>1. old \in RunRecord /\ old.subs \in Seq(SubRecord) /\ Len(old.subs) \in Nat
    BY ServerFields, RunFields
<1>2. old.state = "active" /\ (q.kind = "finalize" /\ q.sub # 0 => old.subs[q.sub].sealed)
    BY DEF Acceptable
<1>3. /\ new \in RunRecord /\ new.subs = old.subs /\ new.base = old.base /\ new.own = old.own
      /\ new.state \in {"active", "finalizing", "aborted"}
      /\ new.source = old.source \/ (q.kind = "finalize" /\ new.source = q.sub)
    BY <1>1, <1>2 DEF RunRecord, RunStates, Request
<1>4. server' = [server EXCEPT !.runs = [server.runs EXCEPT ![q.run] = new]]
    <2>1. CASE q.kind = "finalize"
        BY <2>1, ServerFields DEF OnRun
    <2>2. CASE q.kind = "abort"
        BY <2>2, ServerFields DEF OnRun
    <2>3. CASE q.kind = "run:heartbeat"
        <3>1. new = old /\ server' = server
            BY <2>3 DEF OnRun
        <3>2. [server.runs EXCEPT ![q.run] = old] = server.runs
            BY ServerFields
        <3>3. QED BY <3>1, <3>2, ServerFields
    <2>4. QED BY <2>1, <2>2, <2>3
<1> HIDE DEF new
<1>5. RunStep(q, old, new)
    BY <1>1, <1>2, <1>3 DEF RunStep
<1>6. QED BY <1>2, <1>3, <1>4, <1>5

\* The next run starts active, on its base and with nothing submitted; the runs before keep only their
\* state.  Its base is the session's own only if the run before it published that content (openRun).
LEMMA OpenEffect ==
    ASSUME ServiceTypes, NEW n \in 0 .. MaxRuns, \A r \in Runs : server.runs[r].state # "none" <=> r <= n,
           NextRun \in Runs, NEW b \in Bases, server' = openRun(b)
    PROVE  /\ NextRun = n + 1 /\ n + 1 \in Runs /\ server' \in ServerRecord /\ server'.workspace = server.workspace
           /\ \A r \in Runs : /\ r <= n => server'.runs[r].state = server.runs[r].state
                              /\ r > n + 1 => server'.runs[r].state = "none"
                              /\ server'.runs[r].subs = <<>> /\ server'.runs[r].source = 0
           /\ server'.runs[n + 1].state = "active"
           /\ server'.runs[n + 1].own =>
                 n # 0 /\ server.runs[n].source # 0 /\ server'.runs[n + 1].base = server.runs[n].subs[server.runs[n].source].content
<1>1. NextRun = n + 1
    BY NextRunNumber
<1>2. n + 1 \in Runs /\ n \in Nat
    BY <1>1, Basics
<1>3. /\ b.base \in Contents /\ b.own \in BOOLEAN
      /\ b.own => n # 0 /\ server.runs[n].source # 0 /\ b.base = server.runs[n].subs[server.runs[n].source].content
    <2>1. CASE n = 0
        <3>1. b = [base |-> server.runs[1].base, own |-> FALSE]
            BY <2>1, <1>1 DEF Bases
        <3>2. server.runs[1].base \in Contents
            BY Basics, ServerFields, RunFields
        <3>3. QED BY <3>1, <3>2
    <2>2. CASE n # 0
        <3>1. NextRun # 1 /\ NextRun - 1 = n
            BY <2>2, <1>1, <1>2
        <3>2. PICK c \in Contents : b = [base |-> c, own |-> server.runs[n].source # 0 /\ c = Published(n)]
            BY <3>1 DEF Bases
        <3>3. QED BY <2>2, <3>2 DEF Published
    <2>3. QED BY <2>1, <2>2
<1> DEFINE first == [state |-> "active", base |-> b.base, own |-> b.own, subs |-> <<>>, source |-> 0]
           old(r) == [NoRun EXCEPT !.state = server.runs[r].state]
           runs == [r \in Runs |-> CASE r = NextRun -> first [] r < NextRun -> old(r) [] OTHER -> NoRun]
<1>4. first \in RunRecord
    BY <1>3, EmptySeq DEF RunRecord, RunStates
<1>5. \A r \in Runs : old(r) \in RunRecord /\ old(r).state = server.runs[r].state /\ old(r).subs = <<>> /\ old(r).source = 0
    <2>1. SUFFICES ASSUME NEW r \in Runs
                   PROVE  old(r) \in RunRecord /\ old(r).state = server.runs[r].state /\ old(r).subs = <<>> /\ old(r).source = 0
        OBVIOUS
    <2>2. server.runs[r] \in RunRecord
        BY ServerFields
    <2>3. NoRun \in RunRecord /\ NoRun.subs = <<>> /\ NoRun.source = 0
        BY Basics
    <2> HIDE DEF NoRun
    <2>4. QED BY <2>2, <2>3 DEF RunRecord
<1>6. server' = [workspace |-> server.workspace, runs |-> runs]
    BY ServerFields DEF openRun
<1>7. first.state = "active" /\ first.base = b.base /\ first.own = b.own /\ first.subs = <<>> /\ first.source = 0
    OBVIOUS
<1> HIDE DEF first, old
<1>8. runs \in [Runs -> RunRecord]
    BY <1>4, <1>5, Basics
<1>9. server' \in ServerRecord /\ server'.workspace = server.workspace /\ server'.runs = runs
    BY <1>6, <1>8, ServerFields DEF ServerRecord
<1>10. \A r \in Runs : /\ r <= n => runs[r] = old(r)
                       /\ r > n + 1 => runs[r] = NoRun
                       /\ r = n + 1 => runs[r] = first
    BY <1>1, <1>2 DEF Runs
<1>11. \A r \in Runs : r <= n \/ r = n + 1 \/ r > n + 1
    BY <1>2 DEF Runs
<1> HIDE DEF runs
<1>12. \A r \in Runs : /\ r <= n => server'.runs[r].state = server.runs[r].state
                       /\ r > n + 1 => server'.runs[r].state = "none"
                       /\ server'.runs[r].subs = <<>> /\ server'.runs[r].source = 0
    BY <1>5, <1>7, <1>9, <1>10, <1>11, Basics
<1>13. QED BY <1>1, <1>2, <1>3, <1>7, <1>9, <1>10, <1>12

-----------------------------------------------------------------------------
(* The pending command is served *)

SealedNext(r, i) == i \in 1 .. Len(server'.runs[r].subs) /\ server'.runs[r].subs[i].sealed

EndsAreFinal == \A r \in Runs : server.runs[r].state \in Terminal => server'.runs[r].state \in Terminal

\* After the pending command was answered with `a`, now or before.
ServedAs(a) ==
    /\ server' \in ServerRecord /\ a \in Answer /\ a # NoAnswer /\ EndsAreFinal
    /\ \A r \in Runs : /\ server'.runs[r].state # "none" <=> r <= (IF Opening THEN a.run ELSE journal.run)
                       /\ server'.runs[r].state \in Live => r = (IF Opening THEN a.run ELSE journal.run)
    /\ Opening => a.run \in Runs /\ journal.run < a.run /\ server'.runs[a.run].subs = <<>> /\ server'.runs[a.run].source = 0
    /\ journal.run # 0 => \A i \in Nat : SealedNext(journal.run, i) =>
          \/ Sealed(journal.run, i) /\ server'.runs[journal.run].subs[i].content = server.runs[journal.run].subs[i].content
          \/ journal.pending.kind = "submission:seal" /\ server'.runs[journal.run].subs[i].content = journal.pending.content

\* The Python library also relies on where a finalized content comes from.
ServedSubmission(a) ==
    /\ journal.run # 0 /\ server'.runs[journal.run].source # 0 => SealedNext(journal.run, server'.runs[journal.run].source)
    /\ ~Opening /\ journal.run # 0 =>
         /\ Len(server.runs[journal.run].subs) <= Len(server'.runs[journal.run].subs)
         /\ server'.runs[journal.run].own = server.runs[journal.run].own
         /\ server'.runs[journal.run].base = server.runs[journal.run].base
    /\ journal.pending.kind = "submission:create" => a.sub \in 1 .. Len(server'.runs[journal.run].subs)
    /\ Opening /\ server'.runs[a.run].own /\ journal.capture # NoContent => server'.runs[a.run].base = journal.capture

\* The run that a command was prepared for.
LEMMA RunOfCommand ==
    ASSUME SharedInvariant, Pending
    PROVE  /\ Asked \in Request /\ journal.run \in 0 .. MaxRuns /\ (journal.run # 0 => journal.run \in Runs)
           /\ journal.pending.kind \in {"workspace:create", "run:open"} => Asked.run = 0 /\ Asked.sub = 0
           /\ journal.pending.kind \notin {"workspace:create", "run:open"} => Asked.run = journal.run /\ journal.run \in Runs
           /\ journal.pending.kind \in {"workspace:create", "run:open", "run:heartbeat", "submission:create", "submission:file",
                                        "submission:seal", "finalize", "abort"}
           /\ journal.pending.kind = "submission:seal" => Asked.content = journal.capture
           /\ Answered(Asked) \in Answer
<1>1. journal.run \in 0 .. MaxRuns /\ (journal.run # 0 => journal.run \in Runs)
    BY Basics DEF SharedInvariant, SessionTypes, Journal, Runs
<1>2. Asked \in Request
    BY DEF SharedInvariant, CommandFits
<1>3. Asked.kind = journal.pending.kind /\ Asked.run = journal.pending.run /\ Asked.sub = journal.pending.sub
      /\ Asked.key = journal.pending.key /\ Asked.content = journal.pending.content /\ journal.pending.key \in Keys
    BY PendingIsCommand DEF SharedInvariant
<1>4. /\ journal.pending.kind \in {"workspace:create", "run:open"} => Asked.run = 0 /\ Asked.sub = 0
      /\ journal.pending.kind \notin {"workspace:create", "run:open"} => Asked.run = journal.run /\ journal.run \in Runs
      /\ journal.pending.kind = "submission:seal" => Asked.content = journal.capture
    BY <1>1, <1>3 DEF SharedInvariant, CommandFits
<1>5. journal.pending.kind \in {"workspace:create", "run:open", "run:heartbeat", "submission:create", "submission:file",
                                "submission:seal", "finalize", "abort"}
    BY <1>2, <1>3 DEF Request, Kinds
<1>6. Answered(Asked) \in Answer
    <2>1. answers[Asked.key] \in Answer
        BY <1>3 DEF SharedInvariant, ServiceTypes
    <2>2. CASE IsAnswered(Asked.key) \/ ~Acceptable(Asked)
        BY <2>1, <2>2 DEF Answered, IsAnswered
    <2>3. CASE ~IsAnswered(Asked.key) /\ Acceptable(Asked)
        <3>1. Answered(Asked) = [run |-> IF Asked.kind = "run:open" THEN NextRun ELSE Asked.run,
                 sub |-> IF Asked.kind = "submission:create" THEN Len(server.runs[Asked.run].subs) + 1 ELSE Asked.sub]
            BY <2>3 DEF Answered, IsAnswered
        <3>2. Asked.kind = "run:open" => NextRun \in 0 .. MaxRuns
            BY <2>3 DEF Acceptable, Runs
        <3>3. Asked.run \in 0 .. MaxRuns /\ Asked.sub \in Nat
            BY <1>2 DEF Request, Kinds
        <3>4. Asked.kind = "submission:create" => Len(server.runs[Asked.run].subs) + 1 \in Nat
            <4>1. SUFFICES ASSUME Asked.kind = "submission:create" PROVE Len(server.runs[Asked.run].subs) \in Nat
                OBVIOUS
            <4>2. server.runs[Asked.run] \in RunRecord
                BY <4>1, <1>3, <1>4, ServerFields DEF SharedInvariant
            <4>3. QED BY <4>2, RunFields
        <3>5. QED BY <3>1, <3>2, <3>3, <3>4 DEF Answer
    <2>4. QED BY <2>2, <2>3
<1>7. QED BY <1>1, <1>2, <1>4, <1>5, <1>6

\* A repeated command finds its answer, and the server does not change.
LEMMA ReplayServed ==
    ASSUME SharedInvariant, Pending, IsAnswered(journal.pending.key), server' = server
    PROVE  ServedAs(answers[journal.pending.key])
<1>1. journal.pending.key \in Keys
    BY PendingIsCommand DEF SharedInvariant
<1>2. answers[journal.pending.key] \in Answer /\ answers[journal.pending.key] # NoAnswer
    BY <1>1 DEF SharedInvariant, ServiceTypes, IsAnswered
<1>3. server' \in ServerRecord /\ EndsAreFinal
    BY DEF SharedInvariant, ServiceTypes, EndsAreFinal
<1>4. Current = IF Opening THEN answers[journal.pending.key].run ELSE journal.run
    BY DEF Current
<1>5. \A r \in Runs : /\ server'.runs[r].state # "none" <=> r <= Current
                      /\ server'.runs[r].state \in Live => r = Current
    BY DEF SharedInvariant, RunsInOrder
<1>6. Opening => Current \in Runs /\ journal.run < Current /\ server'.runs[Current].subs = <<>> /\ server'.runs[Current].source = 0
    BY DEF SharedInvariant, OpeningIsNext
<1>7. \A i \in Nat : SealedNext(journal.run, i) =>
         Sealed(journal.run, i) /\ server'.runs[journal.run].subs[i].content = server.runs[journal.run].subs[i].content
    BY DEF SealedNext, Sealed
<1> HIDE DEF SealedNext, Sealed, Current
<1>8. QED BY <1>2, <1>3, <1>4, <1>5, <1>6, <1>7 DEF ServedAs

\* Before the pending command is answered, the run of the journal is the newest one.
LEMMA UnansweredCurrent ==
    ASSUME SharedInvariant, Pending, ~IsAnswered(journal.pending.key)
    PROVE  /\ Current = journal.run
           /\ \A r \in Runs : /\ server.runs[r].state # "none" <=> r <= journal.run
                              /\ server.runs[r].state \in Live => r = journal.run
<1>1. Current = journal.run
    BY DEF Current
<1>2. QED BY <1>1 DEF SharedInvariant, RunsInOrder

\* An accepted open creates the next run.
LEMMA OpenServed ==
    ASSUME SharedInvariant, Pending, ~IsAnswered(journal.pending.key), Acceptable(Asked), Handle(Asked),
           journal.pending.kind = "run:open"
    PROVE  /\ ServedAs(Answered(Asked))
           /\ library = "python" /\ PythonPublishes => ServedSubmission(Answered(Asked))
<1> DEFINE n == journal.run
<1>1. /\ Asked.kind = "run:open" /\ Asked.key = journal.pending.key
      /\ n \in 0 .. MaxRuns /\ (n # 0 => n \in Runs) /\ Answered(Asked) \in Answer
    BY PendingIsCommand, RunOfCommand DEF SharedInvariant
<1>2. \A r \in Runs : /\ server.runs[r].state # "none" <=> r <= n
                      /\ server.runs[r].state \in Live => r = n
    BY UnansweredCurrent
<1>3. NextRun \in Runs
    BY <1>1 DEF Acceptable
<1>4. PICK b \in Bases : server' = openRun(b)
    BY <1>1 DEF Handle, IsAnswered
<1>5. /\ NextRun = n + 1 /\ n + 1 \in Runs /\ server' \in ServerRecord
      /\ \A r \in Runs : /\ r <= n => server'.runs[r].state = server.runs[r].state
                         /\ r > n + 1 => server'.runs[r].state = "none"
                         /\ server'.runs[r].subs = <<>> /\ server'.runs[r].source = 0
      /\ server'.runs[n + 1].state = "active"
      /\ server'.runs[n + 1].own =>
            n # 0 /\ server.runs[n].source # 0 /\ server'.runs[n + 1].base = server.runs[n].subs[server.runs[n].source].content
    BY <1>1, <1>2, <1>3, <1>4, OpenEffect DEF SharedInvariant
<1>6. Answered(Asked).run = n + 1
    BY <1>1, <1>5 DEF Answered, IsAnswered
<1>7. Opening
    BY DEF Opening
<1>8. n # 0 => server.runs[n].state \in Terminal
    BY <1>7 DEF SharedInvariant, OpeningIsNext
<1>9. \A r \in Runs : r \in Nat /\ (r <= n \/ r = n + 1 \/ r > n + 1)
    BY <1>1 DEF Runs
<1>10. n \in Nat
    BY <1>1
<1> HIDE DEF n
<1>11. EndsAreFinal
    <2>1. SUFFICES ASSUME NEW r \in Runs, server.runs[r].state \in Terminal PROVE server'.runs[r].state \in Terminal
        BY DEF EndsAreFinal
    <2>2. server.runs[r].state # "none"
        BY <2>1 DEF Terminal
    <2>3. QED BY <2>1, <2>2, <1>2, <1>5
<1>12. \A r \in Runs : /\ server'.runs[r].state # "none" <=> r <= n + 1
                       /\ server'.runs[r].state \in Live => r = n + 1
    <2>1. SUFFICES ASSUME NEW r \in Runs
                   PROVE  /\ server'.runs[r].state # "none" <=> r <= n + 1
                          /\ server'.runs[r].state \in Live => r = n + 1
        OBVIOUS
    <2>2. CASE r <= n
        <3>1. server'.runs[r].state = server.runs[r].state /\ server.runs[r].state # "none" /\ r <= n + 1
            BY <2>2, <1>2, <1>5, <1>9, <1>10
        <3>2. server.runs[r].state \notin Live
            <4>1. SUFFICES ASSUME server.runs[r].state \in Live PROVE FALSE
                OBVIOUS
            <4>2. r = n /\ r # 0
                BY <4>1, <1>2, Basics
            <4>3. QED BY <4>1, <4>2, <1>8 DEF Live, Terminal
        <3>3. QED BY <3>1, <3>2
    <2>3. CASE r = n + 1
        BY <2>3, <1>5, <1>9
    <2>4. CASE r > n + 1
        BY <2>4, <1>5, <1>9, <1>10 DEF Live
    <2>5. QED BY <2>2, <2>3, <2>4, <1>9
<1>13. \A r \in Runs, i \in Nat : ~SealedNext(r, i)
    BY <1>5 DEF SealedNext
<1>14. Answered(Asked) # NoAnswer
    BY <1>6, <1>10 DEF NoAnswer
<1>15. ServedAs(Answered(Asked))
    <2>1. n < n + 1 /\ (n # 0 => n \in Runs)
        BY <1>1, <1>10 DEF n
    <2>2. QED BY <1>1, <1>5, <1>6, <1>7, <1>11, <1>12, <1>13, <1>14, <2>1 DEF ServedAs, n
<1>16. ASSUME library = "python", PythonPublishes PROVE ServedSubmission(Answered(Asked))
    <2>1. ASSUME server'.runs[n + 1].own, journal.capture # NoContent
          PROVE  server'.runs[n + 1].base = journal.capture
        <3>1. n # 0 /\ Sealed(n, server.runs[n].source) /\ server.runs[n].source \in Nat
            BY <2>1, <1>5, <1>16, <1>1, ServerFields, RunFields DEF PythonPublishes, n, SharedInvariant
        <3>2. server.runs[n].subs[server.runs[n].source].content = journal.capture
            BY <3>1, <2>1, <1>16 DEF SharedInvariant, Captured, n
        <3>3. QED BY <3>2, <2>1, <1>5
    <2>2. n # 0 => server'.runs[n].source = 0
        BY <1>1, <1>5 DEF n
    <2>3. QED BY <2>1, <2>2, <1>6, <1>7 DEF ServedSubmission, n
<1>17. QED BY <1>15, <1>16

\* An accepted command on the run changes that run alone.
LEMMA RunServed ==
    ASSUME SharedInvariant, Pending, ~IsAnswered(journal.pending.key), Acceptable(Asked), Handle(Asked),
           journal.pending.kind \notin {"workspace:create", "run:open"}
    PROVE  /\ ServedAs(Answered(Asked))
           /\ library = "python" /\ PythonPublishes /\ PythonKnows => ServedSubmission(Answered(Asked))
<1> DEFINE n == journal.run
           old == server.runs[n]
<1>1. /\ Asked \in Request /\ Asked.kind = journal.pending.kind /\ Asked.key = journal.pending.key /\ Asked.sub = journal.pending.sub
      /\ Asked.run = n /\ n \in Runs /\ Answered(Asked) \in Answer
      /\ Asked.kind \in {"run:heartbeat", "submission:create", "submission:file", "submission:seal", "finalize", "abort"}
      /\ Asked.content = journal.pending.content
    BY PendingIsCommand, RunOfCommand DEF SharedInvariant
<1>2. \A r \in Runs : /\ server.runs[r].state # "none" <=> r <= n
                      /\ server.runs[r].state \in Live => r = n
    BY UnansweredCurrent
<1>3. ServiceTypes /\ Asked.run \in Runs
    BY <1>1 DEF SharedInvariant
<1>4. /\ old.state = "active"
      /\ \E new \in RunRecord : /\ RunStep(Asked, old, new)
                                /\ server' = [server EXCEPT !.runs = [server.runs EXCEPT ![n] = new]]
    <2>1. CASE Asked.kind = "submission:create"
        <3>1. server' = createSubmission(Asked) /\ server.runs[Asked.run].state = "active"
            BY <2>1, <1>1 DEF Handle, IsAnswered, Acceptable
        <3>2. QED BY <2>1, <3>1, <1>1, <1>3, CreateEffect
    <2>2. CASE Asked.kind \in {"submission:file", "submission:seal"}
        <3>1. server' = OnRun(Asked)
            BY <2>2, <1>1 DEF Handle, IsAnswered
        <3>2. QED BY <2>2, <3>1, <1>1, <1>3, SubmissionEffect
    <2>3. CASE Asked.kind \in {"finalize", "abort", "run:heartbeat"}
        <3>1. server' = OnRun(Asked)
            BY <2>3, <1>1 DEF Handle, IsAnswered
        <3>2. QED BY <2>3, <3>1, <1>1, <1>3, EndEffect
    <2>4. QED BY <2>1, <2>2, <2>3, <1>1
<1>5. PICK new \in RunRecord : RunStep(Asked, old, new) /\ server' = [server EXCEPT !.runs = [server.runs EXCEPT ![n] = new]]
    BY <1>4
<1>6. server' \in ServerRecord /\ server'.runs[n] = new /\ \A s \in Runs \ {n} : server'.runs[s] = server.runs[s]
    BY <1>1, <1>3, <1>5, OneRunChanges
<1>7. new.state \in {"active", "finalizing", "aborted"} /\ new.state # "none"
    BY <1>5 DEF RunStep
<1>8. ~Opening /\ n # 0
    BY <1>1, Basics DEF Opening
<1>9. /\ old \in RunRecord /\ Len(old.subs) \in Nat /\ Len(new.subs) \in Nat /\ new.source \in Nat
    BY <1>1, <1>3, ServerFields, RunFields
<1>10. Answered(Asked).run = n /\ Answered(Asked) # NoAnswer
       /\ (Asked.kind = "submission:create" => Answered(Asked).sub = Len(old.subs) + 1)
    BY <1>1, <1>8 DEF Answered, IsAnswered, NoAnswer
<1> HIDE DEF n, old
<1>11. EndsAreFinal
    BY <1>4, <1>6, <1>7 DEF EndsAreFinal, Terminal, old
<1>12. \A r \in Runs : /\ server'.runs[r].state # "none" <=> r <= n
                       /\ server'.runs[r].state \in Live => r = n
    BY <1>2, <1>4, <1>6, <1>7 DEF old
<1>13. \A i \in Nat : SealedNext(n, i) =>
          \/ Sealed(n, i) /\ new.subs[i].content = old.subs[i].content
          \/ Asked.kind = "submission:seal" /\ new.subs[i].content = Asked.content
    BY <1>5, <1>6 DEF RunStep, SealedNext, Sealed, old
<1>14. ServedAs(Answered(Asked))
    BY <1>1, <1>6, <1>8, <1>10, <1>11, <1>12, <1>13 DEF ServedAs, n, old
<1>15. ASSUME library = "python", PythonPublishes, PythonKnows PROVE ServedSubmission(Answered(Asked))
    <2>1. new.own = old.own /\ new.base = old.base /\ Len(old.subs) <= Len(new.subs) /\ (Asked.kind = "submission:create" => Len(new.subs) = Len(old.subs) + 1)
        BY <1>5 DEF RunStep
    <2>2. \A i \in Nat : Sealed(n, i) => SealedNext(n, i)
        <3>1. \A i \in 1 .. Len(old.subs) : old.subs[i].sealed => new.subs[i].sealed
            BY <1>5 DEF RunStep
        <3>2. QED BY <2>1, <3>1, <1>6, <1>9 DEF Sealed, SealedNext, old
    <2>3. old.source # 0 => Sealed(n, old.source)
        BY <1>15, <1>8 DEF PythonPublishes, n, old
    <2>4. old.source \in Nat
        BY <1>9, RunFields
    <2>5. new.source # 0 => SealedNext(n, new.source)
        <3>1. CASE new.source = old.source
            BY <3>1, <2>2, <2>3, <2>4
        <3>2. CASE Asked.kind = "finalize" /\ new.source = Asked.sub /\ new.subs = old.subs /\ (Asked.sub # 0 => old.subs[Asked.sub].sealed)
            <4>1. Asked.sub # 0 => Asked.sub \in 1 .. Len(old.subs)
                BY <3>2, <1>1, <1>15 DEF PythonKnows, n, old
            <4>2. QED BY <3>2, <4>1, <1>6 DEF SealedNext
        <3>3. QED BY <3>1, <3>2, <1>5 DEF RunStep
    <2>6. QED BY <2>1, <2>5, <1>1, <1>6, <1>8, <1>9, <1>10 DEF ServedSubmission, n, old
<1>16. QED BY <1>14, <1>15

\* The creation of the workspace does not touch the runs.
LEMMA CreationServed ==
    ASSUME SharedInvariant, Pending, ~IsAnswered(journal.pending.key), Acceptable(Asked), Handle(Asked),
           journal.pending.kind = "workspace:create"
    PROVE  /\ ServedAs(Answered(Asked))
           /\ library = "python" /\ PythonPublishes => ServedSubmission(Answered(Asked))
<1>1. /\ Asked.kind = "workspace:create" /\ Asked.key = journal.pending.key /\ Asked.run = 0 /\ Asked.sub = 0
      /\ Answered(Asked) \in Answer /\ (journal.run # 0 => journal.run \in Runs)
    BY PendingIsCommand, RunOfCommand DEF SharedInvariant
<1>2. server' = [server EXCEPT !.workspace = "creating"]
    BY <1>1 DEF Handle, IsAnswered
<1>3. server' \in ServerRecord /\ server'.runs = server.runs
    BY <1>2, ServerFields DEF ServerRecord, SharedInvariant
<1>4. ~Opening /\ Answered(Asked) # NoAnswer
    BY <1>1 DEF Opening, Answered, IsAnswered, NoAnswer
<1>5. \A r \in Runs : /\ server'.runs[r].state # "none" <=> r <= journal.run
                      /\ server'.runs[r].state \in Live => r = journal.run
    BY <1>3, UnansweredCurrent
<1>6. EndsAreFinal
    BY <1>3 DEF EndsAreFinal
<1>7. \A r, i : SealedNext(r, i) <=> Sealed(r, i)
    BY <1>3 DEF SealedNext, Sealed
<1>8. ServedAs(Answered(Asked))
    BY <1>1, <1>3, <1>4, <1>5, <1>6, <1>7 DEF ServedAs
<1>9. ASSUME library = "python", PythonPublishes PROVE ServedSubmission(Answered(Asked))
    <2>1. journal.run # 0 => Len(server.runs[journal.run].subs) \in Nat
        BY <1>1, ServerFields, RunFields DEF SharedInvariant
    <2>2. QED BY <2>1, <1>1, <1>3, <1>4, <1>7, <1>9 DEF ServedSubmission, PythonPublishes
<1>10. QED BY <1>8, <1>9

\* Whatever the answer and whenever it was recorded.
LEMMA AskedServed ==
    ASSUME SharedInvariant, Pending, Handle(Asked), Answered(Asked) # NoAnswer
    PROVE  /\ ServedAs(Answered(Asked))
           /\ library = "python" /\ PythonPublishes /\ PythonKnows => ServedSubmission(Answered(Asked))
<1>1. Asked.key = journal.pending.key
    BY PendingIsCommand DEF SharedInvariant
<1>2. CASE ~IsAnswered(journal.pending.key)
    <2>1. Acceptable(Asked)
        BY <1>1, <1>2 DEF Answered, IsAnswered
    <2>2. QED BY <1>2, <2>1, OpenServed, RunServed, CreationServed
<1>3. CASE IsAnswered(journal.pending.key)
    <2>1. server' = server /\ Answered(Asked) = answers[journal.pending.key]
        BY <1>1, <1>3 DEF Handle, Answered, IsAnswered
    <2>2. ServedAs(Answered(Asked))
        BY <2>1, <1>3, ReplayServed
    <2>3. ASSUME library = "python", PythonPublishes, PythonKnows PROVE ServedSubmission(Answered(Asked))
        <3>1. \A r, i : SealedNext(r, i) <=> Sealed(r, i)
            BY <2>1 DEF SealedNext, Sealed
        <3>2. journal.run # 0 => Len(server.runs[journal.run].subs) \in Nat
            BY RunOfCommand, ServerFields, RunFields DEF SharedInvariant
        <3>3. Opening => Current = Answered(Asked).run
            BY <2>1, <1>3 DEF Current
        <3>4. Opening /\ server.runs[Current].own /\ journal.capture # NoContent => server.runs[Current].base = journal.capture
            BY <1>3, <2>3 DEF PythonPublishes
        <3>5. journal.run # 0 /\ server'.runs[journal.run].source # 0 => SealedNext(journal.run, server'.runs[journal.run].source)
            BY <2>1, <2>3, <3>1 DEF PythonPublishes
        <3>6. journal.pending.kind = "submission:create" => Answered(Asked).sub \in 1 .. Len(server'.runs[journal.run].subs)
            BY <2>1, <2>3, <1>3 DEF PythonKnows
        <3> HIDE DEF Sealed, SealedNext, Current
        <3>7. QED BY <2>1, <3>2, <3>3, <3>4, <3>5, <3>6 DEF ServedSubmission
    <2>4. QED BY <2>2, <2>3
<1>4. QED BY <1>2, <1>3

\* An accepted abort has ended its run.
LEMMA AbortEnds ==
    ASSUME SharedInvariant, Pending, journal.pending.kind = "abort", Handle(Asked), Answered(Asked) # NoAnswer,
           IsAnswered(journal.pending.key) => Ended
    PROVE  journal.run # 0 /\ server'.runs[journal.run].state \in Terminal
<1>1. journal.run # 0 /\ journal.run \in Runs /\ Asked.kind = "abort" /\ Asked.run = journal.run /\ Asked.key = journal.pending.key
    BY RunOfCommand, PendingIsCommand DEF SharedInvariant, CommandFits
<1>2. CASE (answers[Asked.key] # NoAnswer \/ ~Acceptable(Asked)) /\ UNCHANGED server
    <2>1. IsAnswered(journal.pending.key)
        BY <1>1, <1>2 DEF Answered, IsAnswered
    <2>2. QED BY <1>1, <1>2, <2>1 DEF Ended
<1>3. CASE server' = OnRun(Asked)
    <2>1. server' = [server EXCEPT !.runs[journal.run].state = "aborted"]
        BY <1>1, <1>3 DEF OnRun
    <2>2. server'.runs[journal.run].state = "aborted"
        BY <1>1, <2>1, ServerFields DEF SharedInvariant, RunRecord
    <2>3. QED BY <1>1, <2>2 DEF Terminal
<1>4. QED BY <1>1, <1>2, <1>3 DEF Handle

-----------------------------------------------------------------------------
(* Steps of the session that do not change the server *)

\* The command that stays is the one that was pending, perhaps in another phase.
SameCommand ==
    /\ Pending /\ journal'.pending # NoCommand
    /\ journal'.pending.kind = journal.pending.kind /\ journal'.pending.key = journal.pending.key
    /\ journal'.pending.run = journal.pending.run /\ journal'.pending.sub = journal.pending.sub
    /\ journal'.pending.content = journal.pending.content

\* A command is dropped when the server cannot know it, or when its answer was recorded and read.
Settles ==
    journal'.pending = NoCommand /\ (Pending => Unsent \/ (IsAnswered(journal.pending.key) /\ ~Opening))

\* What the call and the operation of the next state rest on.
CallFits ==
    /\ call' \in CallRecord /\ (call'.at = "idle" => call' = Idle)
    /\ call'.at # "idle" => journal'.pending # NoCommand /\ journal'.pending.phase = "sent"
    /\ call'.at = "polling" => journal'.pending.op
    /\ journal'.pending # NoCommand /\ journal'.pending.op => Pending /\ IsAnswered(journal.pending.key)

\* A capture is replaced while nothing is sealed, or given up in a cleanup.
CaptureFits ==
    /\ journal'.pending.kind = "submission:seal" => journal'.capture = journal.capture
    /\ journal.run # 0 /\ (journal'.cleanup = "pending" \/ (library = "python" /\ journal'.capture # NoContent)) =>
         \/ NothingSealed
         \/ /\ journal'.capture = journal.capture
            /\ journal.cleanup = "pending" \/ (library = "python" /\ journal.capture # NoContent)

\* A step that leaves the server alone keeps the shared invariant when it settles nothing the server
\* might still accept, and forgets no answer that a request on its way would need.
LEMMA QuietKeeps ==
    ASSUME SharedInvariant, server' = server, library' = library,
           journal' \in Journal, journal'.run = journal.run, faults' \in Nat,
           Settles \/ (SameCommand /\ (Unsent' => Unsent /\ late' = late)),
           \/ late' = late /\ faults' <= faults
           \/ SameCommand /\ late' = late \cup {Asked} /\ faults' = faults - 1,
           \/ answers' = answers
           \/ /\ Pending /\ journal'.pending = NoCommand /\ ~Carried(journal.pending.key)
              /\ answers' = [answers EXCEPT ![journal.pending.key] = NoAnswer],
           CallFits, CaptureFits
    PROVE  SharedInvariant'
<1>1. ServiceTypes /\ SessionTypes
    BY DEF SharedInvariant
<1>2. Pending => journal.pending.key \in Keys /\ Asked \in Request
    BY <1>1, PendingIsCommand DEF SharedInvariant, CommandFits
<1>3. answers' \in [Keys -> Answer]
    BY <1>1, <1>2, Basics DEF ServiceTypes
<1>4. late' \subseteq Request
    BY <1>1, <1>2 DEF ServiceTypes, SameCommand
<1>5. ServiceTypes' /\ SessionTypes'
    BY <1>1, <1>3, <1>4 DEF ServiceTypes, SessionTypes, CallFits
<1>6. FewLate'
    <2>1. IsFiniteSet(late) /\ Cardinality(late) \in Nat /\ Cardinality(late) + faults <= MaxFaults /\ faults \in Nat
        BY <1>1, FS_CardinalityType DEF SharedInvariant, FewLate, ServiceTypes
    <2>2. CASE late' = late /\ faults' <= faults
        BY <2>1, <2>2, Basics DEF FewLate
    <2>3. CASE late' = late \cup {Asked} /\ faults' = faults - 1
        <3>1. IsFiniteSet(late \cup {Asked})
              /\ Cardinality(late \cup {Asked}) = IF Asked \in late THEN Cardinality(late) ELSE Cardinality(late) + 1
            BY <2>1, FS_AddElement
        <3>2. QED BY <2>1, <2>3, <3>1, Basics DEF FewLate
    <2>4. QED BY <2>2, <2>3
<1>7. Asked' = Asked \/ journal'.pending = NoCommand
    BY DEF Asked, SameCommand, Settles
<1>8. \A q \in late : q.key \in Keys
    BY <1>1 DEF ServiceTypes, Request
<1>9. LateIsHarmless'
    <2>1. SUFFICES ASSUME NEW q \in late'
                   PROVE  IF journal'.pending # NoCommand /\ q.key = journal'.pending.key THEN q = Asked' ELSE answers'[q.key] # NoAnswer
        BY DEF LateIsHarmless, Pending, IsAnswered
    <2>2. q \in late => IF Pending /\ q.key = journal.pending.key THEN q = Asked ELSE answers[q.key] # NoAnswer
        BY DEF SharedInvariant, LateIsHarmless, IsAnswered
    <2>3. CASE SameCommand
        <3>1. answers' = answers /\ Asked' = Asked /\ journal'.pending # NoCommand /\ journal'.pending.key = journal.pending.key /\ Pending
            BY <2>3, <1>7 DEF SameCommand
        <3>2. q \in late \/ (q = Asked /\ q.key = journal.pending.key)
            BY <2>1, <2>3, <1>1, PendingIsCommand DEF SameCommand
        <3>3. QED BY <2>2, <3>1, <3>2
    <2>4. CASE Settles
        <3>1. q \in late
            BY <2>1, <2>4 DEF Settles, SameCommand
        <3>2. answers[q.key] # NoAnswer
            BY <2>2, <2>4, <3>1 DEF Settles, SharedInvariant, UnsentIsUnknown, Carried, IsAnswered
        <3>3. answers'[q.key] = answers[q.key]
            BY <3>1, <1>1, <1>8 DEF Carried, ServiceTypes
        <3>4. QED BY <2>4, <3>2, <3>3 DEF Settles
    <2>5. QED BY <2>3, <2>4
<1>10. UnsentIsUnknown'
    <2>1. SUFFICES ASSUME journal'.pending # NoCommand, Unsent'
                   PROVE  answers'[journal'.pending.key] = NoAnswer /\ ~\E q \in late' : q.key = journal'.pending.key
        BY DEF UnsentIsUnknown, Pending, IsAnswered, Carried
    <2>2. SameCommand /\ Unsent /\ late' = late /\ answers' = answers
        BY <2>1 DEF Settles
    <2>3. answers[journal.pending.key] = NoAnswer /\ ~\E q \in late : q.key = journal.pending.key
        BY <2>2 DEF SharedInvariant, UnsentIsUnknown, SameCommand, IsAnswered, Carried
    <2>4. QED BY <2>2, <2>3 DEF SameCommand
<1>11. CallIsPending'
    <2>1. journal'.pending # NoCommand /\ journal'.pending.op => answers'[journal'.pending.key] # NoAnswer
        BY DEF CallFits, IsAnswered, Settles, SameCommand
    <2>2. QED BY <2>1 DEF CallIsPending, CallFits, Pending, IsAnswered
<1>12. CommandFits'
    <2>1. SUFFICES ASSUME journal'.pending # NoCommand PROVE CommandFits'
        BY DEF CommandFits, Pending
    <2>2. SameCommand /\ Asked' = Asked
        BY <2>1, <1>7 DEF Settles
    <2>3. QED BY <2>2 DEF SharedInvariant, CommandFits, SameCommand, CaptureFits
<1>13. Current' = Current /\ (Opening' => Opening /\ answers'[journal'.pending.key] = answers[journal.pending.key])
    <2>1. CASE SameCommand
        <3>1. answers' = answers
            BY <2>1 DEF SameCommand
        <3>2. QED BY <2>1, <3>1 DEF SameCommand, Current, Opening, IsAnswered
    <2>2. CASE Settles
        <3>1. ~Opening'
            BY <2>2, Basics DEF Settles, Opening
        <3>2. Current = journal.run
            <4>1. CASE ~Pending
                BY <4>1, Basics DEF Current, Opening, Pending
            <4>2. CASE Pending /\ Unsent
                BY <4>2 DEF SharedInvariant, UnsentIsUnknown, Current
            <4>3. CASE ~Opening
                BY <4>3 DEF Current
            <4>4. QED BY <2>2, <4>1, <4>2, <4>3 DEF Settles
        <3>3. QED BY <3>1, <3>2 DEF Current
    <2>3. QED BY <2>1, <2>2
<1>14. RunsInOrder'
    BY <1>13 DEF SharedInvariant, RunsInOrder
<1>15. OpeningIsNext'
    BY <1>13 DEF SharedInvariant, OpeningIsNext, IsAnswered
<1>16. Captured'
    <2>1. SUFFICES ASSUME journal.run # 0, journal'.cleanup = "pending" \/ (library = "python" /\ journal'.capture # NoContent),
                          NEW i \in Nat, Sealed(journal.run, i)
                   PROVE  server.runs[journal.run].subs[i].content = journal'.capture
        BY DEF Captured, Sealed
    <2>2. QED BY <2>1 DEF CaptureFits, NothingSealed, SharedInvariant, Captured
<1>17. QED BY <1>5, <1>6, <1>9, <1>10, <1>11, <1>12, <1>14, <1>15, <1>16 DEF SharedInvariant

\* Saving another command changes nothing else in the journal.
LEMMA PendingUpdate ==
    ASSUME NEW j \in Journal, NEW p \in Command \cup {NoCommand}
    PROVE  LET new == [j EXCEPT !.pending = p] IN
           /\ new \in Journal /\ new.pending = p /\ new.run = j.run /\ new.capture = j.capture /\ new.cleanup = j.cleanup
           /\ new.mode = j.mode /\ new.workspace = j.workspace /\ new.view = j.view /\ new.stage = j.stage /\ new.flow = j.flow
           /\ new.state = j.state /\ new.sub = j.sub /\ new.sealed = j.sealed /\ new.receipt = j.receipt /\ new.last = j.last
           /\ new.recovery = j.recovery /\ new.doubt = j.doubt
BY DEF Journal

\* A command in another phase, or with its operation known, is the same command.
LEMMA PhaseUpdate ==
    ASSUME NEW p \in Command
    PROVE  /\ \A phase \in {"prepared", "sent", "refused"} :
                LET new == [p EXCEPT !.phase = phase] IN
                /\ new \in Command /\ new.phase = phase /\ new.op = p.op /\ new.kind = p.kind /\ new.key = p.key
                /\ new.run = p.run /\ new.sub = p.sub /\ new.content = p.content
           /\ LET new == [p EXCEPT !.op = TRUE] IN
              /\ new \in Command /\ new.phase = p.phase /\ new.op /\ new.kind = p.kind /\ new.key = p.key
              /\ new.run = p.run /\ new.sub = p.sub /\ new.content = p.content
BY DEF Command

\* The journal of a step that is about the same run and the same capture.
Alike(j) ==
    /\ j \in Journal /\ j.run = journal.run /\ j.capture = journal.capture /\ j.cleanup = journal.cleanup

\* A capture that stays fits.
LEMMA AlikeCapture ==
    ASSUME Alike(journal')
    PROVE  CaptureFits /\ journal' \in Journal /\ journal'.run = journal.run
BY DEF Alike, CaptureFits

\* Sending the saved command again cannot be its first attempt (Send).
LEMMA SendKeeps ==
    ASSUME SharedInvariant, library' = library, Pending, NEW j, Alike(j), j.pending = journal.pending,
           NEW first \in BOOLEAN, first => journal.pending.phase # "sent", Send(j, first)
    PROVE  /\ SharedInvariant' /\ SameCommand /\ journal'.pending.phase = "sent" /\ UNCHANGED service
           /\ journal' = [j EXCEPT !.pending = journal'.pending]
<1> DEFINE p == [journal.pending EXCEPT !.phase = "sent"]
<1>1. journal.pending \in Command /\ j \in Journal /\ journal.pending # NoCommand
    BY PendingIsCommand DEF SharedInvariant, Alike, Pending
<1>2. p \in Command /\ p.phase = "sent" /\ p.op = journal.pending.op /\ p.kind = journal.pending.kind /\ p.key = journal.pending.key
      /\ p.run = journal.pending.run /\ p.sub = journal.pending.sub /\ p.content = journal.pending.content
    BY <1>1, PhaseUpdate
<1>3. p # NoCommand
    BY <1>2, Basics
<1>4. journal' = [j EXCEPT !.pending = p]
    BY DEF Send
<1> HIDE DEF p
<1>5. journal' \in Journal /\ journal'.pending = p /\ journal'.run = j.run /\ journal'.capture = j.capture
      /\ journal'.cleanup = j.cleanup
    BY <1>1, <1>2, <1>4, PendingUpdate
<1>6. CaptureFits /\ journal'.run = journal.run
    BY <1>5, AlikeCapture DEF Alike
<1>7. SameCommand
    BY <1>2, <1>3, <1>5 DEF SameCommand
<1>8. call' = IF journal.pending.op THEN [at |-> "polling", first |-> FALSE] ELSE [at |-> "waiting", first |-> first]
    BY DEF Send
<1>9. CallFits
    <2>1. call' \in CallRecord /\ call'.at # "idle"
        BY <1>8 DEF CallRecord
    <2>2. call'.at = "polling" => journal.pending.op
        BY <1>8
    <2>3. journal.pending.op => IsAnswered(journal.pending.key)
        BY DEF SharedInvariant, CallIsPending
    <2>4. QED BY <2>1, <2>2, <2>3, <1>2, <1>3, <1>5 DEF CallFits
<1>10. Unsent' => Unsent
    <2>1. SUFFICES ASSUME Unsent' PROVE journal.pending.phase # "sent"
        BY DEF Unsent
    <2>2. call'.at = "waiting" /\ call'.first
        BY <2>1, <1>2, <1>5 DEF Unsent
    <2>3. QED BY <2>2, <1>8
<1>11. UNCHANGED <<server, answers, late, faults>>
    BY DEF Send, service
<1>12. faults \in Nat
    BY DEF SharedInvariant, ServiceTypes
<1>13. SharedInvariant'
    BY <1>5, <1>6, <1>7, <1>9, <1>10, <1>11, <1>12, QuietKeeps
<1>14. QED BY <1>2, <1>4, <1>5, <1>7, <1>11, <1>13 DEF service

\* A refused or denied request settles its command only if it was the first attempt (Read).
LEMMA RefusedKeeps ==
    ASSUME SharedInvariant, library' = library, NEW j, Alike(j), NEW status \in {"denied", "rejected"},
           Read(status, j, "idle"),
           \/ j.pending = journal.pending
           \/ call.first /\ j.pending = NoCommand
           \/ call.first /\ j.pending = [journal.pending EXCEPT !.phase = "refused"]
    PROVE  /\ SharedInvariant' /\ journal' = j /\ call' = Idle /\ UNCHANGED <<server, answers, late>> /\ (Settles \/ SameCommand)
<1>1. Pending /\ journal.pending.phase = "sent" /\ call.at = "waiting"
    BY DEF Read, SharedInvariant, CallIsPending
<1>2. journal.pending \in Command /\ journal.pending.key \in Keys /\ Asked.key = journal.pending.key /\ journal.pending # NoCommand
    BY <1>1, PendingIsCommand DEF SharedInvariant, Pending
<1>3. journal' = j /\ server' = server /\ late' = late /\ call' = Idle /\ call'.at = "idle"
    BY DEF Read, Respond, Idle
<1>4. faults \in Nat /\ faults' \in Nat /\ faults' <= faults
    <2>1. faults \in Nat
        BY DEF SharedInvariant, ServiceTypes
    <2>2. faults' = faults \/ (faults > 0 /\ faults' = faults - 1)
        BY DEF Read, Respond
    <2>3. QED BY <2>1, <2>2
<1>5. answers \in [Keys -> Answer]
    BY DEF SharedInvariant, ServiceTypes
<1>6. call.first => Unsent /\ answers[journal.pending.key] = NoAnswer
    BY <1>1 DEF SharedInvariant, UnsentIsUnknown, Unsent, IsAnswered
<1>7. j.pending = NoCommand => call.first
    BY <1>2, Basics, PhaseUpdate
<1>8. answers' = answers
    <2>1. answers' = Remembered(j, answers[Asked.key])
        BY DEF Read
    <2>2. QED BY <2>1, <1>2, <1>5, <1>6, <1>7 DEF Remembered
<1>9. Settles \/ (SameCommand /\ (Unsent' => Unsent))
    <2>1. CASE j.pending = journal.pending
        <3>1. SameCommand
            BY <2>1, <1>1, <1>3 DEF SameCommand, Pending
        <3>2. ~Unsent'
            BY <2>1, <1>1, <1>3 DEF Unsent, Idle
        <3>3. QED BY <3>1, <3>2
    <2>2. CASE call.first /\ j.pending = NoCommand
        BY <2>2, <1>3, <1>6 DEF Settles
    <2>3. CASE call.first /\ j.pending = [journal.pending EXCEPT !.phase = "refused"]
        <3>1. j.pending \in Command /\ j.pending.kind = journal.pending.kind /\ j.pending.key = journal.pending.key
              /\ j.pending.run = journal.pending.run /\ j.pending.sub = journal.pending.sub /\ j.pending.content = journal.pending.content
            BY <2>3, <1>2 DEF Command
        <3>2. SameCommand
            BY <1>1, <1>3, <3>1, Basics DEF SameCommand
        <3>3. QED BY <2>3, <3>2, <1>6
    <2>4. QED BY <2>1, <2>2, <2>3
<1>10. CallFits
    <2>1. journal'.pending # NoCommand /\ journal'.pending.op => journal.pending.op
        BY <1>2, <1>3 DEF Command
    <2>2. journal.pending.op => IsAnswered(journal.pending.key)
        BY <1>1 DEF SharedInvariant, CallIsPending
    <2>3. QED BY <2>1, <2>2, <1>1, <1>3, Basics DEF CallFits
<1>11. CaptureFits /\ journal' \in Journal /\ journal'.run = journal.run
    BY <1>3, AlikeCapture DEF Alike
<1>12. SharedInvariant'
    BY <1>3, <1>4, <1>8, <1>9, <1>10, <1>11, QuietKeeps
<1>13. QED BY <1>3, <1>8, <1>9, <1>12

\* The outcome of an operation is learned after its acceptance was (Learn).
LEMMA LearnKeeps ==
    ASSUME SharedInvariant, library' = library, NEW j, Alike(j), Learn(j), ~Opening,
           j.pending = journal.pending \/ j.pending = NoCommand
    PROVE  /\ SharedInvariant' /\ journal' = j /\ call' = Idle /\ UNCHANGED <<server, late>> /\ (Settles \/ SameCommand) /\ Pending
           /\ SameCommand => answers' = answers
<1>1. Pending /\ journal.pending.phase = "sent" /\ journal.pending.op /\ IsAnswered(journal.pending.key)
    BY DEF Learn, SharedInvariant, CallIsPending
<1>2. journal.pending.key \in Keys /\ Asked.key = journal.pending.key /\ journal.pending # NoCommand
    BY <1>1, PendingIsCommand DEF SharedInvariant, Pending
<1>3. journal' = j /\ server' = server /\ late' = late /\ faults' = faults /\ call' = Idle /\ call'.at = "idle"
    BY DEF Learn, Idle
<1>4. faults \in Nat /\ answers \in [Keys -> Answer]
    BY DEF SharedInvariant, ServiceTypes
<1>5. /\ j.pending = journal.pending => answers' = answers
      /\ \/ answers' = answers
         \/ j.pending = NoCommand /\ ~Carried(journal.pending.key) /\ answers' = [answers EXCEPT ![journal.pending.key] = NoAnswer]
    <2>1. answers' = Remembered(j, answers[Asked.key])
        BY DEF Learn
    <2>2. QED BY <2>1, <1>2, <1>4 DEF Remembered, Carried
<1>6. Settles \/ (SameCommand /\ ~Unsent')
    <2>1. CASE j.pending = journal.pending
        BY <2>1, <1>1, <1>2, <1>3 DEF SameCommand, Unsent, Idle
    <2>2. CASE j.pending = NoCommand
        BY <2>2, <1>1, <1>3 DEF Settles
    <2>3. QED BY <2>1, <2>2
<1>7. CallFits
    BY <1>1, <1>3, Basics DEF CallFits
<1>8. CaptureFits /\ journal' \in Journal /\ journal'.run = journal.run
    BY <1>3, AlikeCapture DEF Alike
<1>9. SharedInvariant'
    BY <1>1, <1>3, <1>4, <1>5, <1>6, <1>7, <1>8, QuietKeeps
<1>10. SameCommand => j.pending = journal.pending
    BY <1>3 DEF SameCommand
<1>11. QED BY <1>1, <1>3, <1>5, <1>6, <1>9, <1>10

\* A request that is given up stays on its way as an attempt of the pending command (GiveUp).
LEMMA GiveUpKeeps ==
    ASSUME SharedInvariant, library' = library, NEW j, Alike(j), GiveUp(j), j.pending = journal.pending
    PROVE  /\ SharedInvariant' /\ journal' = j /\ call' = Idle /\ UNCHANGED <<server, answers>> /\ SameCommand
<1>1. Pending /\ journal.pending.phase = "sent"
    BY DEF GiveUp, SharedInvariant, CallIsPending, SessionTypes
<1>2. journal' = j /\ server' = server /\ answers' = answers /\ call' = Idle /\ call'.at = "idle" /\ faults > 0 /\ faults' = faults - 1
      /\ (late' = late \/ late' = late \cup {Asked})
    BY DEF GiveUp, Idle
<1>3. faults \in Nat
    BY DEF SharedInvariant, ServiceTypes
<1>4. faults' \in Nat /\ faults' <= faults
    BY <1>2, <1>3
<1>5. SameCommand /\ ~Unsent'
    BY <1>1, <1>2 DEF SameCommand, Unsent, Idle, Pending
<1>6. CallFits
    BY <1>1, <1>2, Basics DEF CallFits, SharedInvariant, CallIsPending
<1>7. CaptureFits /\ journal' \in Journal /\ journal'.run = journal.run
    BY <1>2, AlikeCapture DEF Alike
<1>8. SharedInvariant'
    BY <1>2, <1>4, <1>5, <1>6, <1>7, QuietKeeps
<1>9. QED BY <1>2, <1>5, <1>8

\* A step on the journal and the files alone, or a failed download (Local, Hydrate).
LEMMA LocalKeeps ==
    ASSUME SharedInvariant, library' = library, journal' \in Journal, journal'.run = journal.run,
           journal'.pending = journal.pending \/ (Pending /\ journal.pending.phase = "refused" /\ journal'.pending = NoCommand),
           call = Idle, UNCHANGED <<call, server, answers, late>>, faults' = faults \/ (faults > 0 /\ faults' = faults - 1), CaptureFits
    PROVE  SharedInvariant'
<1>1. faults \in Nat
    BY DEF SharedInvariant, ServiceTypes
<1>2. faults' \in Nat /\ faults' <= faults
    BY <1>1
<1>3. Settles \/ (SameCommand /\ (Unsent' => Unsent))
    <2>1. CASE ~Pending
        BY <2>1 DEF Settles, Pending
    <2>2. CASE Pending /\ journal'.pending = journal.pending
        BY <2>2 DEF SameCommand, Pending, Unsent
    <2>3. CASE Pending /\ journal.pending.phase = "refused" /\ journal'.pending = NoCommand
        BY <2>3 DEF Settles, Unsent
    <2>4. QED BY <2>1, <2>2, <2>3
<1>4. CallFits
    <2>1. call \in CallRecord /\ call.at = "idle"
        BY Basics DEF Idle
    <2>2. QED BY <2>1 DEF CallFits, SharedInvariant, CallIsPending, Pending
<1>5. QED BY <1>2, <1>3, <1>4, QuietKeeps

\* The command that a step saves.
LEMMA NewIntent ==
    ASSUME SharedInvariant, NEW kind \in Kinds
    PROVE  /\ Intent(kind) \in Command /\ Intent(kind) # NoCommand /\ Intent(kind).kind = kind /\ Intent(kind).key = Unused
           /\ Unused \in Keys /\ ~Carried(Unused)
           /\ Intent(kind).run = IF kind \in {"workspace:create", "run:open"} THEN 0 ELSE journal.run
           /\ kind \in {"workspace:create", "run:open"} => Intent(kind).sub = 0
           /\ Intent(kind).sub \in {0, journal.sub} /\ (journal.mode # "read-write" /\ kind = "finalize" => Intent(kind).sub = 0)
           /\ kind = "submission:seal" => Intent(kind).content = journal.capture
           /\ Intent(kind).phase = "prepared" /\ ~Intent(kind).op
           /\ [kind |-> kind, key |-> Unused, run |-> Intent(kind).run, sub |-> Intent(kind).sub, content |-> Intent(kind).content]
                \in Request
<1>1. Unused \in Keys /\ ~Carried(Unused)
    BY FreeKey DEF SharedInvariant
<1>2. journal.run \in 0 .. MaxRuns /\ journal.sub \in Nat /\ journal.capture \in Contents \cup {NoContent}
    BY DEF SharedInvariant, SessionTypes, Journal
<1>3. 0 \in 0 .. MaxRuns
    BY Basics
<1> DEFINE k == Unused
<1>5. k \in Keys
    BY <1>1
<1> HIDE DEF k
<1>6. /\ Intent(kind) \in Command /\ Intent(kind).kind = kind /\ Intent(kind).key = k
      /\ Intent(kind).run = IF kind \in {"workspace:create", "run:open"} THEN 0 ELSE journal.run
      /\ kind \in {"workspace:create", "run:open"} => Intent(kind).sub = 0
      /\ Intent(kind).sub \in {0, journal.sub} /\ (journal.mode # "read-write" /\ kind = "finalize" => Intent(kind).sub = 0)
      /\ kind = "submission:seal" => Intent(kind).content = journal.capture
      /\ Intent(kind).phase = "prepared" /\ ~Intent(kind).op
    BY <1>2, <1>3, <1>5 DEF Intent, Command, k
<1>7. Intent(kind).run \in 0 .. MaxRuns /\ Intent(kind).sub \in Nat /\ Intent(kind).content \in Contents \cup {NoContent}
    BY <1>6 DEF Command
<1>8. [kind |-> kind, key |-> k, run |-> Intent(kind).run, sub |-> Intent(kind).sub, content |-> Intent(kind).content] \in Request
    BY <1>5, <1>7 DEF Request, Kinds
<1>9. QED BY <1>1, <1>6, <1>8, Basics DEF k

\* A new command takes the place of none, or of one that the server cannot know (Prepare).
LEMMA PrepareKeeps ==
    ASSUME SharedInvariant, library' = library, call = Idle, NEW kind \in Kinds, NEW j, Alike(j), Prepare(kind, j),
           Pending => journal.pending.phase = "refused",
           kind \notin {"workspace:create", "run:open"} => journal.run # 0,
           kind = "run:open" => (journal.run # 0 => server.runs[journal.run].state \in Terminal)
    PROVE  /\ SharedInvariant' /\ journal' = [j EXCEPT !.pending = Intent(kind)] /\ UNCHANGED <<server, late, faults>>
           /\ answers'[Intent(kind).key] = NoAnswer
<1> DEFINE p == Intent(kind)
           k == p.key
<1>1. /\ p \in Command /\ p # NoCommand /\ p.kind = kind /\ k = Unused /\ k \in Keys /\ ~Carried(k)
      /\ p.run = IF kind \in {"workspace:create", "run:open"} THEN 0 ELSE journal.run
      /\ kind \in {"workspace:create", "run:open"} => p.sub = 0
      /\ kind = "submission:seal" => p.content = journal.capture
      /\ p.phase = "prepared" /\ ~p.op
      /\ [kind |-> kind, key |-> k, run |-> p.run, sub |-> p.sub, content |-> p.content] \in Request
    BY NewIntent
<1>2. journal' = [j EXCEPT !.pending = p] /\ answers' = [answers EXCEPT ![k] = NoAnswer]
      /\ UNCHANGED <<files, call, server, late, faults>>
    BY <1>1 DEF Prepare
<1> HIDE DEF p
<1>3. journal' \in Journal /\ journal'.pending = p /\ journal'.run = journal.run /\ journal'.capture = journal.capture
      /\ journal'.cleanup = journal.cleanup
    BY <1>1, <1>2, PendingUpdate DEF Alike
<1>4. ServiceTypes /\ SessionTypes
    BY DEF SharedInvariant
<1>5. answers' \in [Keys -> Answer] /\ answers'[k] = NoAnswer /\ \A l \in Keys \ {k} : answers'[l] = answers[l]
    BY <1>1, <1>2, <1>4, Basics DEF ServiceTypes
<1> HIDE DEF k
<1>6. journal'.pending.key = k
    BY <1>3 DEF k
<1>7. ServiceTypes' /\ SessionTypes'
    BY <1>2, <1>3, <1>4, <1>5 DEF ServiceTypes, SessionTypes
<1>8. FewLate'
    BY <1>2 DEF SharedInvariant, FewLate
<1>9. \A q \in late : q.key \in Keys /\ q.key # k /\ IsAnswered(q.key)
    <2>1. SUFFICES ASSUME NEW q \in late PROVE q.key \in Keys /\ q.key # k /\ IsAnswered(q.key)
        OBVIOUS
    <2>2. q.key \in Keys
        BY <1>4 DEF ServiceTypes, Request
    <2>3. q.key # k
        BY <1>1 DEF Carried
    <2>4. IsAnswered(q.key)
        BY DEF SharedInvariant, LateIsHarmless, UnsentIsUnknown, Unsent, Carried
    <2>5. QED BY <2>2, <2>3, <2>4
<1>10. LateIsHarmless'
    <2>1. \A q \in late : q.key # k /\ answers'[q.key] # NoAnswer
        BY <1>5, <1>9 DEF IsAnswered
    <2>2. QED BY <2>1, <1>2, <1>6 DEF LateIsHarmless, IsAnswered
<1>11. UnsentIsUnknown'
    <2>1. ~\E q \in late' : q.key = k
        BY <1>2, <1>9
    <2>2. QED BY <2>1, <1>5, <1>6 DEF UnsentIsUnknown, IsAnswered, Carried
<1>12. CallIsPending'
    BY <1>1, <1>2, <1>3 DEF CallIsPending, Idle
<1>13. CommandFits'
    <2>1. Asked' \in Request
        <3>1. Asked' = [kind |-> kind, key |-> k, run |-> p.run, sub |-> p.sub, content |-> p.content]
            BY <1>1, <1>3 DEF Asked, k
        <3>2. QED BY <3>1, <1>1
    <2>2. QED BY <2>1, <1>1, <1>3 DEF CommandFits
<1>14. Current = journal.run
    <2>1. CASE ~Pending
        BY <2>1, Basics DEF Current, Opening, Pending
    <2>2. CASE Pending
        BY <2>2 DEF SharedInvariant, UnsentIsUnknown, Unsent, Current
    <2>3. QED BY <2>1, <2>2
<1>15. ~IsAnswered(journal.pending.key)' /\ Current' = journal.run
    BY <1>3, <1>5, <1>6 DEF Current, IsAnswered
<1>16. RunsInOrder'
    BY <1>2, <1>14, <1>15 DEF SharedInvariant, RunsInOrder
<1>17. OpeningIsNext'
    BY <1>1, <1>2, <1>3, <1>15 DEF OpeningIsNext, Opening
<1>18. Captured'
    BY <1>2, <1>3 DEF SharedInvariant, Captured, Sealed
<1>19. SharedInvariant'
    BY <1>7, <1>8, <1>10, <1>11, <1>12, <1>13, <1>16, <1>17, <1>18 DEF SharedInvariant
<1>20. QED BY <1>2, <1>5, <1>19 DEF p, k

\* An accepted command is settled, or goes on as an operation that the server knows (Read).
LEMMA AcceptedKeeps ==
    ASSUME SharedInvariant, library' = library, NEW j \in Journal, NEW at \in {"idle", "polling"}, Read("accepted", j, at),
           j.run = (IF Opening THEN Answered(Asked).run ELSE journal.run), j.cleanup = journal.cleanup,
           ~Opening => j.capture = journal.capture,
           \/ at = "idle" /\ j.pending = NoCommand
           \/ ~Opening /\ j.pending = [journal.pending EXCEPT !.op = TRUE]
    PROVE  /\ SharedInvariant' /\ journal' = j /\ UNCHANGED late /\ Pending /\ Handle(Asked) /\ Answered(Asked) # NoAnswer
           /\ j.pending # NoCommand => SameCommand /\ answers' = [answers EXCEPT ![journal.pending.key] = Answered(Asked)]
<1>1. Pending /\ journal.pending.phase = "sent"
    BY DEF Read, SharedInvariant, CallIsPending
<1>2. journal.pending \in Command /\ journal.pending.key \in Keys /\ Asked.key = journal.pending.key /\ Asked \in Request
      /\ journal.pending # NoCommand
    BY <1>1, PendingIsCommand, RunOfCommand DEF SharedInvariant, Pending
<1>3. Handle(Asked) /\ Answered(Asked) # NoAnswer /\ faults' = faults
    BY DEF Read, Respond
<1>4. journal' = j /\ late' = late /\ call' = [at |-> at, first |-> FALSE]
    BY DEF Read
<1> DEFINE a == Answered(Asked)
           k == journal.pending.key
<1>5. ServedAs(a) /\ a \in Answer
    BY <1>1, <1>3, AskedServed, RunOfCommand
<1>6. answers' = [answers EXCEPT ![k] = IF j.pending = NoCommand /\ ~Carried(k) THEN NoAnswer ELSE a]
    <2>1. answers' = Remembered(j, a)
        BY DEF Read
    <2>2. QED BY <2>1, <1>2 DEF Remembered, Carried
<1> HIDE DEF a
<1>7. ServiceTypes /\ SessionTypes
    BY DEF SharedInvariant
<1>8. answers' \in [Keys -> Answer] /\ \A l \in Keys \ {k} : answers'[l] = answers[l]
    BY <1>2, <1>5, <1>6, <1>7, Basics DEF ServiceTypes
<1>9. (j.pending # NoCommand \/ Carried(k) => answers'[k] = a) /\ a # NoAnswer
    BY <1>2, <1>3, <1>6, <1>7 DEF ServiceTypes, a
<1>10. j.pending # NoCommand => /\ ~Opening /\ j.pending \in Command /\ j.pending.phase = "sent" /\ j.pending.op /\ SameCommand
    BY <1>1, <1>2, <1>4 DEF Command, SameCommand
<1> HIDE DEF k
<1>11. j.pending # NoCommand => journal'.pending.key = k
    BY <1>4, <1>10 DEF SameCommand, k
<1>12. ServiceTypes' /\ SessionTypes'
    <2>1. call' \in CallRecord /\ (call'.at = "idle" => call' = Idle)
        BY <1>4 DEF CallRecord, Idle
    <2>2. QED BY <2>1, <1>3, <1>4, <1>5, <1>7, <1>8 DEF ServiceTypes, SessionTypes, ServedAs
<1>13. FewLate'
    BY <1>3, <1>4 DEF SharedInvariant, FewLate
<1>14. LateIsHarmless'
    <2>1. SUFFICES ASSUME NEW q \in late
                   PROVE  IF journal'.pending # NoCommand /\ q.key = journal'.pending.key THEN q = Asked' ELSE answers'[q.key] # NoAnswer
        BY <1>4 DEF LateIsHarmless, Pending, IsAnswered
    <2>2. q.key \in Keys
        BY <1>7 DEF ServiceTypes, Request
    <2>3. IF q.key = k THEN q = Asked ELSE answers[q.key] # NoAnswer
        BY <1>1 DEF SharedInvariant, LateIsHarmless, IsAnswered, k
    <2>4. CASE q.key = k
        <3>1. answers'[q.key] # NoAnswer
            BY <2>4, <1>9 DEF Carried
        <3>2. j.pending # NoCommand => Asked' = Asked
            BY <1>10 DEF SameCommand, Asked
        <3>3. QED BY <2>3, <2>4, <3>1, <3>2, <1>4
    <2>5. CASE q.key # k
        BY <2>2, <2>3, <2>5, <1>4, <1>8, <1>11
    <2>6. QED BY <2>4, <2>5
<1>15. UnsentIsUnknown'
    BY <1>4, <1>10 DEF UnsentIsUnknown, Unsent, Pending
<1>16. CallIsPending'
    <2>1. call'.at = at
        BY <1>4
    <2>2. j.pending # NoCommand => answers'[journal'.pending.key] # NoAnswer
        BY <1>9, <1>11
    <2>3. at # "idle" => j.pending \in Command
        BY <1>2 DEF Command
    <2>4. QED BY <2>1, <2>2, <2>3, <1>4, <1>10, Basics DEF CallIsPending, Pending, IsAnswered
<1>17. CommandFits'
    <2>1. SUFFICES ASSUME j.pending # NoCommand PROVE CommandFits'
        BY <1>4 DEF CommandFits, Pending
    <2>2. Asked' = Asked /\ ~Opening
        BY <2>1, <1>10 DEF SameCommand, Asked
    <2>3. QED BY <2>1, <2>2, <1>4, <1>10 DEF SharedInvariant, CommandFits, SameCommand
<1>18. ~Opening'
    BY <1>4, <1>10, Basics DEF Opening, SameCommand
<1>19. Current' = j.run
    BY <1>4, <1>18 DEF Current
<1>20. j.run = IF Opening THEN a.run ELSE journal.run
    BY DEF a
<1>21. RunsInOrder'
    <2>1. \A r \in Runs : /\ server'.runs[r].state # "none" <=> r <= j.run
                          /\ server'.runs[r].state \in Live => r = j.run
        BY <1>5, <1>20 DEF ServedAs
    <2>2. QED BY <2>1, <1>19 DEF RunsInOrder
<1>22. OpeningIsNext'
    BY <1>18 DEF OpeningIsNext
<1>23. Captured'
    <2>1. SUFFICES ASSUME j.run # 0, j.cleanup = "pending" \/ (library = "python" /\ j.capture # NoContent),
                          NEW i \in Nat, SealedNext(j.run, i)
                   PROVE  server'.runs[j.run].subs[i].content = j.capture
        BY <1>4 DEF Captured, Sealed, SealedNext
    <2>2. CASE Opening
        <3>1. server'.runs[j.run].subs = <<>>
            BY <2>2, <1>5, <1>20 DEF ServedAs
        <3>2. QED BY <2>1, <3>1 DEF SealedNext
    <2>3. CASE ~Opening
        <3>1. j.run = journal.run /\ j.capture = journal.capture
            BY <2>3
        <3>2. CASE Sealed(journal.run, i) /\ server'.runs[journal.run].subs[i].content = server.runs[journal.run].subs[i].content
            BY <2>1, <3>1, <3>2 DEF SharedInvariant, Captured
        <3>3. CASE journal.pending.kind = "submission:seal" /\ server'.runs[journal.run].subs[i].content = journal.pending.content
            BY <3>1, <3>3, <1>1 DEF SharedInvariant, CommandFits
        <3>4. QED BY <2>1, <3>1, <3>2, <3>3, <1>5 DEF ServedAs
    <2>4. QED BY <2>2, <2>3
<1>24. SharedInvariant'
    BY <1>12, <1>13, <1>14, <1>15, <1>16, <1>17, <1>21, <1>22, <1>23 DEF SharedInvariant
<1>25. QED BY <1>1, <1>3, <1>4, <1>6, <1>10, <1>24 DEF a, k

-----------------------------------------------------------------------------
(* Steps of the service *)

\* A step of the service on a run: a live one moves on, nothing else changes.
RunsMove ==
    /\ server' \in ServerRecord
    /\ \A r \in Runs :
          /\ server'.runs[r].subs = server.runs[r].subs /\ server'.runs[r].source = server.runs[r].source
          /\ server'.runs[r].own = server.runs[r].own /\ server'.runs[r].base = server.runs[r].base
          /\ server'.runs[r].state = server.runs[r].state \/ (server.runs[r].state \in Live /\ server'.runs[r].state # "none")

\* Runs that move on, and requests that are lost, disturb nothing.
LEMMA MoveKeeps ==
    ASSUME SessionInvariant, UNCHANGED <<library, journal, call, answers>>, RunsMove, late' \subseteq late,
           faults' \in Nat, faults' <= faults
    PROVE  SessionInvariant'
<1>1. SharedInvariant /\ LibraryInvariant /\ ServiceTypes
    BY DEF SessionInvariant, SharedInvariant
<1>2. ServiceTypes' /\ SessionTypes'
    BY <1>1 DEF SharedInvariant, ServiceTypes, SessionTypes, RunsMove
<1>3. FewLate'
    <2>1. IsFiniteSet(late) /\ Cardinality(late) \in Nat /\ Cardinality(late) + faults <= MaxFaults /\ faults \in Nat
        BY <1>1, FS_CardinalityType DEF SharedInvariant, FewLate, ServiceTypes
    <2> DEFINE rest == late'
    <2>2. rest \in SUBSET late
        OBVIOUS
    <2> HIDE DEF rest
    <2>3. IsFiniteSet(rest) /\ Cardinality(rest) <= Cardinality(late)
        BY <2>1, <2>2, FS_Subset
    <2>4. Cardinality(rest) \in Nat
        BY <2>3, FS_CardinalityType
    <2>5. IsFiniteSet(rest) /\ Cardinality(rest) + faults' <= MaxFaults
        BY <2>1, <2>3, <2>4, Basics
    <2>6. QED BY <2>5 DEF FewLate, rest
<1>4. LateIsHarmless' /\ UnsentIsUnknown' /\ CallIsPending' /\ CommandFits'
    <2>1. Asked' = Asked
        BY DEF Asked
    <2>2. LateIsHarmless'
        BY <1>1, <2>1 DEF SharedInvariant, LateIsHarmless, Pending, IsAnswered
    <2>3. UnsentIsUnknown'
        BY <1>1 DEF SharedInvariant, UnsentIsUnknown, Pending, IsAnswered, Unsent, Carried
    <2>4. CallIsPending' /\ CommandFits'
        BY <1>1, <2>1 DEF SharedInvariant, CallIsPending, CommandFits, Pending, IsAnswered
    <2>5. QED BY <2>2, <2>3, <2>4
<1>5. Current' = Current /\ Opening' = Opening /\ IsAnswered(journal.pending.key)' = IsAnswered(journal.pending.key)
    BY DEF Current, Opening, IsAnswered
<1>6. EndsAreFinal
    BY DEF RunsMove, EndsAreFinal, Live, Terminal
<1>7. RunsInOrder'
    <2>1. \A r \in Runs : /\ server'.runs[r].state # "none" <=> r <= Current
                          /\ server'.runs[r].state \in Live => r = Current
        BY <1>1 DEF RunsMove, SharedInvariant, RunsInOrder, Live
    <2>2. QED BY <2>1, <1>5 DEF RunsInOrder
<1>8. journal.run # 0 => journal.run \in Runs
    BY <1>1, Basics DEF SharedInvariant, SessionTypes, Journal, Runs
<1>9. OpeningIsNext'
    <2>1. Opening /\ journal.run # 0 => server'.runs[journal.run].state \in Terminal
        BY <1>1, <1>6, <1>8 DEF SharedInvariant, OpeningIsNext, EndsAreFinal
    <2>2. Opening /\ IsAnswered(journal.pending.key) => Current \in Runs /\ journal.run < Current /\ server'.runs[Current].subs = <<>>
                                                         /\ server'.runs[Current].source = 0
        BY <1>1 DEF SharedInvariant, OpeningIsNext, RunsMove
    <2>3. QED BY <2>1, <2>2, <1>5 DEF OpeningIsNext
<1>10. \A i : journal.run # 0 => (Sealed(journal.run, i)' <=> Sealed(journal.run, i))
    BY <1>8 DEF Sealed, RunsMove
<1>11. Captured'
    BY <1>1, <1>8, <1>10 DEF SharedInvariant, Captured, RunsMove
<1>12. SharedInvariant'
    BY <1>2, <1>3, <1>4, <1>7, <1>9, <1>11 DEF SharedInvariant
<1>13. (Ended => Ended') /\ (Unsealed => Unsealed')
    <2>1. Ended => Ended'
        BY <1>6, <1>8 DEF Ended, EndsAreFinal
    <2>2. Unsealed => Unsealed'
        BY <1>10 DEF Unsealed, NothingSealed
    <2>3. QED BY <2>1, <2>2
<1>14. TypescriptKnows'
    BY <1>1, <1>5, <1>13 DEF LibraryInvariant, TypescriptKnows
<1>15. PythonKnows'
    <2>1. journal.run # 0 => server'.runs[journal.run].subs = server.runs[journal.run].subs
        BY <1>8 DEF RunsMove
    <2>2. journal.pending.kind \in {"submission:create", "finalize"} => journal.run # 0
        BY <1>1, Basics DEF SharedInvariant, CommandFits, Pending
    <2>3. SubmissionKnown /\ journal.run # 0 => SubmissionKnown'
        BY <2>1 DEF SubmissionKnown
    <2>4. QED BY <2>1, <2>2, <2>3, <1>1, <1>5, <1>13 DEF LibraryInvariant, PythonKnows, OnRunPhases
<1>16. PythonPublishes'
    <2>1. (Opening /\ IsAnswered(journal.pending.key)) \/ (library = "python" /\ journal.stage = "hydrating") => Current \in Runs
        <3>1. CASE Opening /\ IsAnswered(journal.pending.key)
            BY <3>1, <1>1 DEF SharedInvariant, OpeningIsNext
        <3>2. CASE library = "python" /\ journal.stage = "hydrating"
            <4>1. ~Opening /\ journal.run # 0
                BY <3>2, <1>1 DEF LibraryInvariant, PythonKnows, OnRunPhases
            <4>2. QED BY <4>1, <1>8 DEF Current
        <3>3. QED BY <3>1, <3>2
    <2>2. Current \in Runs => server'.runs[Current].own = server.runs[Current].own /\ server'.runs[Current].base = server.runs[Current].base
        BY DEF RunsMove
    <2>3. journal.run # 0 => server'.runs[journal.run].source = server.runs[journal.run].source
        BY <1>8 DEF RunsMove
    <2> HIDE DEF Sealed, Current
    <2>4. \A i : journal.run # 0 /\ Sealed(journal.run, i) => SealedNext(journal.run, i)
        BY <1>10 DEF SealedNext, Sealed
    <2>5. ASSUME library = "python", journal.run # 0, server'.runs[journal.run].source # 0
          PROVE  SealedNext(journal.run, server'.runs[journal.run].source)
        BY <2>3, <2>4, <2>5, <1>1 DEF LibraryInvariant, PythonPublishes
    <2>6. ASSUME library = "python", (Opening /\ IsAnswered(journal.pending.key)) \/ journal.stage = "hydrating",
                 server'.runs[Current].own, journal.capture # NoContent
          PROVE  server'.runs[Current].base = journal.capture
        BY <2>1, <2>2, <2>6, <1>1 DEF LibraryInvariant, PythonPublishes
    <2>7. QED BY <2>5, <2>6, <1>5 DEF PythonPublishes, SealedNext, Sealed
<1>17. PhpKnows'
    BY <1>1, <1>13 DEF LibraryInvariant, PhpKnows, Pending
<1>18. QED BY <1>1, <1>12, <1>14, <1>15, <1>16, <1>17 DEF SessionInvariant, LibraryInvariant

\* A late attempt of the pending command is accepted: the answer waits for the session to ask again.
LEMMA LateAttemptKeeps ==
    ASSUME SessionInvariant, UNCHANGED <<library, journal, call, faults>>, Pending, Asked \in late, late' = late \ {Asked},
           Handle(Asked), Answered(Asked) # NoAnswer,
           answers' = [answers EXCEPT ![journal.pending.key] = Answered(Asked)]
    PROVE  SessionInvariant'
<1> DEFINE a == Answered(Asked)
           k == journal.pending.key
           n == journal.run
<1>1. SharedInvariant /\ LibraryInvariant /\ ServiceTypes /\ SessionTypes
    BY DEF SessionInvariant, SharedInvariant
<1>2. k \in Keys /\ Asked.key = k /\ (n # 0 => n \in Runs)
    BY <1>1, PendingIsCommand, RunOfCommand
<1>3. ServedAs(a) /\ (library = "python" => ServedSubmission(a))
    BY <1>1, AskedServed DEF LibraryInvariant
<1>4. answers' \in [Keys -> Answer] /\ answers'[k] = a /\ a # NoAnswer /\ \A l \in Keys \ {k} : answers'[l] = answers[l]
    BY <1>1, <1>2, <1>3 DEF ServedAs, ServiceTypes
<1> HIDE DEF a, k
<1>5. ServiceTypes' /\ SessionTypes'
    BY <1>1, <1>3, <1>4 DEF ServiceTypes, SessionTypes, ServedAs
<1>6. FewLate'
    <2>1. IsFiniteSet(late) /\ Cardinality(late) \in Nat /\ Cardinality(late) + faults <= MaxFaults /\ faults \in Nat
        BY <1>1, FS_CardinalityType DEF SharedInvariant, FewLate, ServiceTypes
    <2>2. IsFiniteSet(late \ {Asked}) /\ Cardinality(late \ {Asked}) = Cardinality(late) - 1
        BY <2>1, FS_RemoveElement
    <2>3. QED BY <2>1, <2>2, Basics DEF FewLate
<1>7. LateIsHarmless'
    <2>1. SUFFICES ASSUME NEW q \in late' PROVE IF q.key = k THEN q = Asked ELSE answers'[q.key] # NoAnswer
        BY DEF LateIsHarmless, IsAnswered, Asked, Pending, k
    <2>2. q \in late /\ q.key \in Keys
        BY <2>1, <1>1 DEF ServiceTypes, Request
    <2>3. QED BY <2>2, <1>1, <1>4 DEF SharedInvariant, LateIsHarmless, IsAnswered, k
<1>8. ~Unsent
    BY <1>1, <1>2 DEF SharedInvariant, UnsentIsUnknown, Carried, k
<1>9. UnsentIsUnknown'
    BY <1>8 DEF UnsentIsUnknown, Unsent
<1>10. CallIsPending' /\ CommandFits'
    <2>1. Asked' = Asked /\ answers'[journal'.pending.key] # NoAnswer
        BY <1>4 DEF Asked, k
    <2>2. QED BY <2>1, <1>1 DEF SharedInvariant, CallIsPending, CommandFits, Pending, IsAnswered
<1>11. Opening' = Opening /\ IsAnswered(journal.pending.key)' /\ Current' = IF Opening THEN a.run ELSE n
    BY <1>4 DEF Opening, IsAnswered, Current, k
<1>12. RunsInOrder'
    <2>1. \A r \in Runs : /\ server'.runs[r].state # "none" <=> r <= (IF Opening THEN a.run ELSE n)
                          /\ server'.runs[r].state \in Live => r = (IF Opening THEN a.run ELSE n)
        BY <1>3 DEF ServedAs
    <2>2. QED BY <2>1, <1>11 DEF RunsInOrder
<1>13. EndsAreFinal
    BY <1>3 DEF ServedAs
<1>14. OpeningIsNext'
    <2>1. Opening /\ n # 0 => server'.runs[n].state \in Terminal
        BY <1>1, <1>2, <1>13 DEF SharedInvariant, OpeningIsNext, EndsAreFinal
    <2>2. Opening => a.run \in Runs /\ n < a.run /\ server'.runs[a.run].subs = <<>> /\ server'.runs[a.run].source = 0
        BY <1>3 DEF ServedAs
    <2>3. QED BY <2>1, <2>2, <1>11 DEF OpeningIsNext
<1>15. n # 0 => \A i \in Nat : SealedNext(n, i) =>
          \/ Sealed(n, i) /\ server'.runs[n].subs[i].content = server.runs[n].subs[i].content
          \/ journal.pending.kind = "submission:seal" /\ server'.runs[n].subs[i].content = journal.pending.content
    BY <1>3 DEF ServedAs
<1>16. journal.pending.kind = "submission:seal" => journal.pending.content = journal.capture
    BY <1>1 DEF SharedInvariant, CommandFits
<1>17. Captured'
    <2>1. SUFFICES ASSUME n # 0, journal.cleanup = "pending" \/ (library = "python" /\ journal.capture # NoContent),
                          NEW i \in Nat, SealedNext(n, i)
                   PROVE  server'.runs[n].subs[i].content = journal.capture
        BY DEF Captured, Sealed, SealedNext
    <2>2. QED BY <2>1, <1>1, <1>15, <1>16 DEF SharedInvariant, Captured
<1>18. SharedInvariant'
    BY <1>5, <1>6, <1>7, <1>9, <1>10, <1>12, <1>14, <1>17 DEF SharedInvariant
<1>19. (Ended => Ended') /\ (Unsealed => Unsealed')
    <2>1. Ended => Ended'
        BY <1>2, <1>13 DEF Ended, EndsAreFinal
    <2>2. Unsealed => Unsealed'
        <3>1. SUFFICES ASSUME Unsealed, n # 0, NEW i \in Nat, SealedNext(n, i) PROVE FALSE
            BY DEF Unsealed, NothingSealed, Sealed, SealedNext
        <3>2. QED BY <3>1, <1>15 DEF Unsealed, NothingSealed
    <2>3. QED BY <2>1, <2>2
<1>20. TypescriptKnows'
    <2>1. library \in {"typescript", "mcp"} /\ journal.pending.kind = "abort" => Ended'
        BY <1>1, AbortEnds DEF LibraryInvariant, TypescriptKnows, Ended
    <2>2. QED BY <1>1, <1>19, <2>1 DEF LibraryInvariant, TypescriptKnows
<1>21. PhpKnows'
    BY <1>1, <1>19 DEF LibraryInvariant, PhpKnows, Pending
<1>22. PythonKnows' /\ PythonPublishes'
    <2>1. SUFFICES ASSUME library = "python" PROVE PythonKnows' /\ PythonPublishes'
        BY DEF PythonKnows, PythonPublishes
    <2>2. /\ n # 0 /\ server'.runs[n].source # 0 => SealedNext(n, server'.runs[n].source)
          /\ ~Opening /\ n # 0 =>
               /\ Len(server.runs[n].subs) <= Len(server'.runs[n].subs)
               /\ server'.runs[n].own = server.runs[n].own
               /\ server'.runs[n].base = server.runs[n].base
          /\ journal.pending.kind = "submission:create" => a.sub \in 1 .. Len(server'.runs[n].subs)
          /\ Opening /\ server'.runs[a.run].own /\ journal.capture # NoContent => server'.runs[a.run].base = journal.capture
        BY <1>3, <2>1 DEF ServedSubmission
    <2>3. n # 0 => Len(server.runs[n].subs) \in Nat /\ Len(server'.runs[n].subs) \in Nat
        <3>1. n # 0 => server.runs[n] \in RunRecord /\ server'.runs[n] \in RunRecord
            BY <1>1, <1>2, <1>5 DEF ServiceTypes, ServerRecord
        <3>2. QED BY <3>1, RunFields
    <2>4. \A i \in Nat : ~Opening /\ n # 0 /\ i \in 1 .. Len(server.runs[n].subs) => i \in 1 .. Len(server'.runs[n].subs)
        BY <2>2, <2>3
    <2>5. journal.stage \in OnRunPhases => n # 0 /\ ~Opening
        BY <2>1, <1>1 DEF LibraryInvariant, PythonKnows, OnRunPhases
    <2>6. journal.pending.kind \in {"submission:create", "finalize"} => n # 0 /\ ~Opening
        BY <1>1, Basics DEF SharedInvariant, CommandFits, Pending, Opening
    <2>7. journal.sub \in Nat /\ journal.pending.sub \in Nat
        BY <1>1, PendingIsCommand DEF SessionTypes, Journal, Command
    <2>8. SubmissionKnown /\ journal.stage \in OnRunPhases => SubmissionKnown'
        BY <2>4, <2>5, <2>7 DEF SubmissionKnown
    <2>9. journal.pending.kind = "finalize" /\ journal.pending.sub \in 1 .. Len(server.runs[n].subs)
          => journal.pending.sub \in 1 .. Len(server'.runs[n].subs)
        BY <2>4, <2>6, <2>7
    <2>10. journal.pending.kind = "submission:create" => answers'[journal'.pending.key].sub \in 1 .. Len(server'.runs[n].subs)
        BY <2>2, <1>4 DEF k
    <2>11. PythonKnows'
        BY <2>1, <2>8, <2>9, <2>10, <1>1, <1>11, <1>19 DEF LibraryInvariant, PythonKnows, OnRunPhases
    <2>12. ASSUME Opening \/ journal.stage = "hydrating", server'.runs[Current'].own, journal.capture # NoContent
           PROVE  server'.runs[Current'].base = journal.capture
        <3>1. CASE Opening
            BY <3>1, <2>2, <2>12, <1>11
        <3>2. CASE ~Opening /\ journal.stage = "hydrating"
            <4>1. Current' = n /\ Current = n /\ n # 0
                BY <3>2, <2>5, <1>11 DEF Current, OnRunPhases
            <4>2. QED BY <4>1, <3>2, <2>1, <2>2, <2>12, <1>1 DEF LibraryInvariant, PythonPublishes
        <3>3. QED BY <2>12, <3>1, <3>2
    <2>13. PythonPublishes'
        <3>1. n # 0 /\ server'.runs[n].source # 0 => Sealed(n, server.runs[n].source)'
            BY <2>2 DEF SealedNext, Sealed
        <3>2. QED BY <3>1, <2>12, <1>11 DEF PythonPublishes
    <2>14. QED BY <2>11, <2>13
<1>23. QED BY <1>1, <1>18, <1>20, <1>21, <1>22 DEF SessionInvariant, LibraryInvariant

\* A late request is served or lost (DeliverLate).
LEMMA DeliverKeeps ==
    ASSUME SessionInvariant, UNCHANGED <<library, journal, call>>, NEW q \in late, DeliverLate(q)
    PROVE  SessionInvariant'
<1>1. SharedInvariant /\ ServiceTypes /\ SessionTypes
    BY DEF SessionInvariant, SharedInvariant
<1>2. late' = late \ {q} /\ faults' = faults /\ faults \in Nat /\ q.key \in Keys /\ answers \in [Keys -> Answer]
    BY <1>1 DEF DeliverLate, ServiceTypes, Request
<1>3. server' = server => RunsMove
    BY <1>1 DEF RunsMove, ServiceTypes
<1>4. CASE UNCHANGED <<server, answers>>
    BY <1>2, <1>3, <1>4, MoveKeeps
<1>5. CASE Handle(q) /\ answers' = [answers EXCEPT ![q.key] = Answered(q)]
    <2>1. CASE Answered(q) = answers[q.key] /\ server' = server
        <3>1. answers' = answers
            BY <2>1, <1>2, <1>5
        <3>2. QED BY <2>1, <3>1, <1>4
    <2>2. CASE answers[q.key] = NoAnswer /\ Acceptable(q)
        <3>1. Pending /\ q.key = journal.pending.key /\ q = Asked
            BY <2>2, <1>1 DEF SharedInvariant, LateIsHarmless, IsAnswered
        <3>2. CASE Answered(q) # NoAnswer
            BY <3>1, <3>2, <1>2, <1>5, LateAttemptKeeps
        <3>3. CASE Answered(q) = NoAnswer
            <4>1. FALSE
                <5>1. Answered(q) = [run |-> IF q.kind = "run:open" THEN NextRun ELSE q.run,
                         sub |-> IF q.kind = "submission:create" THEN Len(server.runs[q.run].subs) + 1 ELSE q.sub]
                    BY <2>2 DEF Answered
                <5>2. q.kind = "run:open" => NextRun # 0
                    BY <2>2, Basics DEF Acceptable
                <5>3. q.kind = "workspace:create" => q.sub = 0
                    BY <3>1, <1>1, RunOfCommand, PendingIsCommand
                <5>4. q.kind \notin {"run:open", "workspace:create"} => q.run # 0
                    BY <3>1, <1>1, RunOfCommand, PendingIsCommand, Basics
                <5>5. Answered(q).run = 0 /\ Answered(q).sub = 99
                    BY <3>3 DEF NoAnswer
                <5>6. QED BY <5>1, <5>2, <5>3, <5>4, <5>5
            <4>2. QED BY <4>1
        <3>4. QED BY <3>2, <3>3
    <2>3. CASE (answers[q.key] # NoAnswer \/ ~Acceptable(q)) /\ UNCHANGED server
        <3>1. Answered(q) = answers[q.key]
            BY <2>3 DEF Answered
        <3>2. QED BY <2>1, <2>3, <3>1
    <2>4. QED BY <2>2, <2>3, <1>5 DEF Handle
<1>6. QED BY <1>4, <1>5 DEF DeliverLate

\* A run that goes from one state to the next.
LEMMA StateMoves ==
    ASSUME ServiceTypes, NEW r \in Runs, NEW state \in RunStates \ {"none"}, server.runs[r].state \in Live,
           server' = [server EXCEPT !.runs[r].state = state]
    PROVE  RunsMove
<1> DEFINE old == server.runs[r]
           new == [old EXCEPT !.state = state]
<1>1. old \in RunRecord
    BY ServerFields
<1>2. /\ new \in RunRecord /\ new.state = state /\ new.subs = old.subs /\ new.source = old.source
      /\ new.own = old.own /\ new.base = old.base
    BY <1>1 DEF RunRecord
<1>3. server' = [server EXCEPT !.runs = [server.runs EXCEPT ![r] = new]]
    BY ServerFields
<1> HIDE DEF new
<1>4. server' \in ServerRecord /\ server'.runs[r] = new /\ \A s \in Runs \ {r} : server'.runs[s] = server.runs[s]
    BY <1>2, <1>3, OneRunChanges
<1>5. QED BY <1>2, <1>4 DEF RunsMove

\* Every step of the service keeps the invariant (DeliverLate, ProcessOperation, ExpireRun).
LEMMA ServiceKeeps ==
    ASSUME SessionInvariant, UNCHANGED <<library, journal, call>>, ServiceNext
    PROVE  SessionInvariant'
<1>1. ServiceTypes /\ faults \in Nat
    BY DEF SessionInvariant, SharedInvariant, ServiceTypes
<1>2. CASE \E q \in late : DeliverLate(q)
    BY <1>2, DeliverKeeps
<1>3. CASE ProcessOperation
    <2>1. RunsMove
        <3>1. CASE \E outcome \in {"created", "failed"} :
                      server.workspace = "creating" /\ server' = [server EXCEPT !.workspace = outcome]
            <4>1. PICK outcome \in {"created", "failed"} : server' = [server EXCEPT !.workspace = outcome]
                BY <3>1
            <4>2. server' \in ServerRecord /\ server'.runs = server.runs
                BY <4>1, <1>1, ServerFields DEF ServerRecord
            <4>3. QED BY <4>2 DEF RunsMove
        <3>2. CASE \E r \in Runs, outcome \in {"finalized", "conflicted", "failed"} :
                      server.runs[r].state = "finalizing" /\ server' = [server EXCEPT !.runs[r].state = outcome]
            <4>1. PICK r \in Runs, outcome \in {"finalized", "conflicted", "failed"} :
                      server.runs[r].state = "finalizing" /\ server' = [server EXCEPT !.runs[r].state = outcome]
                BY <3>2
            <4>2. outcome \in RunStates \ {"none"} /\ server.runs[r].state \in Live
                BY <4>1 DEF RunStates, Live
            <4>3. QED BY <4>1, <4>2, <1>1, StateMoves
        <3>3. QED BY <1>3, <3>1, <3>2 DEF ProcessOperation
    <2>2. UNCHANGED <<answers, late, faults>>
        BY <1>3 DEF ProcessOperation
    <2>3. QED BY <1>1, <2>1, <2>2, MoveKeeps
<1>4. CASE \E r \in Runs : ExpireRun(r)
    <2>1. PICK r \in Runs : ExpireRun(r)
        BY <1>4
    <2>2. PICK state \in {"lapsed", "expired"} :
             server.runs[r].state \in {"active", "lapsed"} /\ server' = [server EXCEPT !.runs[r].state = state]
        BY <2>1 DEF ExpireRun
    <2>3. state \in RunStates \ {"none"} /\ server.runs[r].state \in Live
        BY <2>2 DEF RunStates, Live
    <2>4. RunsMove
        BY <1>1, <2>2, <2>3, StateMoves
    <2>5. faults' \in Nat /\ faults' <= faults /\ UNCHANGED <<answers, late>>
        BY <1>1, <2>1 DEF ExpireRun
    <2>6. QED BY <2>4, <2>5, MoveKeeps
<1>5. QED BY <1>2, <1>3, <1>4 DEF ServiceNext

-----------------------------------------------------------------------------
(* The three libraries are instances: each has the shared operators under its own name *)

\* What the module of the TypeScript library takes from SessionJournal and SessionService is what this module takes from them.
LEMMA TypescriptValues ==
    /\ Ts!NoCommand = NoCommand /\ Ts!Idle = Idle /\ Ts!NoContent = NoContent /\ Ts!NoAnswer = NoAnswer
    /\ Ts!Terminal = Terminal /\ Ts!SubmissionCommands = SubmissionCommands /\ Ts!Runs = Runs
    /\ Ts!Pending = Pending /\ Ts!Asked = Asked /\ Ts!Outcome = Outcome /\ Ts!Reopenable = Reopenable
    /\ Ts!Renewing = Renewing /\ Ts!Unused = Unused /\ Ts!NextRun = NextRun
    /\ \A r : Ts!View(r) = View(r)
<1>1. /\ Ts!NoCommand = NoCommand /\ Ts!Idle = Idle /\ Ts!NoContent = NoContent /\ Ts!NoAnswer = NoAnswer
      /\ Ts!Terminal = Terminal /\ Ts!SubmissionCommands = SubmissionCommands /\ Ts!Runs = Runs
    BY DEF Ts!NoCommand, NoCommand, Ts!Idle, Idle, Ts!NoContent, NoContent, Ts!NoAnswer, NoAnswer, Ts!Terminal, Terminal,
           Ts!SubmissionCommands, SubmissionCommands, Ts!Runs, Runs
<1>2. /\ Ts!Pending = Pending /\ Ts!Outcome = Outcome /\ Ts!Reopenable = Reopenable /\ Ts!Renewing = Renewing
    BY <1>1 DEF Ts!Pending, Pending, Ts!Outcome, Outcome, Ts!Reopenable, Reopenable, Ts!Renewing, Renewing
<1>3. Ts!Asked = Asked /\ Ts!Unused = Unused
    BY <1>1 DEF Ts!Asked, Asked, Ts!Unused, Unused, Ts!Keys, Keys
<1>4. Ts!NextRun = NextRun
    <2>1. \A S : Ts!Cardinality(S) = Cardinality(S)
        BY Zenon DEF Ts!Cardinality, Cardinality, Ts!IsFiniteSet, IsFiniteSet
    <2>2. QED BY <2>1, Zenon DEF Ts!NextRun, NextRun, Ts!Runs, Runs
<1>5. \A r : Ts!View(r) = View(r)
    BY <1>1 DEF Ts!View, View
<1>6. QED BY <1>1, <1>2, <1>3, <1>4, <1>5

\* The same for the operators with parameters and the actions.
LEMMA TypescriptActions ==
    /\ \A kind, j : Ts!Prepare(kind, j) = Prepare(kind, j)
    /\ \A j, f : Ts!Local(j, f) = Local(j, f)
    /\ \A j, failed : Ts!Hydrate(j, failed) = Hydrate(j, failed)
    /\ \A j, first : Ts!Send(j, first) = Send(j, first)
    /\ \A j : Ts!Learn(j) = Learn(j) /\ Ts!GiveUp(j) = GiveUp(j)
    /\ \A j : Ts!Opened(j) = Opened(j) /\ Ts!Submitted(j) = Submitted(j)
    /\ \A status, j, at : Ts!Read(status, j, at) = Read(status, j, at)
<1>1. \A q : Ts!Acceptable(q) = Acceptable(q)
    BY TypescriptValues, Zenon DEF Ts!Acceptable, Acceptable
<1>2. \A q : Ts!Answered(q) = Answered(q)
    BY TypescriptValues, <1>1, Zenon DEF Ts!Answered, Answered
<1>3. Ts!Bases = Bases
    BY TypescriptValues, Zenon DEF Ts!Bases, Bases, Ts!Published, Published
<1>4. \A b : Ts!openRun(b) = openRun(b)
    <2>1. Ts!NoRun = NoRun
        BY DEF Ts!NoRun, NoRun
    <2>2. QED BY TypescriptValues, <2>1, SMT DEF Ts!openRun, openRun
<1>5. \A q : Ts!createSubmission(q) = createSubmission(q) /\ Ts!OnRun(q) = OnRun(q)
    BY TypescriptValues, Zenon DEF Ts!createSubmission, createSubmission, Ts!OnRun, OnRun
<1>6. \A q : Ts!Handle(q) = Handle(q)
    BY TypescriptValues, <1>1, <1>3, <1>4, <1>5, Zenon DEF Ts!Handle, Handle
<1>7. \A q, status : Ts!Respond(q, status) = Respond(q, status)
    BY TypescriptValues, <1>2, <1>6, Zenon DEF Ts!Respond, Respond
<1>8. \A kind, j : Ts!Prepare(kind, j) = Prepare(kind, j)
    <2>1. \A kind : Ts!Intent(kind) = Intent(kind)
        BY TypescriptValues, Zenon DEF Ts!Intent, Intent
    <2>2. QED BY TypescriptValues, <2>1, Zenon DEF Ts!Prepare, Prepare
<1>9. \A j, f : Ts!Local(j, f) = Local(j, f)
    BY TypescriptValues, Zenon DEF Ts!Local, Local, Ts!service, service
<1>10. \A j, failed : Ts!Hydrate(j, failed) = Hydrate(j, failed)
    BY TypescriptValues, <1>9, Zenon DEF Ts!Hydrate, Hydrate
<1>11. \A j, first : Ts!Send(j, first) = Send(j, first)
    BY TypescriptValues, Zenon DEF Ts!Send, Send, Ts!service, service
<1>12. \A j, a : Ts!Remembered(j, a) = Remembered(j, a)
    BY TypescriptValues, Zenon DEF Ts!Remembered, Remembered
<1>13. \A j : Ts!Learn(j) = Learn(j) /\ Ts!GiveUp(j) = GiveUp(j)
    BY TypescriptValues, <1>12, Zenon DEF Ts!Learn, Learn, Ts!GiveUp, GiveUp
<1>14. \A j : Ts!Opened(j) = Opened(j) /\ Ts!Submitted(j) = Submitted(j)
    BY TypescriptValues, <1>2, Zenon DEF Ts!Opened, Opened, Ts!Submitted, Submitted
<1>15. \A status, j, at : Ts!Read(status, j, at) = Read(status, j, at)
    BY TypescriptValues, <1>2, <1>7, <1>12, Zenon DEF Ts!Read, Read
<1>16. QED BY <1>8, <1>9, <1>10, <1>11, <1>13, <1>14, <1>15

\* What the module of the Python library takes from SessionJournal and SessionService is what this module takes from them.
LEMMA PythonValues ==
    /\ Py!NoCommand = NoCommand /\ Py!Idle = Idle /\ Py!NoContent = NoContent /\ Py!NoAnswer = NoAnswer
    /\ Py!Terminal = Terminal /\ Py!SubmissionCommands = SubmissionCommands /\ Py!Runs = Runs
    /\ Py!Pending = Pending /\ Py!Asked = Asked /\ Py!Outcome = Outcome /\ Py!Reopenable = Reopenable
    /\ Py!Renewing = Renewing /\ Py!Unused = Unused /\ Py!NextRun = NextRun
    /\ \A r : Py!View(r) = View(r)
<1>1. /\ Py!NoCommand = NoCommand /\ Py!Idle = Idle /\ Py!NoContent = NoContent /\ Py!NoAnswer = NoAnswer
      /\ Py!Terminal = Terminal /\ Py!SubmissionCommands = SubmissionCommands /\ Py!Runs = Runs
    BY DEF Py!NoCommand, NoCommand, Py!Idle, Idle, Py!NoContent, NoContent, Py!NoAnswer, NoAnswer, Py!Terminal, Terminal,
           Py!SubmissionCommands, SubmissionCommands, Py!Runs, Runs
<1>2. /\ Py!Pending = Pending /\ Py!Outcome = Outcome /\ Py!Reopenable = Reopenable /\ Py!Renewing = Renewing
    BY <1>1 DEF Py!Pending, Pending, Py!Outcome, Outcome, Py!Reopenable, Reopenable, Py!Renewing, Renewing
<1>3. Py!Asked = Asked /\ Py!Unused = Unused
    BY <1>1 DEF Py!Asked, Asked, Py!Unused, Unused, Py!Keys, Keys
<1>4. Py!NextRun = NextRun
    <2>1. \A S : Py!Cardinality(S) = Cardinality(S)
        BY Zenon DEF Py!Cardinality, Cardinality, Py!IsFiniteSet, IsFiniteSet
    <2>2. QED BY <2>1, Zenon DEF Py!NextRun, NextRun, Py!Runs, Runs
<1>5. \A r : Py!View(r) = View(r)
    BY <1>1 DEF Py!View, View
<1>6. QED BY <1>1, <1>2, <1>3, <1>4, <1>5

\* The same for the operators with parameters and the actions.
LEMMA PythonActions ==
    /\ \A kind, j : Py!Prepare(kind, j) = Prepare(kind, j)
    /\ \A j, f : Py!Local(j, f) = Local(j, f)
    /\ \A j, failed : Py!Hydrate(j, failed) = Hydrate(j, failed)
    /\ \A j, first : Py!Send(j, first) = Send(j, first)
    /\ \A j : Py!Learn(j) = Learn(j) /\ Py!GiveUp(j) = GiveUp(j)
    /\ \A j : Py!Opened(j) = Opened(j) /\ Py!Submitted(j) = Submitted(j)
    /\ \A status, j, at : Py!Read(status, j, at) = Read(status, j, at)
<1>1. \A q : Py!Acceptable(q) = Acceptable(q)
    BY PythonValues, Zenon DEF Py!Acceptable, Acceptable
<1>2. \A q : Py!Answered(q) = Answered(q)
    BY PythonValues, <1>1, Zenon DEF Py!Answered, Answered
<1>3. Py!Bases = Bases
    BY PythonValues, Zenon DEF Py!Bases, Bases, Py!Published, Published
<1>4. \A b : Py!openRun(b) = openRun(b)
    <2>1. Py!NoRun = NoRun
        BY DEF Py!NoRun, NoRun
    <2>2. QED BY PythonValues, <2>1, SMT DEF Py!openRun, openRun
<1>5. \A q : Py!createSubmission(q) = createSubmission(q) /\ Py!OnRun(q) = OnRun(q)
    BY PythonValues, Zenon DEF Py!createSubmission, createSubmission, Py!OnRun, OnRun
<1>6. \A q : Py!Handle(q) = Handle(q)
    BY PythonValues, <1>1, <1>3, <1>4, <1>5, Zenon DEF Py!Handle, Handle
<1>7. \A q, status : Py!Respond(q, status) = Respond(q, status)
    BY PythonValues, <1>2, <1>6, Zenon DEF Py!Respond, Respond
<1>8. \A kind, j : Py!Prepare(kind, j) = Prepare(kind, j)
    <2>1. \A kind : Py!Intent(kind) = Intent(kind)
        BY PythonValues, Zenon DEF Py!Intent, Intent
    <2>2. QED BY PythonValues, <2>1, Zenon DEF Py!Prepare, Prepare
<1>9. \A j, f : Py!Local(j, f) = Local(j, f)
    BY PythonValues, Zenon DEF Py!Local, Local, Py!service, service
<1>10. \A j, failed : Py!Hydrate(j, failed) = Hydrate(j, failed)
    BY PythonValues, <1>9, Zenon DEF Py!Hydrate, Hydrate
<1>11. \A j, first : Py!Send(j, first) = Send(j, first)
    BY PythonValues, Zenon DEF Py!Send, Send, Py!service, service
<1>12. \A j, a : Py!Remembered(j, a) = Remembered(j, a)
    BY PythonValues, Zenon DEF Py!Remembered, Remembered
<1>13. \A j : Py!Learn(j) = Learn(j) /\ Py!GiveUp(j) = GiveUp(j)
    BY PythonValues, <1>12, Zenon DEF Py!Learn, Learn, Py!GiveUp, GiveUp
<1>14. \A j : Py!Opened(j) = Opened(j) /\ Py!Submitted(j) = Submitted(j)
    BY PythonValues, <1>2, Zenon DEF Py!Opened, Opened, Py!Submitted, Submitted
<1>15. \A status, j, at : Py!Read(status, j, at) = Read(status, j, at)
    BY PythonValues, <1>2, <1>7, <1>12, Zenon DEF Py!Read, Read
<1>16. QED BY <1>8, <1>9, <1>10, <1>11, <1>13, <1>14, <1>15

\* What the module of the PHP library takes from SessionJournal and SessionService is what this module takes from them.
LEMMA PhpValues ==
    /\ Php!NoCommand = NoCommand /\ Php!Idle = Idle /\ Php!NoContent = NoContent /\ Php!NoAnswer = NoAnswer
    /\ Php!Terminal = Terminal /\ Php!SubmissionCommands = SubmissionCommands /\ Php!Runs = Runs
    /\ Php!Pending = Pending /\ Php!Asked = Asked /\ Php!Outcome = Outcome /\ Php!Reopenable = Reopenable
    /\ Php!Renewing = Renewing /\ Php!Unused = Unused /\ Php!NextRun = NextRun
    /\ \A r : Php!View(r) = View(r)
<1>1. /\ Php!NoCommand = NoCommand /\ Php!Idle = Idle /\ Php!NoContent = NoContent /\ Php!NoAnswer = NoAnswer
      /\ Php!Terminal = Terminal /\ Php!SubmissionCommands = SubmissionCommands /\ Php!Runs = Runs
    BY DEF Php!NoCommand, NoCommand, Php!Idle, Idle, Php!NoContent, NoContent, Php!NoAnswer, NoAnswer, Php!Terminal, Terminal,
           Php!SubmissionCommands, SubmissionCommands, Php!Runs, Runs
<1>2. /\ Php!Pending = Pending /\ Php!Outcome = Outcome /\ Php!Reopenable = Reopenable /\ Php!Renewing = Renewing
    BY <1>1 DEF Php!Pending, Pending, Php!Outcome, Outcome, Php!Reopenable, Reopenable, Php!Renewing, Renewing
<1>3. Php!Asked = Asked /\ Php!Unused = Unused
    BY <1>1 DEF Php!Asked, Asked, Php!Unused, Unused, Php!Keys, Keys
<1>4. Php!NextRun = NextRun
    <2>1. \A S : Php!Cardinality(S) = Cardinality(S)
        BY Zenon DEF Php!Cardinality, Cardinality, Php!IsFiniteSet, IsFiniteSet
    <2>2. QED BY <2>1, Zenon DEF Php!NextRun, NextRun, Php!Runs, Runs
<1>5. \A r : Php!View(r) = View(r)
    BY <1>1 DEF Php!View, View
<1>6. QED BY <1>1, <1>2, <1>3, <1>4, <1>5

\* The same for the operators with parameters and the actions.
LEMMA PhpActions ==
    /\ \A kind, j : Php!Prepare(kind, j) = Prepare(kind, j)
    /\ \A j, f : Php!Local(j, f) = Local(j, f)
    /\ \A j, failed : Php!Hydrate(j, failed) = Hydrate(j, failed)
    /\ \A j, first : Php!Send(j, first) = Send(j, first)
    /\ \A j : Php!Learn(j) = Learn(j) /\ Php!GiveUp(j) = GiveUp(j)
    /\ \A j : Php!Opened(j) = Opened(j) /\ Php!Submitted(j) = Submitted(j)
    /\ \A status, j, at : Php!Read(status, j, at) = Read(status, j, at)
<1>1. \A q : Php!Acceptable(q) = Acceptable(q)
    BY PhpValues, Zenon DEF Php!Acceptable, Acceptable
<1>2. \A q : Php!Answered(q) = Answered(q)
    BY PhpValues, <1>1, Zenon DEF Php!Answered, Answered
<1>3. Php!Bases = Bases
    BY PhpValues, Zenon DEF Php!Bases, Bases, Php!Published, Published
<1>4. \A b : Php!openRun(b) = openRun(b)
    <2>1. Php!NoRun = NoRun
        BY DEF Php!NoRun, NoRun
    <2>2. QED BY PhpValues, <2>1, SMT DEF Php!openRun, openRun
<1>5. \A q : Php!createSubmission(q) = createSubmission(q) /\ Php!OnRun(q) = OnRun(q)
    BY PhpValues, Zenon DEF Php!createSubmission, createSubmission, Php!OnRun, OnRun
<1>6. \A q : Php!Handle(q) = Handle(q)
    BY PhpValues, <1>1, <1>3, <1>4, <1>5, Zenon DEF Php!Handle, Handle
<1>7. \A q, status : Php!Respond(q, status) = Respond(q, status)
    BY PhpValues, <1>2, <1>6, Zenon DEF Php!Respond, Respond
<1>8. \A kind, j : Php!Prepare(kind, j) = Prepare(kind, j)
    <2>1. \A kind : Php!Intent(kind) = Intent(kind)
        BY PhpValues, Zenon DEF Php!Intent, Intent
    <2>2. QED BY PhpValues, <2>1, Zenon DEF Php!Prepare, Prepare
<1>9. \A j, f : Php!Local(j, f) = Local(j, f)
    BY PhpValues, Zenon DEF Php!Local, Local, Php!service, service
<1>10. \A j, failed : Php!Hydrate(j, failed) = Hydrate(j, failed)
    BY PhpValues, <1>9, Zenon DEF Php!Hydrate, Hydrate
<1>11. \A j, first : Php!Send(j, first) = Send(j, first)
    BY PhpValues, Zenon DEF Php!Send, Send, Php!service, service
<1>12. \A j, a : Php!Remembered(j, a) = Remembered(j, a)
    BY PhpValues, Zenon DEF Php!Remembered, Remembered
<1>13. \A j : Php!Learn(j) = Learn(j) /\ Php!GiveUp(j) = GiveUp(j)
    BY PhpValues, <1>12, Zenon DEF Php!Learn, Learn, Php!GiveUp, GiveUp
<1>14. \A j : Php!Opened(j) = Opened(j) /\ Php!Submitted(j) = Submitted(j)
    BY PhpValues, <1>2, Zenon DEF Php!Opened, Opened, Php!Submitted, Submitted
<1>15. \A status, j, at : Php!Read(status, j, at) = Read(status, j, at)
    BY PhpValues, <1>2, <1>7, <1>12, Zenon DEF Php!Read, Read
<1>16. QED BY <1>8, <1>9, <1>10, <1>11, <1>13, <1>14, <1>15

\* What the module of the MCP server's TypeScript session takes from SessionJournal and SessionService is what this module takes from them.
LEMMA McpTypescriptValues ==
    /\ Mcp!Ts!NoCommand = NoCommand /\ Mcp!Ts!Idle = Idle /\ Mcp!Ts!NoContent = NoContent /\ Mcp!Ts!NoAnswer = NoAnswer
    /\ Mcp!Ts!Terminal = Terminal /\ Mcp!Ts!SubmissionCommands = SubmissionCommands /\ Mcp!Ts!Runs = Runs
    /\ Mcp!Ts!Pending = Pending /\ Mcp!Ts!Asked = Asked /\ Mcp!Ts!Outcome = Outcome /\ Mcp!Ts!Reopenable = Reopenable
    /\ Mcp!Ts!Renewing = Renewing /\ Mcp!Ts!Unused = Unused /\ Mcp!Ts!NextRun = NextRun
    /\ \A r : Mcp!Ts!View(r) = View(r)
<1>1. /\ Mcp!Ts!NoCommand = NoCommand /\ Mcp!Ts!Idle = Idle /\ Mcp!Ts!NoContent = NoContent /\ Mcp!Ts!NoAnswer = NoAnswer
      /\ Mcp!Ts!Terminal = Terminal /\ Mcp!Ts!SubmissionCommands = SubmissionCommands /\ Mcp!Ts!Runs = Runs
    BY DEF Mcp!Ts!NoCommand, NoCommand, Mcp!Ts!Idle, Idle, Mcp!Ts!NoContent, NoContent, Mcp!Ts!NoAnswer, NoAnswer, Mcp!Ts!Terminal, Terminal,
           Mcp!Ts!SubmissionCommands, SubmissionCommands, Mcp!Ts!Runs, Runs
<1>2. /\ Mcp!Ts!Pending = Pending /\ Mcp!Ts!Outcome = Outcome /\ Mcp!Ts!Reopenable = Reopenable /\ Mcp!Ts!Renewing = Renewing
    BY <1>1 DEF Mcp!Ts!Pending, Pending, Mcp!Ts!Outcome, Outcome, Mcp!Ts!Reopenable, Reopenable, Mcp!Ts!Renewing, Renewing
<1>3. Mcp!Ts!Asked = Asked /\ Mcp!Ts!Unused = Unused
    BY <1>1 DEF Mcp!Ts!Asked, Asked, Mcp!Ts!Unused, Unused, Mcp!Ts!Keys, Keys
<1>4. Mcp!Ts!NextRun = NextRun
    <2>1. \A S : Mcp!Ts!Cardinality(S) = Cardinality(S)
        BY Zenon DEF Mcp!Ts!Cardinality, Cardinality, Mcp!Ts!IsFiniteSet, IsFiniteSet
    <2>2. QED BY <2>1, Zenon DEF Mcp!Ts!NextRun, NextRun, Mcp!Ts!Runs, Runs
<1>5. \A r : Mcp!Ts!View(r) = View(r)
    BY <1>1 DEF Mcp!Ts!View, View
<1>6. QED BY <1>1, <1>2, <1>3, <1>4, <1>5

\* The same for the operators with parameters and the actions.
LEMMA McpTypescriptActions ==
    /\ \A kind, j : Mcp!Ts!Prepare(kind, j) = Prepare(kind, j)
    /\ \A j, f : Mcp!Ts!Local(j, f) = Local(j, f)
    /\ \A j, failed : Mcp!Ts!Hydrate(j, failed) = Hydrate(j, failed)
    /\ \A j, first : Mcp!Ts!Send(j, first) = Send(j, first)
    /\ \A j : Mcp!Ts!Learn(j) = Learn(j) /\ Mcp!Ts!GiveUp(j) = GiveUp(j)
    /\ \A j : Mcp!Ts!Opened(j) = Opened(j) /\ Mcp!Ts!Submitted(j) = Submitted(j)
    /\ \A status, j, at : Mcp!Ts!Read(status, j, at) = Read(status, j, at)
<1>1. \A q : Mcp!Ts!Acceptable(q) = Acceptable(q)
    BY McpTypescriptValues, Zenon DEF Mcp!Ts!Acceptable, Acceptable
<1>2. \A q : Mcp!Ts!Answered(q) = Answered(q)
    BY McpTypescriptValues, <1>1, Zenon DEF Mcp!Ts!Answered, Answered
<1>3. Mcp!Ts!Bases = Bases
    BY McpTypescriptValues, Zenon DEF Mcp!Ts!Bases, Bases, Mcp!Ts!Published, Published
<1>4. \A b : Mcp!Ts!openRun(b) = openRun(b)
    <2>1. Mcp!Ts!NoRun = NoRun
        BY DEF Mcp!Ts!NoRun, NoRun
    <2>2. QED BY McpTypescriptValues, <2>1, SMT DEF Mcp!Ts!openRun, openRun
<1>5. \A q : Mcp!Ts!createSubmission(q) = createSubmission(q) /\ Mcp!Ts!OnRun(q) = OnRun(q)
    BY McpTypescriptValues, Zenon DEF Mcp!Ts!createSubmission, createSubmission, Mcp!Ts!OnRun, OnRun
<1>6. \A q : Mcp!Ts!Handle(q) = Handle(q)
    BY McpTypescriptValues, <1>1, <1>3, <1>4, <1>5, Zenon DEF Mcp!Ts!Handle, Handle
<1>7. \A q, status : Mcp!Ts!Respond(q, status) = Respond(q, status)
    BY McpTypescriptValues, <1>2, <1>6, Zenon DEF Mcp!Ts!Respond, Respond
<1>8. \A kind, j : Mcp!Ts!Prepare(kind, j) = Prepare(kind, j)
    <2>1. \A kind : Mcp!Ts!Intent(kind) = Intent(kind)
        BY McpTypescriptValues, Zenon DEF Mcp!Ts!Intent, Intent
    <2>2. QED BY McpTypescriptValues, <2>1, Zenon DEF Mcp!Ts!Prepare, Prepare
<1>9. \A j, f : Mcp!Ts!Local(j, f) = Local(j, f)
    BY McpTypescriptValues, Zenon DEF Mcp!Ts!Local, Local, Mcp!Ts!service, service
<1>10. \A j, failed : Mcp!Ts!Hydrate(j, failed) = Hydrate(j, failed)
    BY McpTypescriptValues, <1>9, Zenon DEF Mcp!Ts!Hydrate, Hydrate
<1>11. \A j, first : Mcp!Ts!Send(j, first) = Send(j, first)
    BY McpTypescriptValues, Zenon DEF Mcp!Ts!Send, Send, Mcp!Ts!service, service
<1>12. \A j, a : Mcp!Ts!Remembered(j, a) = Remembered(j, a)
    BY McpTypescriptValues, Zenon DEF Mcp!Ts!Remembered, Remembered
<1>13. \A j : Mcp!Ts!Learn(j) = Learn(j) /\ Mcp!Ts!GiveUp(j) = GiveUp(j)
    BY McpTypescriptValues, <1>12, Zenon DEF Mcp!Ts!Learn, Learn, Mcp!Ts!GiveUp, GiveUp
<1>14. \A j : Mcp!Ts!Opened(j) = Opened(j) /\ Mcp!Ts!Submitted(j) = Submitted(j)
    BY McpTypescriptValues, <1>2, Zenon DEF Mcp!Ts!Opened, Opened, Mcp!Ts!Submitted, Submitted
<1>15. \A status, j, at : Mcp!Ts!Read(status, j, at) = Read(status, j, at)
    BY McpTypescriptValues, <1>2, <1>7, <1>12, Zenon DEF Mcp!Ts!Read, Read
<1>16. QED BY <1>8, <1>9, <1>10, <1>11, <1>13, <1>14, <1>15

\* The TypeScript session behind a handle takes the steps of the TypeScript library.
LEMMA McpTakesTypescriptSteps ==
    /\ Mcp!Ts!reconcile = Ts!reconcile /\ Mcp!Ts!outcomeUnknown = Ts!outcomeUnknown /\ Mcp!Ts!heartbeat = Ts!heartbeat
    /\ Mcp!Ts!abort = Ts!abort /\ Mcp!Ts!cleanup = Ts!cleanup /\ Mcp!Ts!status = Ts!status
    /\ \A flow : Mcp!Ts!beginWorkflow(flow) = Ts!beginWorkflow(flow)
<1>1. \A kind, j : Mcp!Ts!prepare(kind, j) = Ts!prepare(kind, j)
    BY TypescriptValues, TypescriptActions, McpTypescriptValues, McpTypescriptActions, Zenon DEF Mcp!Ts!prepare, Ts!prepare
<1>2. Mcp!Ts!finishing = Ts!finishing /\ Mcp!Ts!sealing = Ts!sealing
    BY TypescriptValues, McpTypescriptValues, Zenon DEF Mcp!Ts!finishing, Ts!finishing, Mcp!Ts!sealing, Ts!sealing
<1>3. Mcp!Ts!dispatch = Ts!dispatch
    BY TypescriptValues, TypescriptActions, McpTypescriptValues, McpTypescriptActions, Zenon DEF Mcp!Ts!dispatch, Ts!dispatch
<1>4. Mcp!Ts!receive = Ts!receive
    <2>1. Mcp!Ts!accepted = Ts!accepted /\ \A status : Mcp!Ts!refused(status) = Ts!refused(status)
        BY TypescriptValues, TypescriptActions, McpTypescriptValues, McpTypescriptActions, Zenon
           DEF Mcp!Ts!accepted, Ts!accepted, Mcp!Ts!refused, Ts!refused
    <2>2. QED BY <2>1, TypescriptActions, McpTypescriptActions, Zenon DEF Mcp!Ts!receive, Ts!receive
<1>5. Mcp!Ts!learnCreation = Ts!learnCreation /\ Mcp!Ts!learnFinalization = Ts!learnFinalization
    BY TypescriptValues, TypescriptActions, McpTypescriptValues, McpTypescriptActions, Zenon
       DEF Mcp!Ts!learnCreation, Ts!learnCreation, Mcp!Ts!learnFinalization, Ts!learnFinalization
<1>6. Mcp!Ts!opening = Ts!opening /\ Mcp!Ts!seal = Ts!seal /\ Mcp!Ts!finish = Ts!finish
      /\ Mcp!Ts!reopen = Ts!reopen /\ Mcp!Ts!heartbeat = Ts!heartbeat /\ Mcp!Ts!abort = Ts!abort
    BY <1>1, <1>2, TypescriptValues, TypescriptActions, McpTypescriptValues, McpTypescriptActions, Zenon
       DEF Mcp!Ts!opening, Ts!opening, Mcp!Ts!seal, Ts!seal, Mcp!Ts!finish, Ts!finish, Mcp!Ts!reopen, Ts!reopen,
           Mcp!Ts!heartbeat, Ts!heartbeat, Mcp!Ts!abort, Ts!abort
<1>7. Mcp!Ts!hydrate = Ts!hydrate
    BY TypescriptValues, TypescriptActions, McpTypescriptValues, McpTypescriptActions, Zenon DEF Mcp!Ts!hydrate, Ts!hydrate
<1>8. Mcp!Ts!captureOnce = Ts!captureOnce /\ Mcp!Ts!submitted = Ts!submitted /\ Mcp!Ts!finalized = Ts!finalized
    BY TypescriptValues, TypescriptActions, McpTypescriptValues, McpTypescriptActions, Zenon
       DEF Mcp!Ts!captureOnce, Ts!captureOnce, Mcp!Ts!capture, Ts!capture, Mcp!Ts!submitted, Ts!submitted,
           Mcp!Ts!finalized, Ts!finalized
<1>9. Mcp!Ts!readRun = Ts!readRun /\ Mcp!Ts!status = Ts!status
    BY <1>2, TypescriptValues, TypescriptActions, McpTypescriptValues, McpTypescriptActions, Zenon
       DEF Mcp!Ts!readRun, Ts!readRun, Mcp!Ts!status, Ts!status
<1>10. Mcp!Ts!outcomeUnknown = Ts!outcomeUnknown
    BY TypescriptActions, McpTypescriptActions, Zenon DEF Mcp!Ts!outcomeUnknown, Ts!outcomeUnknown
<1>11. Mcp!Ts!cleanup = Ts!cleanup
    BY TypescriptValues, TypescriptActions, McpTypescriptValues, McpTypescriptActions, Zenon
       DEF Mcp!Ts!cleanup, Ts!cleanup, Mcp!Ts!removeOwnedTree, Ts!removeOwnedTree
<1>12. \A flow : Mcp!Ts!beginWorkflow(flow) = Ts!beginWorkflow(flow)
    BY TypescriptValues, TypescriptActions, McpTypescriptValues, McpTypescriptActions, Zenon
       DEF Mcp!Ts!beginWorkflow, Ts!beginWorkflow
<1>13. Mcp!Ts!reconcile = Ts!reconcile
    BY <1>2, <1>3, <1>4, <1>5, <1>6, <1>7, <1>8, <1>9, Zenon DEF Mcp!Ts!reconcile, Ts!reconcile
<1>14. QED BY <1>6, <1>9, <1>10, <1>11, <1>12, <1>13

-----------------------------------------------------------------------------
(* Steps of the TypeScript library *)

\* The journal itself is alike; the run of the journal is one of the service or none.
LEMMA JournalIsAlike ==
    ASSUME SharedInvariant
    PROVE  /\ Alike(journal) /\ journal.run \in 0 .. MaxRuns /\ (journal.run # 0 => journal.run \in Runs)
           /\ server \in ServerRecord /\ call \in CallRecord /\ faults \in Nat
<1>1. journal \in Journal /\ server \in ServerRecord /\ call \in CallRecord /\ faults \in Nat
    BY DEF SharedInvariant, SessionTypes, ServiceTypes
<1>2. journal.run \in 0 .. MaxRuns
    BY <1>1 DEF Journal
<1>3. QED BY <1>1, <1>2, Basics DEF Alike, Runs

\* What a read of a run shows is a state that it has, but for a lapsed lease.
LEMMA ViewIsState ==
    ASSUME server \in ServerRecord, NEW r \in Runs
    PROVE  /\ View(r) \in RunStates /\ (View(r) \in Terminal => server.runs[r].state \in Terminal)
           /\ server.runs[r].state \in RunStates /\ (server.runs[r].state \in Terminal => View(r) = server.runs[r].state)
<1>1. server.runs[r].state \in RunStates
    BY DEF ServerRecord, RunRecord
<1>2. QED BY <1>1 DEF View, RunStates, Terminal

\* A step that changes neither the server nor the run.
LEMMA SameRun ==
    ASSUME UNCHANGED server, journal'.run = journal.run
    PROVE  Ended' = Ended /\ NothingSealed' = NothingSealed
BY DEF Ended, NothingSealed, Sealed

\* What a quiet step may do to what the TypeScript library knows.
LEMMA TypescriptQuiet ==
    ASSUME TypescriptKnows, UNCHANGED <<library, server>>, journal'.run = journal.run,
           journal'.view = journal.view \/ (journal.run # 0 /\ (journal'.view \in Terminal => Ended)),
           journal'.stage \in {"finalized", "published-needs-reopen"} => Ended \/ journal'.stage = journal.stage,
           journal'.flow \in {"submit", "finalize", "checkpoint"} => journal.run # 0 \/ journal'.flow = journal.flow,
           journal'.cleanup = "pending" /\ journal'.capture = NoContent =>
             /\ journal.cleanup = "pending" /\ journal.capture = NoContent
             /\ journal'.pending.kind # "submission:seal",
           journal'.pending.kind = "abort" /\ IsAnswered(journal.pending.key)'
             => journal.pending.kind = "abort" /\ IsAnswered(journal.pending.key)
    PROVE  TypescriptKnows'
BY SameRun DEF TypescriptKnows, Unsealed

\* A new command of the TypeScript library fits what the library knows.
LEMMA TypescriptPrepares ==
    ASSUME SessionInvariant, UNCHANGED library, NEW kind \in Kinds, NEW j, Alike(j), Ts!prepare(kind, j),
           j.view = journal.view, j.stage = journal.stage, j.flow \in {journal.flow, "idle"},
           kind \notin {"workspace:create", "run:open"} => journal.run # 0,
           kind = "run:open" => (journal.run # 0 => server.runs[journal.run].state \in Terminal),
           kind = "submission:seal" => journal.capture # NoContent
    PROVE  SharedInvariant' /\ TypescriptKnows'
<1>1. SharedInvariant /\ TypescriptKnows /\ j \in Journal
    BY DEF SessionInvariant, LibraryInvariant, Alike
<1>2. call = Idle /\ ~Pending /\ Prepare(kind, j)
    BY TypescriptValues, TypescriptActions DEF Ts!prepare
<1>3. /\ SharedInvariant' /\ journal' = [j EXCEPT !.pending = Intent(kind)] /\ UNCHANGED server
      /\ answers'[Intent(kind).key] = NoAnswer
    BY <1>1, <1>2, PrepareKeeps
<1>4. Intent(kind) \in Command /\ Intent(kind).kind = kind
    BY <1>1, NewIntent
<1>5. /\ journal'.pending.kind = kind /\ journal'.run = journal.run /\ journal'.view = journal.view /\ journal'.stage = journal.stage
      /\ journal'.flow \in {journal.flow, "idle"} /\ journal'.capture = journal.capture /\ journal'.cleanup = journal.cleanup
      /\ journal'.pending = Intent(kind)
    BY <1>1, <1>3, <1>4, PendingUpdate DEF Alike
<1>6. TypescriptKnows'
    BY <1>1, <1>3, <1>5, TypescriptQuiet DEF IsAnswered
<1>7. QED BY <1>3, <1>6

\* A step of the TypeScript library that changes its journal and the local files.
LEMMA TypescriptLocal ==
    ASSUME SessionInvariant, UNCHANGED library, NEW j \in Journal, NEW f, Local(j, f),
           j.run = journal.run, j.pending = journal.pending,
           j.view = journal.view \/ (journal.run # 0 /\ (j.view \in Terminal => Ended)),
           j.stage \in {"finalized", "published-needs-reopen"} => Ended \/ j.stage = journal.stage,
           j.flow \in {"submit", "finalize", "checkpoint"} => journal.run # 0 \/ j.flow = journal.flow,
           \/ j.capture = journal.capture /\ j.cleanup = journal.cleanup
           \/ j.cleanup # "pending" /\ ~Pending
           \/ j.cleanup = journal.cleanup /\ ~Pending /\ journal.capture = NoContent /\ j.capture # NoContent,
           library \in {"typescript", "mcp"}
    PROVE  SharedInvariant' /\ TypescriptKnows'
<1>1. SharedInvariant /\ TypescriptKnows
    BY DEF SessionInvariant, LibraryInvariant
<1>2. journal' = j /\ call = Idle /\ UNCHANGED <<call, server, answers, late, faults>>
    BY DEF Local, service
<1>3. Pending => Pending'
    BY <1>2 DEF Pending
<1>4. ~Pending => journal.pending.kind = "none"
    BY Basics DEF Pending
<1>5. CaptureFits
    BY <1>1, <1>2, <1>4 DEF CaptureFits, TypescriptKnows, Unsealed
<1>6. SharedInvariant'
    BY <1>1, <1>2, <1>5, LocalKeeps
<1>7. TypescriptKnows'
    BY <1>1, <1>2, <1>4, TypescriptQuiet DEF TypescriptKnows, Unsealed, IsAnswered
<1>8. QED BY <1>6, <1>7

\* Sending, and giving up (dispatch, outcomeUnknown).
LEMMA TypescriptSends ==
    ASSUME SessionInvariant, UNCHANGED library, library \in {"typescript", "mcp"}, Ts!dispatch \/ Ts!outcomeUnknown
    PROVE  SharedInvariant' /\ TypescriptKnows'
<1>1. SharedInvariant /\ TypescriptKnows /\ Alike(journal) /\ journal \in Journal
    BY JournalIsAlike DEF SessionInvariant, LibraryInvariant, Alike
<1>2. CASE Ts!dispatch
    <2> DEFINE first == journal.pending.phase = "prepared" /\ ~journal.pending.op
    <2>1. call = Idle /\ Pending /\ Send(journal, first)
        BY <1>2, TypescriptValues, TypescriptActions DEF Ts!dispatch
    <2>2. first \in BOOLEAN /\ (first => journal.pending.phase # "sent")
        OBVIOUS
    <2> HIDE DEF first
    <2>3. /\ SharedInvariant' /\ SameCommand /\ UNCHANGED service
          /\ journal' = [journal EXCEPT !.pending = journal'.pending]
        BY <1>1, <2>1, <2>2, SendKeeps
    <2>4. journal'.run = journal.run /\ journal'.view = journal.view /\ journal'.stage = journal.stage
          /\ journal'.flow = journal.flow /\ journal'.capture = journal.capture /\ journal'.cleanup = journal.cleanup
        BY <1>1, <2>3 DEF Journal
    <2>5. TypescriptKnows'
        BY <1>1, <2>3, <2>4, TypescriptQuiet DEF service, SameCommand, TypescriptKnows, Unsealed, IsAnswered
    <2>6. QED BY <2>3, <2>5
<1>3. CASE Ts!outcomeUnknown
    <2>1. GiveUp(journal)
        BY <1>3, TypescriptActions DEF Ts!outcomeUnknown
    <2>2. SharedInvariant' /\ journal' = journal /\ UNCHANGED <<server, answers>>
        BY <1>1, <2>1, GiveUpKeeps
    <2>3. TypescriptKnows'
        BY <1>1, <2>2, TypescriptQuiet DEF TypescriptKnows, Unsealed, IsAnswered
    <2>4. QED BY <2>2, <2>3
<1>4. QED BY <1>2, <1>3

\* The result of an accepted command, saved (accepted).
LEMMA TypescriptAccepts ==
    ASSUME SessionInvariant, UNCHANGED library, library \in {"typescript", "mcp"},
           Read("accepted", Ts!accepted, IF journal.pending.kind \in {"finalize", "workspace:create"} THEN "polling" ELSE "idle")
    PROVE  SharedInvariant' /\ TypescriptKnows'
<1> DEFINE kind == journal.pending.kind
           j == Ts!accepted
           at == IF kind \in {"finalize", "workspace:create"} THEN "polling" ELSE "idle"
           a == Answered(Asked)
<1>1. SharedInvariant /\ TypescriptKnows /\ Alike(journal) /\ journal \in Journal /\ journal.run \in 0 .. MaxRuns
    BY JournalIsAlike DEF SessionInvariant, LibraryInvariant, Alike
<1>2. Pending /\ Respond(Asked, "accepted")
    BY <1>1 DEF Read, SharedInvariant, CallIsPending
<1>3. Handle(Asked) /\ a # NoAnswer
    BY <1>2 DEF Respond
<1>4. ServedAs(a)
    BY <1>1, <1>2, <1>3, AskedServed
<1>5. a \in Answer /\ journal.pending \in Command
    BY <1>1, <1>2, RunOfCommand, PendingIsCommand DEF SharedInvariant
<1>6. a.run \in 0 .. MaxRuns /\ a.sub \in Nat /\ kind \in Kinds
    BY <1>5 DEF Answer, Command
<1>7. CASE kind = "run:open"
    <2>1. j = [Opened(journal) EXCEPT !.stage = IF journal.flow = "checkpoint" THEN "refreshing" ELSE "opening",
                  !.capture = NoContent, !.sub = 0, !.sealed = FALSE, !.receipt = FALSE, !.last = "none"]
        BY <1>7, TypescriptValues, TypescriptActions DEF Ts!accepted, SubmissionCommands
    <2> HIDE DEF j
    <2>2. Opened(journal) = [journal EXCEPT !.run = a.run, !.view = "active", !.state = "provisioning", !.pending = NoCommand]
        BY DEF Opened
    <2> HIDE DEF a
    <2> DEFINE o == Opened(journal)
    <2>3a. o \in Journal /\ o.run = a.run /\ o.pending = NoCommand /\ o.cleanup = journal.cleanup /\ o.view = "active"
           /\ o.flow = journal.flow
        BY <1>1, <1>6, <2>2 DEF Journal, RunStates
    <2>3b. "refreshing" \in Stages /\ "opening" \in Stages
        BY DEF Stages
    <2> HIDE DEF o
    <2>3. /\ j \in Journal /\ j.run = a.run /\ j.pending = NoCommand /\ j.cleanup = journal.cleanup /\ j.view = "active"
          /\ j.stage \in {"refreshing", "opening"} /\ j.flow = journal.flow
        BY <2>1, <2>3a, <2>3b DEF Journal, o
    <2>4. at = "idle" /\ Read("accepted", j, at)
        BY <1>7 DEF j
    <2>5. SharedInvariant' /\ journal' = j
        BY <1>1, <1>7, <2>3, <2>4, AcceptedKeeps DEF Opening, a
    <2>6. a.run # 0 /\ server'.runs[a.run].subs = <<>>
        BY <1>4, <1>7, Basics DEF ServedAs, Opening
    <2>7. NothingSealed'
        BY <2>3, <2>5, <2>6 DEF NothingSealed, Sealed
    <2>8. TypescriptKnows'
        BY <2>3, <2>5, <2>6, <2>7, Basics DEF TypescriptKnows, Unsealed, Terminal
    <2>9. QED BY <2>5, <2>8
<1>8. CASE kind # "run:open"
    <2>1. /\ j \in Journal /\ j.run = journal.run /\ j.cleanup = journal.cleanup /\ j.capture = journal.capture
          /\ j.stage = journal.stage \/ j.stage = "aborted"
          /\ j.flow = journal.flow \/ j.flow = "idle"
          /\ j.view = journal.view \/ (kind = "run:heartbeat" /\ j.view = "active") \/ (kind = "abort" /\ j.view = "aborted")
          /\ \/ at = "idle" /\ j.pending = NoCommand
             \/ kind \in {"finalize", "workspace:create"} /\ j.pending = [journal.pending EXCEPT !.op = TRUE]
        <3>1. CASE kind \in SubmissionCommands
            <4>1. j = Submitted(journal)
                BY <3>1, TypescriptValues, TypescriptActions DEF Ts!accepted, SubmissionCommands
            <4>2. \/ j = [journal EXCEPT !.sub = a.sub, !.sealed = FALSE, !.pending = NoCommand]
                  \/ j = [journal EXCEPT !.receipt = TRUE, !.pending = NoCommand]
                  \/ j = [journal EXCEPT !.sealed = TRUE, !.pending = NoCommand]
                BY <3>1, <4>1 DEF Submitted, SubmissionCommands
            <4> HIDE DEF j, a
            <4>3. QED BY <1>1, <1>6, <3>1, <4>2 DEF Journal, SubmissionCommands
        <3>2. CASE kind = "run:heartbeat"
            <4>1. j = [journal EXCEPT !.view = "active", !.pending = NoCommand]
                BY <3>2, TypescriptValues DEF Ts!accepted, SubmissionCommands
            <4> HIDE DEF j
            <4>2. QED BY <1>1, <3>2, <4>1 DEF Journal, RunStates
        <3>3. CASE kind = "abort"
            <4>1. j = [journal EXCEPT !.view = "aborted", !.stage = "aborted", !.flow = "idle", !.pending = NoCommand]
                BY <3>3, TypescriptValues DEF Ts!accepted, SubmissionCommands
            <4> HIDE DEF j
            <4>2. "aborted" \in RunStates /\ "aborted" \in Stages /\ "idle" \in Flows
                BY DEF RunStates, Stages, Terminal, Flows
            <4>3. QED BY <1>1, <3>3, <4>1, <4>2 DEF Journal
        <3>4. CASE kind \in {"finalize", "workspace:create"}
            <4>1. j = [journal EXCEPT !.pending.op = TRUE]
                BY <3>4, TypescriptValues DEF Ts!accepted, SubmissionCommands
            <4> HIDE DEF j
            <4>2. [journal.pending EXCEPT !.op = TRUE] \in Command
                BY <1>5 DEF Command
            <4>3. QED BY <1>1, <3>4, <4>1, <4>2 DEF Journal
        <3>5. QED BY <1>6, <1>8, <3>1, <3>2, <3>3, <3>4 DEF Kinds, SubmissionCommands
    <2>2. Read("accepted", j, at) /\ at \in {"idle", "polling"}
        OBVIOUS
    <2> HIDE DEF j, at
    <2>3. /\ SharedInvariant' /\ journal' = j
          /\ j.pending # NoCommand => SameCommand
        BY <1>1, <1>8, <2>1, <2>2, AcceptedKeeps DEF Opening
    <2>4. journal.run # 0 => journal.run \in Runs
        BY <1>1, JournalIsAlike
    <2>5. kind \in {"run:heartbeat", "abort"} => journal.run # 0
        BY <1>1, <1>2 DEF SharedInvariant, CommandFits
    <2>6. Ended => Ended'
        BY <1>4, <2>1, <2>3, <2>4 DEF Ended, ServedAs, EndsAreFinal
    <2>7. kind = "abort" => Ended'
        BY <1>1, <1>2, <1>3, <2>1, <2>3, AbortEnds DEF Ended, TypescriptKnows
    <2>8. journal.run # 0 /\ NothingSealed /\ kind # "submission:seal" => NothingSealed'
        BY <1>4, <2>1, <2>3 DEF ServedAs, SealedNext, Sealed, NothingSealed
    <2>9. TypescriptKnows'
        <3>1. Unsealed => Unsealed'
            BY <2>1, <2>3, <2>8, Basics DEF Unsealed, SameCommand
        <3>2. j.pending.kind # "abort"
            BY <2>1, <2>3, Basics DEF SameCommand
        <3>3. QED BY <1>1, <2>1, <2>3, <2>5, <2>6, <2>7, <3>1, <3>2 DEF TypescriptKnows, Terminal
    <2>10. QED BY <2>3, <2>9
<1>9. QED BY <1>7, <1>8

\* A refused command, and a learned outcome (refused, learnCreation, learnFinalization).
LEMMA TypescriptSettles ==
    ASSUME SessionInvariant, UNCHANGED library, library \in {"typescript", "mcp"},
           \/ \E status \in {"denied", "rejected"} : Read(status, Ts!refused(status), "idle")
           \/ Ts!learnCreation \/ Ts!learnFinalization
    PROVE  SharedInvariant' /\ TypescriptKnows'
<1>1. SharedInvariant /\ TypescriptKnows /\ Alike(journal) /\ journal \in Journal /\ journal.run \in 0 .. MaxRuns
      /\ (journal.run # 0 => journal.run \in Runs) /\ server \in ServerRecord
    BY JournalIsAlike DEF SessionInvariant, LibraryInvariant, Alike
<1>2. NoCommand.kind = "none"
    BY Basics
<1>3. CASE \E status \in {"denied", "rejected"} : Read(status, Ts!refused(status), "idle")
    <2>1. PICK status \in {"denied", "rejected"} : Read(status, Ts!refused(status), "idle")
        BY <1>3
    <2> DEFINE j == Ts!refused(status)
    <2>2. \/ j = journal
          \/ call.first /\ j = [journal EXCEPT !.pending = NoCommand]
        BY TypescriptValues DEF Ts!refused
    <2>3. Read(status, j, "idle")
        BY <2>1
    <2> HIDE DEF j
    <2>4. /\ j \in Journal /\ Alike(j) /\ j.view = journal.view /\ j.stage = journal.stage /\ j.flow = journal.flow
          /\ j.pending = journal.pending \/ (call.first /\ j.pending = NoCommand)
        BY <1>1, <2>2 DEF Journal, Alike
    <2>5. SharedInvariant' /\ journal' = j /\ UNCHANGED <<server, answers>>
        BY <1>1, <2>3, <2>4, RefusedKeeps
    <2>6. TypescriptKnows'
        BY <1>1, <1>2, <2>4, <2>5, TypescriptQuiet DEF Alike, TypescriptKnows, Unsealed, IsAnswered
    <2>7. QED BY <2>5, <2>6
<1>4. CASE Ts!learnCreation
    <2> DEFINE j == IF server.workspace = "failed" THEN journal ELSE [journal EXCEPT !.workspace = TRUE, !.pending = NoCommand]
    <2>1. journal.pending.kind = "workspace:create" /\ Learn(j)
        BY <1>4, TypescriptValues, TypescriptActions DEF Ts!learnCreation
    <2> HIDE DEF j
    <2>2. /\ j \in Journal /\ Alike(j) /\ j.view = journal.view /\ j.stage = journal.stage /\ j.flow = journal.flow
          /\ j.pending = journal.pending \/ j.pending = NoCommand
        <3>1. j = journal \/ j = [journal EXCEPT !.workspace = TRUE, !.pending = NoCommand]
            BY DEF j
        <3>2. QED BY <1>1, <3>1 DEF Journal, Alike
    <2>3. SharedInvariant' /\ journal' = j /\ UNCHANGED server
        BY <1>1, <2>1, <2>2, LearnKeeps DEF Opening
    <2>4. TypescriptKnows'
        BY <1>1, <1>2, <2>1, <2>2, <2>3, TypescriptQuiet DEF Alike, TypescriptKnows, Unsealed
    <2>5. QED BY <2>3, <2>4
<1>5. CASE Ts!learnFinalization
    <2> DEFINE j == IF Outcome = "finalized"
                    THEN [journal EXCEPT !.view = Outcome, !.last = "succeeded", !.pending = NoCommand,
                            !.stage = IF journal.flow = "checkpoint" THEN "published-needs-reopen" ELSE "finalized"]
                    ELSE [journal EXCEPT !.view = Outcome, !.last = "failed", !.pending = NoCommand,
                            !.stage = Outcome, !.flow = "idle"]
    <2>1. journal.pending.kind = "finalize" /\ Outcome \in Terminal /\ Learn(j)
        BY <1>5, TypescriptValues, TypescriptActions, Zenon DEF Ts!learnFinalization
    <2>2. Outcome \in RunStates /\ Outcome \in Stages /\ {"published-needs-reopen", "finalized"} \subseteq Stages /\ "idle" \in Flows
        BY <2>1 DEF RunStates, Stages, Terminal, Flows
    <2>3. /\ j \in Journal /\ Alike(j) /\ j.view = Outcome /\ j.flow \in {journal.flow, "idle"} /\ j.pending = NoCommand
        BY <1>1, <2>2 DEF Journal, Alike
    <2> HIDE DEF j
    <2>4. SharedInvariant' /\ journal' = j /\ UNCHANGED server /\ Pending
        BY <1>1, <2>1, <2>3, LearnKeeps DEF Opening
    <2>5. journal.run # 0
        BY <1>1, <2>1, <2>4 DEF SharedInvariant, CommandFits
    <2>6. Ended
        BY <2>1, <2>5 DEF Ended, Outcome
    <2>7. TypescriptKnows'
        BY <1>1, <1>2, <2>3, <2>4, <2>5, <2>6, TypescriptQuiet DEF Alike, TypescriptKnows, Unsealed
    <2>8. QED BY <2>4, <2>7
<1>6. QED BY <1>3, <1>4, <1>5

\* The steps that save a new command.
LEMMA TypescriptCommands ==
    ASSUME SessionInvariant, UNCHANGED library, library \in {"typescript", "mcp"},
           Ts!opening \/ Ts!seal \/ Ts!finish \/ (Ts!reopen /\ Ts!prepare("run:open", journal)) \/ Ts!heartbeat \/ Ts!abort
    PROVE  SharedInvariant' /\ TypescriptKnows'
<1>1. SharedInvariant /\ TypescriptKnows /\ Alike(journal) /\ journal \in Journal
    BY JournalIsAlike DEF SessionInvariant, LibraryInvariant, Alike
<1>2. {"workspace:create", "run:open", "run:heartbeat", "submission:create", "submission:file",
       "submission:seal", "finalize", "abort"} \subseteq Kinds
    BY DEF Kinds
<1>3. Ts!sealing \/ Ts!finishing => journal.run # 0
    BY <1>1 DEF Ts!sealing, Ts!finishing, TypescriptKnows
<1>4. journal.view = "active" => journal.run # 0
    BY <1>1 DEF TypescriptKnows
<1>5. CASE Ts!opening
    <2>1. CASE Ts!prepare("workspace:create", journal)
        BY <2>1, <1>1, <1>2, TypescriptPrepares
    <2>2. CASE journal.run = 0 /\ Ts!prepare("run:open", journal)
        BY <2>2, <1>1, <1>2, TypescriptPrepares
    <2>3. QED BY <1>5, <2>1, <2>2 DEF Ts!opening
<1>6. CASE Ts!seal
    <2>1. PICK kind \in {"submission:create", "submission:file", "submission:seal"} :
             Ts!prepare(kind, journal) /\ Ts!sealing /\ journal.capture # NoContent
        BY <1>6, TypescriptValues DEF Ts!seal
    <2>2. QED BY <2>1, <1>1, <1>2, <1>3, TypescriptPrepares
<1>7. CASE Ts!finish
    <2>1. Ts!finishing /\ Ts!prepare("finalize", journal)
        BY <1>7 DEF Ts!finish
    <2>2. QED BY <2>1, <1>1, <1>2, <1>3, TypescriptPrepares
<1>8. CASE Ts!reopen /\ Ts!prepare("run:open", journal)
    <2>1. journal.stage \in {"finalized", "published-needs-reopen"}
        BY <1>8 DEF Ts!reopen
    <2>2. QED BY <2>1, <1>1, <1>2, <1>8, TypescriptPrepares DEF TypescriptKnows, Ended
<1>9. CASE Ts!heartbeat
    BY <1>9, <1>1, <1>2, TypescriptPrepares DEF Ts!heartbeat
<1>10. CASE Ts!abort
    <2> DEFINE j == [journal EXCEPT !.flow = "idle"]
    <2>1. journal.run # 0 /\ Ts!prepare("abort", j)
        BY <1>10, <1>4 DEF Ts!abort
    <2>2. Alike(j) /\ j.view = journal.view /\ j.stage = journal.stage /\ j.flow = "idle"
        BY <1>1 DEF Journal, Alike, Flows
    <2> HIDE DEF j
    <2>3. QED BY <2>1, <2>2, <1>2, TypescriptPrepares
<1>11. QED BY <1>5, <1>6, <1>7, <1>8, <1>9, <1>10

\* The steps that read the run, work on the local files or move the workflow on.
LEMMA TypescriptMoves ==
    ASSUME SessionInvariant, UNCHANGED library, library \in {"typescript", "mcp"},
           \/ Ts!captureOnce \/ Ts!submitted \/ Ts!readRun \/ Ts!finalized
           \/ Ts!reopen /\ journal.stage = "finalized"
           \/ Ts!status \/ Ts!cleanup
           \/ \E flow \in {"submit", "finalize", "checkpoint"} : Ts!beginWorkflow(flow)
    PROVE  SharedInvariant' /\ TypescriptKnows'
<1>1. SharedInvariant /\ TypescriptKnows /\ journal \in Journal /\ journal.run \in 0 .. MaxRuns
      /\ (journal.run # 0 => journal.run \in Runs) /\ server \in ServerRecord
    BY JournalIsAlike DEF SessionInvariant, LibraryInvariant, Alike
<1>2. /\ "idle" \in Flows /\ \A flow \in {"submit", "finalize", "checkpoint"} : flow \in Flows
      /\ "submitting" \in Stages /\ "published-needs-reopen" \in Stages /\ "expired" \in Stages
      /\ \A stage \in Terminal : stage \in Stages
    BY DEF Flows, Stages, Terminal
<1>3. CASE Ts!captureOnce
    <2> DEFINE j == [journal EXCEPT !.capture = files]
    <2>1. ~Pending /\ journal.capture = NoContent /\ files \in Contents /\ Local(j, files)
        BY <1>3, TypescriptValues, TypescriptActions DEF Ts!captureOnce, Ts!capture
    <2>2. j \in Journal /\ j.run = journal.run /\ j.pending = journal.pending /\ j.view = journal.view /\ j.stage = journal.stage
          /\ j.flow = journal.flow /\ j.cleanup = journal.cleanup /\ j.capture = files
        BY <1>1, <2>1 DEF Journal
    <2> HIDE DEF j
    <2>3. CASE j.capture # NoContent
        BY <2>1, <2>2, <2>3, TypescriptLocal
    <2>4. CASE j.capture = NoContent
        BY <2>1, <2>2, <2>4, TypescriptLocal
    <2>5. QED BY <2>3, <2>4
<1>4. CASE Ts!submitted \/ Ts!finalized
    <2> DEFINE j == [journal EXCEPT !.flow = "idle"]
    <2>1. Local(j, files)
        BY <1>4, TypescriptValues, TypescriptActions DEF Ts!submitted, Ts!finalized
    <2>2. j \in Journal /\ j.run = journal.run /\ j.pending = journal.pending /\ j.view = journal.view /\ j.stage = journal.stage
          /\ j.flow = "idle" /\ j.cleanup = journal.cleanup /\ j.capture = journal.capture
        BY <1>1, <1>2 DEF Journal
    <2> HIDE DEF j
    <2>3. QED BY <2>1, <2>2, TypescriptLocal
<1>5. CASE Ts!readRun \/ Ts!status
    <2> DEFINE seen == View(journal.run)
    <2>1. journal.run # 0
        BY <1>1, <1>5 DEF Ts!readRun, Ts!finishing, Ts!status, TypescriptKnows
    <2>2. seen \in RunStates /\ (seen \in Terminal => Ended)
        BY <1>1, <2>1, ViewIsState DEF Ended
    <2> HIDE DEF seen
    <2>3. \/ Local([journal EXCEPT !.view = seen, !.stage = IF seen = "expired" THEN "expired" ELSE @], files)
          \/ Local([journal EXCEPT !.view = seen], files)
        BY <1>5, TypescriptValues, TypescriptActions, Zenon DEF Ts!readRun, Ts!status, seen
    <2>4. PICK j : /\ Local(j, files)
                   /\ \/ j = [journal EXCEPT !.view = seen, !.stage = IF seen = "expired" THEN "expired" ELSE @]
                      \/ j = [journal EXCEPT !.view = seen]
        BY <2>3, Zenon
    <2>5. j \in Journal /\ j.run = journal.run /\ j.pending = journal.pending /\ j.view = seen /\ j.stage \in {journal.stage, "expired"}
          /\ j.flow = journal.flow /\ j.cleanup = journal.cleanup /\ j.capture = journal.capture
        BY <1>1, <1>2, <2>2, <2>4 DEF Journal
    <2>6. QED BY <2>1, <2>2, <2>4, <2>5, TypescriptLocal
<1>6. CASE Ts!reopen /\ journal.stage = "finalized"
    <2> DEFINE j == [journal EXCEPT !.stage = "published-needs-reopen"]
    <2>1. Local(j, files)
        BY <1>6, TypescriptActions DEF Ts!reopen
    <2>2. Ended
        BY <1>1, <1>6 DEF TypescriptKnows
    <2>3. j \in Journal /\ j.run = journal.run /\ j.pending = journal.pending /\ j.view = journal.view
          /\ j.flow = journal.flow /\ j.cleanup = journal.cleanup /\ j.capture = journal.capture
        BY <1>1, <1>2 DEF Journal
    <2> HIDE DEF j
    <2>4. QED BY <2>1, <2>2, <2>3, TypescriptLocal
<1>7. CASE Ts!cleanup
    <2>1. ~Pending /\ journal.view \in Terminal
        BY <1>7, TypescriptValues DEF Ts!cleanup
    <2>2. PICK j : /\ Local(j, "absent")
                   /\ \/ j = [journal EXCEPT !.flow = "idle", !.stage = journal.view, !.capture = NoContent,
                                !.receipt = FALSE, !.cleanup = "running"]
                      \/ j = [journal EXCEPT !.cleanup = "complete"]
        BY <1>7, TypescriptValues, TypescriptActions, Zenon DEF Ts!cleanup, Ts!removeOwnedTree
    <2>3. Ended
        BY <1>1, <2>1 DEF TypescriptKnows
    <2>4. j \in Journal /\ j.run = journal.run /\ j.pending = journal.pending /\ j.view = journal.view
          /\ j.flow \in {journal.flow, "idle"} /\ j.cleanup # "pending"
        BY <1>1, <1>2, <2>1, <2>2 DEF Journal
    <2>5. QED BY <2>1, <2>2, <2>3, <2>4, TypescriptLocal
<1>8. CASE \E flow \in {"submit", "finalize", "checkpoint"} : Ts!beginWorkflow(flow)
    <2>1. PICK flow \in {"submit", "finalize", "checkpoint"} : Ts!beginWorkflow(flow)
        BY <1>8
    <2> DEFINE j == [journal EXCEPT !.flow = flow, !.stage = IF flow = "submit" THEN "submitting" ELSE @]
    <2>2. Local(j, files) /\ Reopenable
        BY <2>1, TypescriptValues, TypescriptActions DEF Ts!beginWorkflow
    <2>3. journal.run # 0
        BY <1>1, <2>2, Basics DEF Reopenable
    <2>4. j \in Journal /\ j.run = journal.run /\ j.pending = journal.pending /\ j.view = journal.view
          /\ j.stage \in {journal.stage, "submitting"} /\ j.cleanup = journal.cleanup /\ j.capture = journal.capture
        BY <1>1, <1>2 DEF Journal
    <2> HIDE DEF j
    <2>5. QED BY <2>2, <2>3, <2>4, TypescriptLocal
<1>9. QED BY <1>3, <1>4, <1>5, <1>6, <1>7, <1>8

\* The tree is replaced by the base of the run, or a download fails (hydrate).
LEMMA TypescriptHydrates ==
    ASSUME SessionInvariant, UNCHANGED library, library \in {"typescript", "mcp"}, Ts!hydrate
    PROVE  SharedInvariant' /\ TypescriptKnows'
<1> DEFINE done == [journal EXCEPT !.state = "ready", !.stage = "ready", !.flow = "idle"]
           failed == [journal EXCEPT !.state = "failed"]
<1>1. SharedInvariant /\ TypescriptKnows /\ journal \in Journal /\ faults \in Nat
    BY JournalIsAlike DEF SessionInvariant, LibraryInvariant, Alike
<1>2. ~Pending /\ Hydrate(done, failed)
    BY TypescriptValues, TypescriptActions DEF Ts!hydrate
<1>3. "ready" \in Stages /\ "idle" \in Flows
    BY DEF Stages, Flows
<1>4. done \in Journal /\ done.run = journal.run /\ done.pending = journal.pending /\ done.view = journal.view
      /\ done.stage = "ready" /\ done.flow = "idle" /\ done.cleanup = journal.cleanup /\ done.capture = journal.capture
    BY <1>1, <1>3 DEF Journal
<1>5. failed \in Journal /\ failed.run = journal.run /\ failed.pending = journal.pending /\ failed.view = journal.view
      /\ failed.stage = journal.stage /\ failed.flow = journal.flow /\ failed.cleanup = journal.cleanup
      /\ failed.capture = journal.capture
    BY <1>1 DEF Journal
<1> HIDE DEF done, failed
<1>6. CASE Local(done, server.runs[journal.run].base)
    BY <1>4, <1>6, TypescriptLocal
<1>7. CASE /\ call = Idle /\ faults > 0 /\ faults' = faults - 1
           /\ journal' = failed /\ UNCHANGED <<call, server, answers, late>>
    <2>1. CaptureFits
        BY <1>5, <1>7, AlikeCapture DEF Alike
    <2>2. SharedInvariant'
        BY <1>1, <1>5, <1>7, <2>1, LocalKeeps
    <2>3. TypescriptKnows'
        BY <1>1, <1>5, <1>7, TypescriptQuiet DEF TypescriptKnows, Unsealed, IsAnswered
    <2>4. QED BY <2>2, <2>3
<1>8. QED BY <1>2, <1>6, <1>7 DEF Hydrate

\* Nothing is known of the other libraries.
LEMMA TypescriptAlone ==
    ASSUME library \in {"typescript", "mcp"}, UNCHANGED library, SharedInvariant', TypescriptKnows'
    PROVE  SessionInvariant'
BY DEF SessionInvariant, LibraryInvariant, PythonKnows, PythonPublishes, PhpKnows

\* Every step of the TypeScript library keeps the invariant.
LEMMA TypescriptKeeps ==
    ASSUME SessionInvariant, UNCHANGED library, library \in {"typescript", "mcp"},
           Ts!reconcile \/ Ts!outcomeUnknown \/ Ts!captureOnce \/ Ts!heartbeat \/ Ts!status \/ Ts!abort \/ Ts!cleanup
             \/ \E flow \in {"submit", "finalize", "checkpoint"} : Ts!beginWorkflow(flow)
    PROVE  SessionInvariant'
<1>1. Ts!dispatch \/ Ts!outcomeUnknown => SharedInvariant' /\ TypescriptKnows'
    BY TypescriptSends
<1>2. Ts!receive => SharedInvariant' /\ TypescriptKnows'
    <2>1. Ts!receive =>
            \/ Read("accepted", Ts!accepted, IF journal.pending.kind \in {"finalize", "workspace:create"} THEN "polling" ELSE "idle")
            \/ \E status \in {"denied", "rejected"} : Read(status, Ts!refused(status), "idle")
        BY TypescriptActions, Zenon DEF Ts!receive
    <2>2. QED BY <2>1, TypescriptAccepts, TypescriptSettles
<1>3. Ts!learnCreation \/ Ts!learnFinalization => SharedInvariant' /\ TypescriptKnows'
    BY TypescriptSettles
<1>4. Ts!opening \/ Ts!seal \/ Ts!finish \/ Ts!heartbeat \/ Ts!abort => SharedInvariant' /\ TypescriptKnows'
    BY TypescriptCommands
<1>5. Ts!reopen => SharedInvariant' /\ TypescriptKnows'
    BY TypescriptCommands, TypescriptMoves DEF Ts!reopen
<1>6. Ts!hydrate => SharedInvariant' /\ TypescriptKnows'
    BY TypescriptHydrates
<1>7. Ts!captureOnce \/ Ts!submitted \/ Ts!readRun \/ Ts!finalized \/ Ts!status \/ Ts!cleanup
        \/ (\E flow \in {"submit", "finalize", "checkpoint"} : Ts!beginWorkflow(flow))
      => SharedInvariant' /\ TypescriptKnows'
    BY TypescriptMoves
<1>8. SharedInvariant' /\ TypescriptKnows'
    BY <1>1, <1>2, <1>3, <1>4, <1>5, <1>6, <1>7 DEF Ts!reconcile
<1>9. QED BY <1>8, TypescriptAlone

-----------------------------------------------------------------------------
(* Steps of agents and of the MCP server *)

\* What is neither the journal, the call nor the service does not matter; a fault may be spent.
LEMMA OutsideKeeps ==
    ASSUME SessionInvariant, UNCHANGED <<library, journal, call, server, answers, late>>,
           faults' = faults \/ (faults > 0 /\ faults' = faults - 1)
    PROVE  SessionInvariant'
<1>1. ServiceTypes
    BY DEF SessionInvariant, SharedInvariant
<1>2. RunsMove /\ faults' \in Nat /\ faults' <= faults
    BY <1>1 DEF RunsMove, ServiceTypes
<1>3. QED BY <1>2, MoveKeeps

\* Agents write local files only (Write).
LEMMA WriteKeeps ==
    ASSUME SessionInvariant, UNCHANGED library, NEW c, Write(c)
    PROVE  SessionInvariant'
BY OutsideKeeps DEF Write, Local, service

\* Every step of the MCP server keeps the invariant: it takes those of the TypeScript session, or changes
\* its own record and the local files.
LEMMA McpKeeps ==
    ASSUME SessionInvariant, UNCHANGED library, library = "mcp", Mcp!Next
    PROVE  SessionInvariant'
<1>1. CASE Mcp!runs
    BY <1>1, McpTakesTypescriptSteps, TypescriptKeeps DEF Mcp!runs
<1>2. CASE Mcp!outcomeUnknown
    BY <1>2, McpTakesTypescriptSteps, TypescriptKeeps DEF Mcp!outcomeUnknown
<1>3. CASE Mcp!throws \/ Mcp!recover \/ Mcp!unblock
    BY <1>3, OutsideKeeps DEF Mcp!throws, Mcp!recover, Mcp!unblock, Mcp!session, Mcp!service
<1>4. CASE Mcp!dies
    BY <1>4, OutsideKeeps DEF Mcp!dies, Mcp!session
<1>5. CASE Mcp!command
    BY <1>5, McpTakesTypescriptSteps, TypescriptKeeps DEF Mcp!command
<1>6. CASE Mcp!cleanup
    BY <1>6, McpTakesTypescriptSteps, TypescriptKeeps DEF Mcp!cleanup
<1>7. CASE Mcp!status
    BY <1>7, McpTakesTypescriptSteps, TypescriptKeeps DEF Mcp!status
<1>8. CASE \E c \in Contents : Mcp!write(c)
    BY <1>8, OutsideKeeps DEF Mcp!write, Mcp!Write, Mcp!Local, Mcp!service
<1>9. QED BY <1>1, <1>2, <1>3, <1>4, <1>5, <1>6, <1>7, <1>8 DEF Mcp!Next

-----------------------------------------------------------------------------
(* Steps of the PHP library *)

\* A step of the PHP library that changes its journal and the local files.
LEMMA PhpLocal ==
    ASSUME SessionInvariant, UNCHANGED library, library = "php", NEW j \in Journal, NEW f, Local(j, f),
           j.run = journal.run,
           \/ j.pending = journal.pending
           \/ Pending /\ journal.pending.phase = "refused" /\ j.pending = NoCommand /\ j.stage = "done",
           \/ j.capture = journal.capture /\ (j.cleanup = journal.cleanup \/ j.cleanup # "pending")
           \/ Unsealed /\ j.cleanup = journal.cleanup,
           \/ j.stage = journal.stage /\ j.flow = journal.flow /\ j.doubt = journal.doubt
           \/ j.stage = "done" /\ j.pending = NoCommand
           \/ j.stage \in {"ready", "heartbeat", "capture"} /\ journal.run # 0 /\ Unsealed
                /\ journal.pending.kind \notin {"workspace:create", "run:heartbeat"}
           \/ j.stage \in {"submission", "finalize", "abort"} /\ journal.run # 0
                /\ journal.pending.kind \notin {"workspace:create", "run:heartbeat"}
    PROVE  SharedInvariant' /\ PhpKnows'
<1>1. SharedInvariant /\ PhpKnows
    BY DEF SessionInvariant, LibraryInvariant
<1>2. journal' = j /\ call = Idle /\ UNCHANGED <<call, server, answers, late, faults>>
    BY DEF Local, service
<1>3. CaptureFits
    BY <1>1, <1>2, Basics DEF CaptureFits, Unsealed
<1>4. SharedInvariant'
    BY <1>1, <1>2, <1>3, LocalKeeps
<1>5. PhpKnows'
    <2>1. j.stage # "done" => j.pending = journal.pending
        OBVIOUS
    <2>2. Ended' = Ended /\ (Unsealed => Unsealed')
        BY <1>2, SameRun, Basics DEF Unsealed
    <2>3. QED BY <1>1, <1>2, <2>1, <2>2, Basics DEF PhpKnows, Pending
<1>6. QED BY <1>4, <1>5

\* A new command of the PHP library fits its stage (drive).
LEMMA PhpCommands ==
    ASSUME SessionInvariant, UNCHANGED library, library = "php", Php!drive
    PROVE  SharedInvariant' /\ PhpKnows'
<1>1. SharedInvariant /\ PhpKnows /\ Alike(journal) /\ journal \in Journal
    BY JournalIsAlike DEF SessionInvariant, LibraryInvariant, Alike
<1>2. PICK kind \in Kinds :
         /\ call = Idle /\ ~Pending /\ Prepare(kind, journal)
         /\ \/ kind = "workspace:create" /\ journal.stage = "create"
            \/ kind = "run:open" /\ journal.stage \in {"open", "reopen"}
            \/ kind = "run:heartbeat" /\ journal.stage = "heartbeat"
            \/ kind \in {"submission:create", "submission:file", "submission:seal", "finalize", "abort"}
                 /\ journal.stage \in {"submission", "upload", "seal", "finalize", "abort"}
    <2>1. {"workspace:create", "run:open", "run:heartbeat", "submission:create", "submission:file",
           "submission:seal", "finalize", "abort"} \subseteq Kinds
        BY DEF Kinds
    <2>2. \A kind : Php!prepare(kind) => call = Idle /\ ~Pending /\ Prepare(kind, journal)
        BY PhpValues, PhpActions DEF Php!prepare
    <2>3. QED BY <2>1, <2>2 DEF Php!drive
<1>3. kind \notin {"workspace:create", "run:open"} => journal.run # 0
    BY <1>1, <1>2 DEF PhpKnows
<1>4. kind = "run:open" => (journal.run # 0 => server.runs[journal.run].state \in Terminal)
    BY <1>1, <1>2 DEF PhpKnows, Ended
<1>5. SharedInvariant' /\ journal' = [journal EXCEPT !.pending = Intent(kind)] /\ UNCHANGED server
    BY <1>1, <1>2, <1>3, <1>4, PrepareKeeps
<1>6. Intent(kind) \in Command /\ Intent(kind).kind = kind /\ Intent(kind).phase = "prepared"
    BY <1>1, NewIntent
<1>7. /\ journal'.pending = Intent(kind) /\ journal'.run = journal.run /\ journal'.stage = journal.stage
      /\ journal'.flow = journal.flow /\ journal'.doubt = journal.doubt
    BY <1>1, <1>5, <1>6, PendingUpdate
<1>8. PhpKnows'
    <2>1. Ended' = Ended /\ NothingSealed' = NothingSealed
        BY <1>5, <1>7, SameRun
    <2>2. journal.stage \in {"hydrate", "ready", "heartbeat", "capture"} => Unsealed'
        BY <1>1, <1>2, <1>6, <1>7, <2>1 DEF PhpKnows, Unsealed
    <2>3. QED BY <1>1, <1>2, <1>6, <1>7, <2>1, <2>2 DEF PhpKnows, Pending
<1>9. QED BY <1>5, <1>8

\* The steps that work on the local files or move the saved action on.
LEMMA PhpMoves ==
    ASSUME SessionInvariant, UNCHANGED library, library = "php",
           \/ Php!captureStage \/ Php!abandonReopen \/ Php!heartbeat \/ Php!abort \/ Php!cleanup
           \/ \E flow \in {"finalize", "checkpoint"} : Php!finish(flow)
    PROVE  SharedInvariant' /\ PhpKnows'
<1>1. SharedInvariant /\ PhpKnows /\ journal \in Journal
    BY JournalIsAlike DEF SessionInvariant, LibraryInvariant, Alike
<1>2. /\ \A flow \in {"finalize", "checkpoint", "none", "heartbeat", "abort"} : flow \in Flows
      /\ \A stage \in {"finalize", "submission", "capture", "done", "heartbeat", "abort"} : stage \in Stages
      /\ "capturing" \in Recoveries /\ "published-reopen-abandoned" \in Recoveries
    BY DEF Flows, Stages, Recoveries
<1>3. ~Pending => journal.pending.kind = "none"
    BY Basics DEF Pending
<1>4. CASE Php!captureStage
    <2>1. PICK j : /\ Local(j, files) /\ journal.stage = "capture"
                   /\ \/ j = [journal EXCEPT !.stage = "finalize"]
                      \/ files \in Contents /\ j = [[journal EXCEPT !.capture = files] EXCEPT !.stage = "submission"]
        BY <1>4, PhpValues, PhpActions, Zenon DEF Php!captureStage, Php!capture
    <2>2. j \in Journal /\ j.run = journal.run /\ j.pending = journal.pending /\ j.cleanup = journal.cleanup
          /\ j.stage \in {"finalize", "submission"}
        BY <1>1, <1>2, <2>1 DEF Journal
    <2>3. journal.run # 0 /\ Unsealed /\ journal.pending.kind \notin {"workspace:create", "run:heartbeat"}
        BY <1>1, <2>1 DEF PhpKnows
    <2>4. QED BY <2>1, <2>2, <2>3, PhpLocal
<1>5. CASE Php!abandonReopen
    <2> DEFINE j == [journal EXCEPT !.pending = NoCommand, !.flow = "none", !.stage = "done",
                       !.recovery = "published-reopen-abandoned"]
    <2>1. Pending /\ journal.pending.phase = "refused" /\ Local(j, files)
        BY <1>5, PhpValues, PhpActions DEF Php!abandonReopen
    <2>2. j \in Journal /\ j.run = journal.run /\ j.pending = NoCommand /\ j.cleanup = journal.cleanup
          /\ j.stage = "done" /\ j.capture = journal.capture
        BY <1>1, <1>2 DEF Journal
    <2> HIDE DEF j
    <2>3. QED BY <2>1, <2>2, PhpLocal
<1>6. CASE Php!heartbeat
    <2> DEFINE j == [journal EXCEPT !.flow = "heartbeat", !.stage = "heartbeat"]
    <2>1. journal.stage = "ready" /\ Local(j, files)
        BY <1>6, PhpValues, PhpActions DEF Php!heartbeat
    <2>2. j \in Journal /\ j.run = journal.run /\ j.pending = journal.pending /\ j.cleanup = journal.cleanup
          /\ j.stage = "heartbeat" /\ j.capture = journal.capture
        BY <1>1, <1>2 DEF Journal
    <2>3. journal.run # 0 /\ Unsealed /\ journal.pending.kind \notin {"workspace:create", "run:heartbeat"}
        BY <1>1, <2>1 DEF PhpKnows
    <2> HIDE DEF j
    <2>4. QED BY <2>1, <2>2, <2>3, PhpLocal
<1>7. CASE Php!abort
    <2> DEFINE j == [journal EXCEPT !.flow = "abort", !.stage = "abort"]
    <2>1. journal.run # 0 /\ ~Pending /\ Local(j, files)
        BY <1>7, PhpValues, PhpActions DEF Php!abort
    <2>2. j \in Journal /\ j.run = journal.run /\ j.pending = journal.pending /\ j.cleanup = journal.cleanup
          /\ j.stage = "abort" /\ j.capture = journal.capture
        BY <1>1, <1>2 DEF Journal
    <2> HIDE DEF j
    <2>3. QED BY <2>1, <2>2, <1>3, PhpLocal
<1>8. CASE Php!cleanup
    <2>1. PICK j : /\ Local(j, "absent")
                   /\ j = [journal EXCEPT !.cleanup = "running"] \/ j = [journal EXCEPT !.cleanup = "complete"]
        BY <1>8, PhpValues, PhpActions, Zenon DEF Php!cleanup, Php!clear
    <2>2. j \in Journal /\ j.run = journal.run /\ j.pending = journal.pending /\ j.cleanup # "pending"
          /\ j.stage = journal.stage /\ j.flow = journal.flow /\ j.doubt = journal.doubt /\ j.capture = journal.capture
        BY <1>1, <2>1 DEF Journal
    <2>3. QED BY <2>1, <2>2, PhpLocal
<1>9. CASE \E flow \in {"finalize", "checkpoint"} : Php!finish(flow)
    <2>1. PICK flow \in {"finalize", "checkpoint"} : Php!finish(flow)
        BY <1>9
    <2> DEFINE j == [journal EXCEPT !.flow = flow, !.stage = "capture", !.recovery = "capturing"]
    <2>2. journal.stage = "ready" /\ Local(j, files)
        BY <2>1, PhpValues, PhpActions DEF Php!finish
    <2>3. j \in Journal /\ j.run = journal.run /\ j.pending = journal.pending /\ j.cleanup = journal.cleanup
          /\ j.stage = "capture" /\ j.capture = journal.capture
        BY <1>1, <1>2 DEF Journal
    <2>4. journal.run # 0 /\ Unsealed /\ journal.pending.kind \notin {"workspace:create", "run:heartbeat"}
        BY <1>1, <2>2 DEF PhpKnows
    <2> HIDE DEF j
    <2>5. QED BY <2>2, <2>3, <2>4, PhpLocal
<1>10. QED BY <1>4, <1>5, <1>6, <1>7, <1>8, <1>9

\* The tree is replaced by the base of the run, or a download fails (hydrate).
LEMMA PhpHydrates ==
    ASSUME SessionInvariant, UNCHANGED library, library = "php", Php!hydrate
    PROVE  SharedInvariant' /\ PhpKnows'
<1> DEFINE done == [journal EXCEPT !.state = "ready", !.recovery = "ready", !.flow = "none", !.stage = "ready",
                      !.capture = NoContent, !.sub = 0, !.sealed = FALSE, !.receipt = FALSE]
           failed == [journal EXCEPT !.state = "failed", !.recovery = "hydration-failed"]
<1>1. SharedInvariant /\ PhpKnows /\ journal \in Journal /\ faults \in Nat
    BY JournalIsAlike DEF SessionInvariant, LibraryInvariant, Alike
<1>2. journal.stage = "hydrate" /\ Hydrate(done, failed)
    BY PhpValues, PhpActions DEF Php!hydrate
<1>3. "ready" \in Stages /\ "none" \in Flows /\ "ready" \in Recoveries /\ "hydration-failed" \in Recoveries
    BY DEF Stages, Flows, Recoveries
<1>4. done \in Journal /\ done.run = journal.run /\ done.pending = journal.pending /\ done.stage = "ready"
      /\ done.cleanup = journal.cleanup
    BY <1>1, <1>3 DEF Journal
<1>5. failed \in Journal /\ failed.run = journal.run /\ failed.pending = journal.pending /\ failed.stage = journal.stage
      /\ failed.flow = journal.flow /\ failed.doubt = journal.doubt /\ failed.cleanup = journal.cleanup
      /\ failed.capture = journal.capture
    BY <1>1, <1>3 DEF Journal
<1>6. journal.run # 0 /\ Unsealed /\ journal.pending.kind \notin {"workspace:create", "run:heartbeat"}
    BY <1>1, <1>2 DEF PhpKnows
<1> HIDE DEF done, failed
<1>7. CASE Local(done, server.runs[journal.run].base)
    BY <1>4, <1>6, <1>7, PhpLocal
<1>8. CASE /\ call = Idle /\ faults > 0 /\ faults' = faults - 1
           /\ journal' = failed /\ UNCHANGED <<call, server, answers, late>>
    <2>1. CaptureFits
        BY <1>5, <1>8, AlikeCapture DEF Alike
    <2>2. SharedInvariant'
        BY <1>1, <1>5, <1>8, <2>1, LocalKeeps
    <2>3. Ended' = Ended /\ NothingSealed' = NothingSealed
        BY <1>5, <1>8, SameRun
    <2>4. PhpKnows'
        BY <1>1, <1>5, <1>8, <2>3 DEF PhpKnows, Unsealed, Pending
    <2>5. QED BY <2>2, <2>4
<1>9. QED BY <1>2, <1>7, <1>8 DEF Hydrate

\* Sending, and giving up; a reopen is in doubt before it is sent (dispatch, outcomeUnknown).
LEMMA PhpSends ==
    ASSUME SessionInvariant, UNCHANGED library, library = "php", Php!dispatch \/ Php!outcomeUnknown
    PROVE  SharedInvariant' /\ PhpKnows'
<1>1. SharedInvariant /\ PhpKnows /\ Alike(journal) /\ journal \in Journal
    BY JournalIsAlike DEF SessionInvariant, LibraryInvariant, Alike
<1>2. CASE Php!dispatch
    <2> DEFINE reopening == journal.flow = "checkpoint" /\ journal.stage = "reopen"
               j == [journal EXCEPT !.doubt = reopening]
               first == IF reopening THEN ~journal.doubt ELSE journal.pending.phase = "prepared"
    <2>1. call = Idle /\ Pending /\ Send(j, first)
        BY <1>2, PhpValues, PhpActions, Zenon DEF Php!dispatch, Php!checkpointReopen
    <2>2. first \in BOOLEAN
        BY <1>1 DEF Journal
    <2>3. first => journal.pending.phase # "sent"
        BY <1>1, <2>1 DEF PhpKnows
    <2>4. Alike(j) /\ j.pending = journal.pending /\ j.stage = journal.stage /\ j.flow = journal.flow /\ j.doubt = reopening
          /\ j \in Journal
        BY <1>1 DEF Journal, Alike
    <2> HIDE DEF first, j
    <2>5. /\ SharedInvariant' /\ SameCommand /\ UNCHANGED service
          /\ journal' = [j EXCEPT !.pending = journal'.pending]
        BY <1>1, <2>1, <2>2, <2>3, <2>4, SendKeeps
    <2>6. journal'.run = journal.run /\ journal'.stage = journal.stage /\ journal'.flow = journal.flow
          /\ journal'.doubt = reopening
        BY <2>4, <2>5 DEF Journal, Alike
    <2>7. Ended' = Ended /\ NothingSealed' = NothingSealed
        BY <2>5, <2>6, SameRun DEF service
    <2>8. PhpKnows'
        BY <1>1, <2>5, <2>6, <2>7 DEF PhpKnows, Unsealed, SameCommand
    <2>9. QED BY <2>5, <2>8
<1>3. CASE Php!outcomeUnknown
    <2>1. PICK j : GiveUp(j) /\ (j = journal \/ \E r \in Recoveries : j = [journal EXCEPT !.recovery = r])
        <3>1. (IF Php!checkpointReopen THEN "published-needs-reopen" ELSE "outcome-unknown") \in Recoveries
            BY DEF Recoveries
        <3>2. QED BY <1>3, <3>1, PhpActions, Zenon DEF Php!outcomeUnknown
    <2>2. j \in Journal /\ Alike(j) /\ j.pending = journal.pending /\ j.stage = journal.stage /\ j.flow = journal.flow
          /\ j.doubt = journal.doubt
        BY <1>1, <2>1 DEF Journal, Alike
    <2>3. SharedInvariant' /\ journal' = j /\ UNCHANGED server
        BY <1>1, <2>1, <2>2, GiveUpKeeps
    <2>4. Ended' = Ended /\ NothingSealed' = NothingSealed
        BY <2>2, <2>3, SameRun DEF Alike
    <2>5. PhpKnows'
        BY <1>1, <2>2, <2>3, <2>4 DEF PhpKnows, Unsealed, Pending, Alike
    <2>6. QED BY <2>3, <2>5
<1>4. QED BY <1>2, <1>3

\* The result of an accepted command, saved (accepted).
LEMMA PhpAccepts ==
    ASSUME SessionInvariant, UNCHANGED library, library = "php",
           Read("accepted", Php!accepted, IF journal.pending.kind \in {"finalize", "workspace:create"} THEN "polling" ELSE "idle")
    PROVE  SharedInvariant' /\ PhpKnows'
<1> DEFINE kind == journal.pending.kind
           j == Php!accepted
           at == IF kind \in {"finalize", "workspace:create"} THEN "polling" ELSE "idle"
           a == Answered(Asked)
<1>1. SharedInvariant /\ PhpKnows /\ Alike(journal) /\ journal \in Journal /\ journal.run \in 0 .. MaxRuns
    BY JournalIsAlike DEF SessionInvariant, LibraryInvariant, Alike
<1>2. Pending /\ Handle(Asked) /\ a # NoAnswer
    BY <1>1 DEF Read, Respond, SharedInvariant, CallIsPending
<1>3. ServedAs(a)
    BY <1>1, <1>2, AskedServed
<1>4. a \in Answer /\ journal.pending \in Command
    BY <1>1, <1>2, RunOfCommand, PendingIsCommand DEF SharedInvariant
<1>5. a.run \in 0 .. MaxRuns /\ a.sub \in Nat /\ kind \in Kinds
    BY <1>4 DEF Answer, Command
<1>6. /\ "ready" \in Stages /\ "done" \in Stages /\ "hydrate" \in Stages /\ "finalize" \in Stages /\ "seal" \in Stages
      /\ "upload" \in Stages /\ "none" \in Flows /\ "ready" \in Recoveries /\ "aborted" \in Recoveries /\ "active" \in RunStates
    BY DEF Stages, Flows, Recoveries, RunStates
<1>7. CASE kind = "run:open"
    <2> DEFINE o == Opened(journal)
    <2>1. j = [o EXCEPT !.stage = "hydrate", !.doubt = FALSE]
        BY <1>7, PhpValues, PhpActions DEF Php!accepted, SubmissionCommands
    <2>2. o = [journal EXCEPT !.run = a.run, !.view = "active", !.state = "provisioning", !.pending = NoCommand]
        BY DEF Opened
    <2> HIDE DEF a, o, j
    <2>3. o \in Journal /\ o.run = a.run /\ o.pending = NoCommand /\ o.cleanup = journal.cleanup
        BY <1>1, <1>5, <1>6, <2>2 DEF Journal
    <2>4. j \in Journal /\ j.run = a.run /\ j.pending = NoCommand /\ j.cleanup = journal.cleanup /\ j.stage = "hydrate"
        BY <1>6, <2>1, <2>3 DEF Journal
    <2>5. at = "idle" /\ Read("accepted", j, at)
        BY <1>7 DEF j
    <2>6. SharedInvariant' /\ journal' = j
        BY <1>1, <1>7, <2>4, <2>5, AcceptedKeeps DEF Opening, a
    <2>7. a.run # 0 /\ server'.runs[a.run].subs = <<>>
        BY <1>3, <1>7, Basics DEF ServedAs, Opening
    <2>8. NothingSealed'
        BY <2>4, <2>6, <2>7 DEF NothingSealed, Sealed
    <2>9. PhpKnows'
        BY <2>4, <2>6, <2>7, <2>8, Basics DEF PhpKnows, Unsealed, Pending
    <2>10. QED BY <2>6, <2>9
<1>8. CASE kind # "run:open"
    <2>1. /\ j \in Journal /\ j.run = journal.run /\ j.cleanup = journal.cleanup /\ j.capture = journal.capture
          /\ \/ /\ at = "idle" /\ j.pending = NoCommand
                /\ \/ j.stage \in {"finalize", "seal", "upload", "done"} /\ kind \in SubmissionCommands \cup {"abort"}
                   \/ j.stage = "ready" /\ kind = "run:heartbeat"
             \/ /\ kind \in {"finalize", "workspace:create"} /\ j.pending = [journal.pending EXCEPT !.op = TRUE]
                /\ j.stage = journal.stage /\ j.flow = journal.flow /\ j.doubt = journal.doubt
        <3>1. CASE kind \in SubmissionCommands
            <4>1. j = [Submitted(journal) EXCEPT !.stage = IF kind = "submission:seal" THEN "finalize"
                                                           ELSE IF kind = "submission:file" THEN "seal" ELSE "upload"]
                BY <3>1, PhpValues, PhpActions DEF Php!accepted, SubmissionCommands
            <4> DEFINE o == Submitted(journal)
            <4>2. \/ o = [journal EXCEPT !.sub = a.sub, !.sealed = FALSE, !.pending = NoCommand]
                  \/ o = [journal EXCEPT !.receipt = TRUE, !.pending = NoCommand]
                  \/ o = [journal EXCEPT !.sealed = TRUE, !.pending = NoCommand]
                BY <3>1 DEF Submitted, SubmissionCommands
            <4> HIDE DEF j, a, o
            <4>3. o \in Journal /\ o.run = journal.run /\ o.cleanup = journal.cleanup /\ o.capture = journal.capture
                  /\ o.pending = NoCommand
                BY <1>1, <1>5, <4>2 DEF Journal
            <4>4. j \in Journal /\ j.run = journal.run /\ j.cleanup = journal.cleanup /\ j.capture = journal.capture
                  /\ j.pending = NoCommand /\ j.stage \in {"finalize", "seal", "upload"}
                BY <1>6, <4>1, <4>3 DEF Journal, o
            <4>5. QED BY <3>1, <4>4 DEF SubmissionCommands
        <3>2. CASE kind = "run:heartbeat"
            <4>1. j = [journal EXCEPT !.flow = "none", !.recovery = "ready", !.stage = "ready", !.pending = NoCommand]
                BY <3>2, PhpValues DEF Php!accepted, SubmissionCommands
            <4> HIDE DEF j
            <4>2. QED BY <1>1, <1>6, <3>2, <4>1 DEF Journal
        <3>3. CASE kind = "abort"
            <4>1. j = [journal EXCEPT !.flow = "none", !.recovery = "aborted", !.stage = "done", !.pending = NoCommand]
                BY <3>3, PhpValues DEF Php!accepted, SubmissionCommands
            <4> HIDE DEF j
            <4>2. QED BY <1>1, <1>6, <3>3, <4>1 DEF Journal
        <3>4. CASE kind \in {"finalize", "workspace:create"}
            <4>1. j = [journal EXCEPT !.pending.op = TRUE]
                BY <3>4, PhpValues DEF Php!accepted, SubmissionCommands
            <4> HIDE DEF j
            <4>2. [journal.pending EXCEPT !.op = TRUE] \in Command
                BY <1>4 DEF Command
            <4>3. QED BY <1>1, <3>4, <4>1, <4>2 DEF Journal
        <3>5. QED BY <1>5, <1>8, <3>1, <3>2, <3>3, <3>4 DEF Kinds, SubmissionCommands
    <2>2. Read("accepted", j, at) /\ at \in {"idle", "polling"}
        OBVIOUS
    <2> HIDE DEF j, at
    <2>3. /\ SharedInvariant' /\ journal' = j
          /\ j.pending # NoCommand => SameCommand
        BY <1>1, <1>8, <2>1, <2>2, AcceptedKeeps DEF Opening
    <2>4. j.pending = NoCommand \/ j.pending.phase = journal.pending.phase
        BY <1>4, <2>1 DEF Command
    <2>5. kind # "workspace:create" => journal.run # 0
        BY <1>1, <1>2, <1>8 DEF SharedInvariant, CommandFits
    <2>6. Ended => Ended'
        <3>1. journal.run # 0 => journal.run \in Runs
            BY <1>1, JournalIsAlike
        <3>2. QED BY <1>3, <2>1, <2>3, <3>1 DEF Ended, ServedAs, EndsAreFinal
    <2>7. Unsealed => Unsealed'
        <3>1. journal.run # 0 /\ NothingSealed /\ kind # "submission:seal" => NothingSealed'
            BY <1>3, <2>1, <2>3 DEF ServedAs, SealedNext, Sealed, NothingSealed
        <3>2. QED BY <2>1, <2>3, <3>1, Basics DEF Unsealed, SameCommand
    <2>8. PhpKnows'
        <3>1. CASE j.pending = NoCommand
            <4>1. [journal.pending EXCEPT !.op = TRUE] # NoCommand
                BY <1>4, Basics DEF Command
            <4>2. \/ j.stage \in {"finalize", "seal", "upload", "done"} /\ kind \in SubmissionCommands \cup {"abort"}
                  \/ j.stage = "ready" /\ kind = "run:heartbeat"
                BY <2>1, <3>1, <4>1
            <4>3. kind = "run:heartbeat" => Unsealed
                BY <1>1 DEF PhpKnows
            <4>4. journal.run # 0
                BY <2>5, <4>2 DEF SubmissionCommands
            <4>5. QED BY <2>1, <2>3, <2>7, <3>1, <4>2, <4>3, <4>4, Basics DEF PhpKnows, Pending
        <3>2. CASE j.pending # NoCommand
            <4>1. SameCommand /\ j.stage = journal.stage /\ j.flow = journal.flow /\ j.doubt = journal.doubt
                BY <2>1, <2>3, <3>2
            <4>2. QED BY <1>1, <2>1, <2>3, <2>4, <2>6, <2>7, <3>2, <4>1 DEF PhpKnows, Pending, SameCommand
        <3>3. QED BY <3>1, <3>2
    <2>9. QED BY <2>3, <2>8
<1>9. QED BY <1>7, <1>8

\* A refused command, and a learned outcome (refused, settleOperation).
LEMMA PhpSettles ==
    ASSUME SessionInvariant, UNCHANGED library, library = "php",
           \/ \E status \in {"denied", "rejected"} : Read(status, Php!refused(status), "idle")
           \/ Php!settleOperation
    PROVE  SharedInvariant' /\ PhpKnows'
<1> DEFINE failed == [journal EXCEPT !.recovery = "known-failed", !.flow = "none", !.stage = "done", !.pending = NoCommand]
<1>1. SharedInvariant /\ PhpKnows /\ Alike(journal) /\ journal \in Journal /\ server \in ServerRecord
    BY JournalIsAlike DEF SessionInvariant, LibraryInvariant, Alike
<1>2. /\ "done" \in Stages /\ "open" \in Stages /\ "reopen" \in Stages /\ "none" \in Flows /\ "known-failed" \in Recoveries
      /\ "published-needs-reopen" \in Recoveries /\ "outcome-unknown" \in Recoveries /\ "finalized" \in Recoveries
    BY DEF Stages, Flows, Recoveries
<1>3. Php!knownFailed = failed
    BY PhpValues DEF Php!knownFailed
<1>4. failed \in Journal /\ Alike(failed) /\ failed.pending = NoCommand /\ failed.stage = "done"
    BY <1>1, <1>2 DEF Journal, Alike
<1>5. ASSUME NEW j, Alike(j), SharedInvariant', journal' = j, UNCHANGED server,
             \/ j.pending = NoCommand /\ j.stage = "done"
             \/ /\ j.stage = journal.stage /\ j.flow = journal.flow
                /\ \/ j.pending = journal.pending /\ j.doubt = journal.doubt
                   \/ j.pending = [journal.pending EXCEPT !.phase = "refused"] /\ Pending
             \/ j.pending = NoCommand /\ j.stage = "open" /\ journal.run = 0
             \/ j.pending = NoCommand /\ j.stage = "reopen" /\ Ended
      PROVE  SharedInvariant' /\ PhpKnows'
    <2>1. Ended' = Ended /\ NothingSealed' = NothingSealed
        BY <1>5, SameRun DEF Alike
    <2>2. Pending => [journal.pending EXCEPT !.phase = "refused"].kind = journal.pending.kind
                     /\ [journal.pending EXCEPT !.phase = "refused"].phase = "refused"
        BY <1>1, PendingIsCommand DEF SharedInvariant, Command
    <2>3. PhpKnows'
        BY <1>1, <1>5, <2>1, <2>2, Basics DEF PhpKnows, Unsealed, Pending, Alike
    <2>4. QED BY <1>5, <2>3
<1> HIDE DEF failed
<1>6. CASE \E status \in {"denied", "rejected"} : Read(status, Php!refused(status), "idle")
    <2>1. PICK status \in {"denied", "rejected"} : Read(status, Php!refused(status), "idle")
        BY <1>6
    <2> DEFINE j == Php!refused(status)
    <2>2. \/ call.first /\ j = [journal EXCEPT !.recovery = "published-needs-reopen", !.doubt = FALSE, !.pending.phase = "refused"]
          \/ j = [journal EXCEPT !.recovery = "published-needs-reopen"]
          \/ call.first /\ j = failed
          \/ j = [journal EXCEPT !.recovery = "outcome-unknown"]
        BY <1>3 DEF Php!refused
    <2>3. Read(status, j, "idle") /\ Pending
        BY <1>1, <2>1 DEF Read, SharedInvariant, CallIsPending
    <2>4. [journal.pending EXCEPT !.phase = "refused"] \in Command
        BY <1>1, <2>3, PendingIsCommand DEF SharedInvariant, Command
    <2> HIDE DEF j
    <2>5. /\ Alike(j)
          /\ \/ call.first /\ j.pending = NoCommand /\ j.stage = "done"
             \/ /\ j.stage = journal.stage /\ j.flow = journal.flow
                /\ \/ j.pending = journal.pending /\ j.doubt = journal.doubt
                   \/ call.first /\ j.pending = [journal.pending EXCEPT !.phase = "refused"]
        <3>1. CASE call.first /\ j = [journal EXCEPT !.recovery = "published-needs-reopen", !.doubt = FALSE, !.pending.phase = "refused"]
            BY <1>1, <1>2, <2>4, <3>1 DEF Journal, Alike
        <3>2. CASE j = [journal EXCEPT !.recovery = "published-needs-reopen"]
            BY <1>1, <1>2, <3>2 DEF Journal, Alike
        <3>3. CASE call.first /\ j = failed
            BY <1>4, <3>3
        <3>4. CASE j = [journal EXCEPT !.recovery = "outcome-unknown"]
            BY <1>1, <1>2, <3>4 DEF Journal, Alike
        <3>5. QED BY <2>2, <3>1, <3>2, <3>3, <3>4
    <2>6. SharedInvariant' /\ journal' = j /\ UNCHANGED server
        BY <1>1, <2>3, <2>5, RefusedKeeps
    <2>7. QED BY <1>5, <2>3, <2>5, <2>6
<1>7. CASE journal.pending.kind = "workspace:create" /\ Php!settleOperation
    <2>1. PICK j : /\ Learn(j)
                   /\ j = [journal EXCEPT !.workspace = TRUE, !.stage = "open", !.pending = NoCommand] \/ j = failed
        BY <1>3, <1>7, PhpValues, PhpActions, Zenon DEF Php!settleOperation
    <2>2. Alike(j) /\ j.pending = NoCommand /\ j.stage \in {"open", "done"}
        <3>1. CASE j = failed
            BY <1>4, <3>1
        <3>2. CASE j = [journal EXCEPT !.workspace = TRUE, !.stage = "open", !.pending = NoCommand]
            BY <1>1, <1>2, <3>2 DEF Journal, Alike
        <3>3. QED BY <2>1, <3>1, <3>2
    <2>3. SharedInvariant' /\ journal' = j /\ UNCHANGED server
        BY <1>1, <1>7, <2>1, <2>2, LearnKeeps DEF Opening
    <2>4. journal.run = 0
        BY <1>1, <1>7 DEF PhpKnows
    <2>5. QED BY <1>5, <2>2, <2>3, <2>4
<1>8. CASE journal.pending.kind = "finalize" /\ Php!settleOperation
    <2>1. PICK j : /\ Learn(j)
                   /\ \/ j = failed
                      \/ /\ Outcome = "finalized"
                         /\ j = [journal EXCEPT !.last = "succeeded", !.doubt = FALSE, !.pending = NoCommand,
                                   !.recovery = "published-needs-reopen", !.stage = "reopen"]
                      \/ j = [journal EXCEPT !.last = "succeeded", !.recovery = "finalized", !.flow = "none",
                                !.stage = "done", !.pending = NoCommand]
        <3>1. PICK j : Learn(j) /\
                 j = CASE Outcome # "finalized" -> failed
                       [] Outcome = "finalized" /\ journal.flow = "checkpoint" ->
                            [journal EXCEPT !.last = "succeeded", !.doubt = FALSE, !.pending = NoCommand,
                               !.recovery = "published-needs-reopen", !.stage = "reopen"]
                       [] Outcome = "finalized" /\ journal.flow # "checkpoint" ->
                            [journal EXCEPT !.last = "succeeded", !.recovery = "finalized", !.flow = "none",
                               !.stage = "done", !.pending = NoCommand]
            BY <1>3, <1>8, PhpValues, PhpActions DEF Php!settleOperation
        <3>2. QED BY <3>1
    <2>2. Alike(j) /\ j.pending = NoCommand /\ (j.stage = "done" \/ (j.stage = "reopen" /\ Outcome = "finalized"))
        <3>1. CASE j = failed
            BY <1>4, <3>1
        <3>2. CASE /\ Outcome = "finalized"
                   /\ j = [journal EXCEPT !.last = "succeeded", !.doubt = FALSE, !.pending = NoCommand,
                             !.recovery = "published-needs-reopen", !.stage = "reopen"]
            BY <1>1, <1>2, <3>2 DEF Journal, Alike
        <3>3. CASE j = [journal EXCEPT !.last = "succeeded", !.recovery = "finalized", !.flow = "none",
                          !.stage = "done", !.pending = NoCommand]
            BY <1>1, <1>2, <3>3 DEF Journal, Alike
        <3>4. QED BY <2>1, <3>1, <3>2, <3>3
    <2>3. SharedInvariant' /\ journal' = j /\ UNCHANGED server /\ Pending
        BY <1>1, <1>8, <2>1, <2>2, LearnKeeps DEF Opening
    <2>4. journal.run # 0
        BY <1>1, <1>8, <2>3 DEF SharedInvariant, CommandFits
    <2>5. j.stage = "reopen" => Ended
        BY <2>2, <2>4 DEF Ended, Outcome, Terminal
    <2>6. QED BY <1>5, <2>2, <2>3, <2>5
<1>9. QED BY <1>6, <1>7, <1>8 DEF Php!settleOperation

\* Every step of the PHP library keeps the invariant.
LEMMA PhpKeeps ==
    ASSUME SessionInvariant, UNCHANGED library, library = "php", Php!Next
    PROVE  SessionInvariant'
<1>1. Php!receive => SharedInvariant' /\ PhpKnows'
    <2>1. Php!receive =>
            \/ Read("accepted", Php!accepted, IF journal.pending.kind \in {"finalize", "workspace:create"} THEN "polling" ELSE "idle")
            \/ \E status \in {"denied", "rejected"} : Read(status, Php!refused(status), "idle")
        BY PhpActions, Zenon DEF Php!receive
    <2>2. QED BY <2>1, PhpAccepts, PhpSettles
<1>2. SharedInvariant' /\ PhpKnows'
    BY <1>1, PhpSends, PhpSettles, PhpHydrates, PhpMoves, PhpCommands DEF Php!Next, Php!reconcile
<1>3. QED BY <1>2 DEF SessionInvariant, LibraryInvariant, TypescriptKnows, PythonKnows, PythonPublishes
-----------------------------------------------------------------------------
(* Steps of the Python library *)

\* A step that changes neither the server nor the run leaves what the run holds and publishes.
LEMMA SameSubmissions ==
    ASSUME UNCHANGED server, journal'.run = journal.run
    PROVE  /\ Ended' = Ended /\ NothingSealed' = NothingSealed
           /\ journal'.sub = journal.sub => SubmissionKnown' = SubmissionKnown
           /\ Sealed(journal.run, server.runs[journal.run].source)' = Sealed(journal.run, server.runs[journal.run].source)
BY SameRun DEF SubmissionKnown, Sealed

\* What a quiet step may do to what the Python library knows and publishes, when the command stays or is dropped.
LEMMA PythonQuiet ==
    ASSUME PythonKnows, PythonPublishes, library = "python", UNCHANGED <<library, server>>, journal'.run = journal.run,
           journal'.mode = journal.mode,
           \/ journal'.pending.kind = "none"
           \/ /\ journal'.pending.kind = journal.pending.kind /\ journal'.pending.sub = journal.pending.sub
              /\ answers'[journal'.pending.key] = answers[journal.pending.key],
           \/ journal'.sub = journal.sub
           \/ journal'.stage = "submission-create" /\ journal'.pending.kind = "none",
           \/ journal'.capture = journal.capture
           \/ journal'.capture = NoContent
           \/ journal'.pending.kind = "none" /\ journal'.stage # "hydrating",
           \/ journal'.stage = journal.stage
           \/ journal'.pending.kind = "none" /\ journal'.stage = "published-needs-reopen" /\ Ended
           \/ journal'.pending.kind = "none" /\ journal'.stage = "opening" /\ journal.run = 0
           \/ journal'.pending.kind = "none" /\ journal'.stage \in Terminal \cup {"abandoned"}
           \/ journal'.pending.kind = "none" /\ journal'.stage = "submission-create" /\ journal.run # 0
           \/ journal'.pending.kind = "none" /\ journal'.stage = "sealing" /\ journal.stage = "uploading"
           \/ journal'.pending.kind = "none" /\ journal'.stage = "finalizing" /\ journal.run # 0 /\ journal.mode = "read-only"
           \/ journal'.stage = "ready" /\ journal.stage = "hydrating"
    PROVE  PythonKnows' /\ PythonPublishes'
<1>1. /\ Ended' = Ended /\ NothingSealed' = NothingSealed
      /\ journal'.sub = journal.sub => SubmissionKnown' = SubmissionKnown
      /\ Sealed(journal.run, server.runs[journal.run].source)' = Sealed(journal.run, server.runs[journal.run].source)
    BY SameSubmissions
<1>2. PythonKnows'
    BY <1>1 DEF PythonKnows, Unsealed, OnRunPhases, Opening, IsAnswered, Terminal
<1>3. PythonPublishes'
    <2>1. journal.stage = "hydrating" => ~Opening
        BY DEF PythonKnows
    <2>2. journal'.stage = "hydrating" => journal.stage = "hydrating"
        BY DEF Terminal
    <2>3. CASE journal'.pending.kind = "none"
        <3>1. ~Opening' /\ Current' = journal.run
            BY <2>3 DEF Opening, Current
        <3>2. journal'.stage = "hydrating" => Current = journal.run
            BY <2>1, <2>2 DEF Current
        <3>3. QED BY <1>1, <2>2, <3>1, <3>2 DEF PythonPublishes
    <2>4. CASE journal'.pending.kind # "none"
        <3>1. Opening' = Opening /\ IsAnswered(journal.pending.key)' = IsAnswered(journal.pending.key) /\ Current' = Current
            BY <2>4 DEF Opening, IsAnswered, Current
        <3>2. QED BY <1>1, <2>2, <2>4, <3>1 DEF PythonPublishes
    <2>5. QED BY <2>3, <2>4
<1>4. QED BY <1>2, <1>3

\* A new command of the Python library fits its phase.
LEMMA PythonPrepares ==
    ASSUME SessionInvariant, UNCHANGED library, library = "python", NEW kind \in Kinds, NEW j, Alike(j), Py!prepare(kind, j),
           j.stage = journal.stage, j.sub = journal.sub, j.mode = journal.mode,
           \/ kind = "workspace:create" /\ journal.stage = "creating"
           \/ kind = "run:open" /\ journal.stage \in {"opening", "published-needs-reopen"}
           \/ kind = "submission:create" /\ journal.stage = "submission-create"
           \/ kind = "submission:file" /\ journal.stage = "uploading"
           \/ kind = "submission:seal" /\ journal.stage = "sealing"
           \/ kind = "finalize" /\ journal.stage = "finalizing"
           \/ kind \in {"run:heartbeat", "abort"} /\ journal.run # 0
    PROVE  SharedInvariant' /\ PythonKnows' /\ PythonPublishes'
<1>1. SharedInvariant /\ PythonKnows /\ PythonPublishes /\ j \in Journal
    BY DEF SessionInvariant, LibraryInvariant, Alike
<1>2. call = Idle /\ Prepare(kind, j) /\ (Pending => journal.pending.phase = "refused")
    BY PythonValues, PythonActions DEF Py!prepare, Py!definitelyRejected
<1>3. kind \notin {"workspace:create", "run:open"} => journal.run # 0
    BY <1>1 DEF PythonKnows, OnRunPhases
<1>4. kind = "run:open" => (journal.run # 0 => server.runs[journal.run].state \in Terminal)
    BY <1>1 DEF PythonKnows, Ended
<1>5. /\ SharedInvariant' /\ journal' = [j EXCEPT !.pending = Intent(kind)] /\ UNCHANGED server
      /\ answers'[Intent(kind).key] = NoAnswer
    BY <1>1, <1>2, <1>3, <1>4, PrepareKeeps
<1>6. Intent(kind) \in Command /\ Intent(kind).kind = kind /\ Intent(kind).sub \in {0, journal.sub}
      /\ (journal.mode # "read-write" /\ kind = "finalize" => Intent(kind).sub = 0)
    BY <1>1, NewIntent
<1>7. /\ journal'.pending = Intent(kind) /\ journal'.run = journal.run /\ journal'.stage = journal.stage /\ journal'.sub = journal.sub
      /\ journal'.mode = journal.mode /\ journal'.capture = journal.capture
    BY <1>1, <1>5, <1>6, PendingUpdate DEF Alike
<1>8. ~IsAnswered(journal.pending.key)'
    BY <1>5, <1>7 DEF IsAnswered
<1>9. /\ Ended' = Ended /\ NothingSealed' = NothingSealed /\ SubmissionKnown' = SubmissionKnown
      /\ Sealed(journal.run, server.runs[journal.run].source)' = Sealed(journal.run, server.runs[journal.run].source)
    BY <1>5, <1>7, SameSubmissions
<1>10. journal'.mode \in {"read-only", "read-write"}
    BY <1>1, <1>7 DEF SharedInvariant, SessionTypes, Journal
<1>11. PythonKnows'
    <2>1. kind = "finalize" => (Intent(kind).sub # 0 => Intent(kind).sub \in 1 .. Len(server.runs[journal.run].subs))
        BY <1>1, <1>6, <1>7, <1>10 DEF PythonKnows, SubmissionKnown
    <2>2. journal.stage \in {"hydrating", "ready"} => Unsealed'
        BY <1>1, <1>6, <1>7, <1>9 DEF PythonKnows, Unsealed
    <2>3. QED BY <1>1, <1>5, <1>6, <1>7, <1>8, <1>9, <2>1, <2>2 DEF PythonKnows, OnRunPhases, Opening
<1>12. PythonPublishes'
    <2>1. Current' = journal.run
        BY <1>7, <1>8 DEF Current
    <2>2. journal.stage = "hydrating" => Current = journal.run
        BY <1>1 DEF PythonKnows, Current
    <2>3. QED BY <1>1, <1>5, <1>7, <1>8, <1>9, <2>1, <2>2 DEF PythonPublishes
<1>13. QED BY <1>5, <1>11, <1>12

\* A step of the Python library that changes its journal and the local files.
LEMMA PythonLocal ==
    ASSUME SessionInvariant, UNCHANGED library, library = "python", NEW j \in Journal, NEW f, Local(j, f),
           j.run = journal.run, j.mode = journal.mode,
           \/ j.pending = journal.pending
           \/ Pending /\ journal.pending.phase = "refused" /\ j.pending = NoCommand,
           \/ j.sub = journal.sub
           \/ j.stage = "submission-create" /\ j.pending = NoCommand,
           \/ j.capture = journal.capture /\ (j.cleanup = journal.cleanup \/ j.cleanup # "pending")
           \/ j.capture = NoContent /\ j.cleanup # "pending" /\ ~Pending
           \/ j.pending = NoCommand /\ j.stage = "submission-create" /\ NothingSealed /\ j.cleanup = journal.cleanup,
           \/ j.stage = journal.stage
           \/ j.pending = NoCommand /\ j.stage = "abandoned"
           \/ j.pending = NoCommand /\ j.stage = "submission-create" /\ journal.run # 0
           \/ j.pending = NoCommand /\ j.stage = "sealing" /\ journal.stage = "uploading"
           \/ j.pending = NoCommand /\ j.stage = "finalizing" /\ journal.run # 0 /\ journal.mode = "read-only"
           \/ j.stage = "ready" /\ journal.stage = "hydrating"
    PROVE  SharedInvariant' /\ PythonKnows' /\ PythonPublishes'
<1>1. SharedInvariant /\ PythonKnows /\ PythonPublishes /\ journal \in Journal
    BY JournalIsAlike DEF SessionInvariant, LibraryInvariant, Alike
<1>2. journal' = j /\ call = Idle /\ UNCHANGED <<call, server, answers, late, faults>>
    BY DEF Local, service
<1>3. ~Pending => journal.pending = NoCommand
    BY DEF Pending
<1>4. journal.cleanup \in {"pending", "running", "complete"}
    BY <1>1 DEF Journal
<1>5. CaptureFits
    BY <1>2, <1>3, <1>4, Basics DEF CaptureFits
<1>6. SharedInvariant'
    BY <1>1, <1>2, <1>5, LocalKeeps
<1>7. PythonKnows' /\ PythonPublishes'
    BY <1>1, <1>2, <1>3, Basics, PythonQuiet
<1>8. QED BY <1>6, <1>7

\* The commands that the phases and the callers ask for (advance, heartbeat, abort).
LEMMA PythonCommands ==
    ASSUME SessionInvariant, UNCHANGED library, library = "python", Py!advance \/ Py!heartbeat \/ Py!abort
    PROVE  SharedInvariant' /\ PythonKnows' /\ PythonPublishes'
<1>1. SharedInvariant /\ PythonKnows /\ Alike(journal) /\ journal \in Journal
    BY JournalIsAlike DEF SessionInvariant, LibraryInvariant, Alike
<1>2. \A kind \in {"workspace:create", "run:open", "run:heartbeat", "submission:create", "submission:file",
                   "submission:seal", "finalize", "abort"} : kind \in Kinds
    BY DEF Kinds
<1>3. CASE Py!advance
    <2>1. CASE journal.stage = "creating" /\ Py!prepare("workspace:create", journal)
        BY <2>1, <1>1, <1>2, PythonPrepares
    <2>2. CASE journal.stage \in {"opening", "published-needs-reopen"} /\ Py!prepare("run:open", journal)
        BY <2>2, <1>1, <1>2, PythonPrepares
    <2>3. CASE journal.stage = "submission-create" /\ Py!prepare("submission:create", journal)
        BY <2>3, <1>1, <1>2, PythonPrepares
    <2>4. CASE journal.stage = "uploading" /\ Py!prepare("submission:file", journal)
        BY <2>4, <1>1, <1>2, PythonPrepares
    <2>5. CASE journal.stage = "sealing" /\ Py!prepare("submission:seal", journal)
        BY <2>5, <1>1, <1>2, PythonPrepares
    <2>6. CASE journal.stage = "finalizing" /\ Py!prepare("finalize", journal)
        BY <2>6, <1>1, <1>2, PythonPrepares
    <2>7. CASE journal.stage = "uploading" /\ ~Pending /\ Local([journal EXCEPT !.stage = "sealing"], files)
        <3> DEFINE j == [journal EXCEPT !.stage = "sealing"]
        <3>1. "sealing" \in Stages
            BY DEF Stages
        <3>2. j \in Journal /\ j.run = journal.run /\ j.mode = journal.mode /\ j.pending = NoCommand /\ j.sub = journal.sub
              /\ j.stage = "sealing" /\ j.cleanup = journal.cleanup /\ j.capture = journal.capture
            BY <1>1, <2>7, <3>1 DEF Journal, Pending
        <3>3. Local(j, files) /\ j.pending = journal.pending
            BY <2>7, <3>2 DEF Pending
        <3> HIDE DEF j
        <3>4. QED BY <2>7, <3>2, <3>3, PythonLocal
    <2>8. QED BY <1>3, <2>1, <2>2, <2>3, <2>4, <2>5, <2>6, <2>7, PythonValues, PythonActions DEF Py!advance
<1>4. CASE Py!heartbeat
    BY <1>4, <1>1, <1>2, PythonPrepares DEF Py!heartbeat
<1>5. CASE Py!abort
    <2> DEFINE j == [journal EXCEPT !.view = "active"]
    <2>1. journal.run # 0 /\ Py!prepare("abort", j)
        BY <1>5 DEF Py!abort
    <2>2. Alike(j) /\ j.stage = journal.stage /\ j.sub = journal.sub /\ j.mode = journal.mode
        BY <1>1 DEF Journal, Alike, RunStates
    <2> HIDE DEF j
    <2>3. QED BY <2>1, <2>2, <1>2, PythonPrepares
<1>6. QED BY <1>3, <1>4, <1>5

\* The steps that read the run, capture the local files, give a reopen up or clean up.
LEMMA PythonMoves ==
    ASSUME SessionInvariant, UNCHANGED library, library = "python",
           \/ Py!status \/ Py!retireRejectedReopen \/ Py!cleanup
           \/ \E flow \in {"none", "checkpoint"} : Py!finalize(flow)
    PROVE  SharedInvariant' /\ PythonKnows' /\ PythonPublishes'
<1>1. SharedInvariant /\ PythonKnows /\ journal \in Journal /\ server \in ServerRecord /\ (journal.run # 0 => journal.run \in Runs)
    BY JournalIsAlike DEF SessionInvariant, LibraryInvariant, Alike
<1>2. journal.run # 0 => View(journal.run) \in RunStates
    BY <1>1, ViewIsState
<1>3. /\ "submission-create" \in Stages /\ "finalizing" \in Stages /\ "abandoned" \in Stages
      /\ "none" \in Flows /\ "checkpoint" \in Flows
    BY DEF Stages, Flows
<1>4. CASE Py!status
    <2> DEFINE j == [journal EXCEPT !.view = View(journal.run)]
    <2>1. journal.run # 0 /\ Local(j, files)
        BY <1>4, PythonValues, PythonActions DEF Py!status
    <2>2. j \in Journal /\ j.run = journal.run /\ j.mode = journal.mode /\ j.pending = journal.pending /\ j.sub = journal.sub
          /\ j.stage = journal.stage /\ j.cleanup = journal.cleanup /\ j.capture = journal.capture
        BY <1>1, <1>2, <2>1 DEF Journal
    <2> HIDE DEF j
    <2>3. QED BY <2>1, <2>2, PythonLocal
<1>5. CASE Py!retireRejectedReopen
    <2> DEFINE j == [journal EXCEPT !.pending = NoCommand, !.stage = "abandoned", !.flow = "none", !.view = Outcome]
    <2>1. Pending /\ journal.pending.phase = "refused" /\ journal.run # 0 /\ Outcome = "finalized" /\ Local(j, files)
        BY <1>5, PythonValues, PythonActions DEF Py!retireRejectedReopen, Py!definitelyRejected
    <2>2. Outcome \in RunStates
        BY <2>1 DEF RunStates
    <2>3. j \in Journal /\ j.run = journal.run /\ j.mode = journal.mode /\ j.pending = NoCommand /\ j.sub = journal.sub
          /\ j.stage = "abandoned" /\ j.cleanup = journal.cleanup /\ j.capture = journal.capture
        BY <1>1, <1>3, <2>2 DEF Journal
    <2> HIDE DEF j
    <2>4. QED BY <2>1, <2>3, PythonLocal
<1>6. CASE Py!cleanup
    <2>1. PICK j : /\ ~Pending /\ journal.run # 0 /\ Local(j, "absent")
                   /\ \/ j = [journal EXCEPT !.view = View(journal.run), !.cleanup = "running"]
                      \/ j = [journal EXCEPT !.capture = NoContent, !.cleanup = "complete"]
        BY <1>6, PythonValues, PythonActions, Zenon DEF Py!cleanup, Py!remove_workspace
    <2>2. /\ j \in Journal /\ j.run = journal.run /\ j.mode = journal.mode /\ j.pending = journal.pending /\ j.sub = journal.sub
          /\ j.stage = journal.stage /\ j.cleanup # "pending" /\ j.capture \in {journal.capture, NoContent}
        BY <1>1, <1>2, <2>1 DEF Journal
    <2>3. QED BY <2>1, <2>2, PythonLocal
<1>7. CASE \E flow \in {"none", "checkpoint"} : Py!finalize(flow)
    <2>1. PICK flow \in {"none", "checkpoint"} : Py!finalize(flow)
        BY <1>7
    <2>2. ~Pending /\ journal.stage = "ready"
        BY <2>1, PythonValues DEF Py!finalize
    <2>3. journal.run # 0 /\ NothingSealed
        BY <1>1, <2>2 DEF PythonKnows, Unsealed, OnRunPhases
    <2>4. CASE journal.mode = "read-write"
        <3> DEFINE c == [journal EXCEPT !.capture = files, !.receipt = FALSE, !.sub = 0, !.sealed = FALSE]
                   j == [c EXCEPT !.flow = flow, !.stage = "submission-create"]
        <3>1. files \in Contents /\ Local(j, files)
            BY <2>1, <2>4, PythonValues, PythonActions DEF Py!finalize, Py!capture_workspace
        <3>2. c \in Journal /\ c.run = journal.run /\ c.mode = journal.mode /\ c.pending = journal.pending /\ c.cleanup = journal.cleanup
            BY <1>1, <3>1 DEF Journal
        <3> HIDE DEF c
        <3>3. j \in Journal /\ j.run = journal.run /\ j.mode = journal.mode /\ j.pending = NoCommand /\ j.stage = "submission-create"
              /\ j.cleanup = journal.cleanup /\ j.pending = journal.pending
            BY <1>3, <2>2, <3>2 DEF Journal, Pending
        <3> HIDE DEF j
        <3>4. QED BY <2>3, <3>1, <3>3, PythonLocal
    <2>5. CASE journal.mode = "read-only"
        <3> DEFINE j == [journal EXCEPT !.flow = flow, !.stage = "finalizing"]
        <3>1. Local(j, files)
            BY <2>1, <2>5, PythonValues, PythonActions DEF Py!finalize
        <3>2. j \in Journal /\ j.run = journal.run /\ j.mode = journal.mode /\ j.pending = NoCommand /\ j.stage = "finalizing"
              /\ j.cleanup = journal.cleanup /\ j.pending = journal.pending /\ j.sub = journal.sub /\ j.capture = journal.capture
            BY <1>1, <1>3, <2>2 DEF Journal, Pending
        <3> HIDE DEF j
        <3>3. QED BY <2>3, <2>5, <3>1, <3>2, PythonLocal
    <2>6. QED BY <1>1, <2>4, <2>5 DEF Journal
<1>8. QED BY <1>4, <1>5, <1>6, <1>7

\* The tree is replaced by the base of the run or kept, or a download fails (hydrate).
LEMMA PythonHydrates ==
    ASSUME SessionInvariant, UNCHANGED library, library = "python", Py!hydrate
    PROVE  SharedInvariant' /\ PythonKnows' /\ PythonPublishes'
<1> DEFINE done == [journal EXCEPT !.stage = "ready", !.flow = "none", !.state = "ready"]
<1>1. SharedInvariant /\ PythonKnows /\ PythonPublishes /\ journal \in Journal
    BY JournalIsAlike DEF SessionInvariant, LibraryInvariant, Alike
<1>2. journal.stage = "hydrating" /\ (Local(done, files) \/ Hydrate(done, journal))
    BY PythonValues, PythonActions, Zenon DEF Py!hydrate
<1>3. "ready" \in Stages /\ "none" \in Flows
    BY DEF Stages, Flows
<1>4. done \in Journal /\ done.run = journal.run /\ done.mode = journal.mode /\ done.pending = journal.pending
      /\ done.sub = journal.sub /\ done.stage = "ready" /\ done.cleanup = journal.cleanup /\ done.capture = journal.capture
    BY <1>1, <1>3 DEF Journal
<1> HIDE DEF done
<1>5. CASE \E f : Local(done, f)
    BY <1>2, <1>4, <1>5, PythonLocal
<1>6. CASE faults > 0 /\ faults' = faults - 1 /\ journal' = journal /\ UNCHANGED <<call, server, answers, late>>
    BY <1>6, OutsideKeeps DEF SessionInvariant, LibraryInvariant
<1>7. QED BY <1>2, <1>5, <1>6 DEF Hydrate

\* Sending, and giving up (dispatch, outcomeUnknown).
LEMMA PythonSends ==
    ASSUME SessionInvariant, UNCHANGED library, library = "python", Py!dispatch \/ Py!outcomeUnknown
    PROVE  SharedInvariant' /\ PythonKnows' /\ PythonPublishes'
<1>1. SharedInvariant /\ PythonKnows /\ PythonPublishes /\ Alike(journal) /\ journal \in Journal
    BY JournalIsAlike DEF SessionInvariant, LibraryInvariant, Alike
<1>2. CASE Py!dispatch
    <2> DEFINE first == journal.pending.phase = "prepared" \/ (Pending /\ journal.pending.phase = "refused")
    <2>1. Pending /\ Send(journal, first)
        BY <1>2, PythonValues, PythonActions DEF Py!dispatch, Py!certain, Py!definitelyRejected
    <2>2. first \in BOOLEAN /\ (first => journal.pending.phase # "sent")
        OBVIOUS
    <2> HIDE DEF first
    <2>3. /\ SharedInvariant' /\ SameCommand /\ UNCHANGED service
          /\ journal' = [journal EXCEPT !.pending = journal'.pending]
        BY <1>1, <2>1, <2>2, SendKeeps
    <2>4. journal'.run = journal.run /\ journal'.stage = journal.stage /\ journal'.mode = journal.mode
          /\ journal'.sub = journal.sub /\ journal'.capture = journal.capture
        BY <1>1, <2>3 DEF Journal
    <2>5. PythonKnows' /\ PythonPublishes'
        BY <1>1, <2>3, <2>4, PythonQuiet DEF service, SameCommand
    <2>6. QED BY <2>3, <2>5
<1>3. CASE Py!outcomeUnknown
    <2>1. GiveUp(journal)
        BY <1>3, PythonActions DEF Py!outcomeUnknown
    <2>2. SharedInvariant' /\ journal' = journal /\ UNCHANGED <<server, answers>>
        BY <1>1, <2>1, GiveUpKeeps
    <2>3. PythonKnows' /\ PythonPublishes'
        BY <1>1, <2>2, PythonQuiet
    <2>4. QED BY <2>2, <2>3
<1>4. QED BY <1>2, <1>3

\* The result of an accepted command, saved (accept).
LEMMA PythonAccepts ==
    ASSUME SessionInvariant, UNCHANGED library, library = "python",
           Read("accepted", Py!accept, IF journal.pending.kind \in {"finalize", "workspace:create"} THEN "polling" ELSE "idle")
    PROVE  SharedInvariant' /\ PythonKnows' /\ PythonPublishes'
<1> DEFINE kind == journal.pending.kind
           j == Py!accept
           at == IF kind \in {"finalize", "workspace:create"} THEN "polling" ELSE "idle"
           a == Answered(Asked)
           n == journal.run
<1>1. SharedInvariant /\ PythonKnows /\ PythonPublishes /\ Alike(journal) /\ journal \in Journal /\ n \in 0 .. MaxRuns
      /\ (n # 0 => n \in Runs) /\ server \in ServerRecord
    BY JournalIsAlike DEF SessionInvariant, LibraryInvariant, Alike
<1>2. Pending /\ Handle(Asked) /\ a # NoAnswer
    BY <1>1 DEF Read, Respond, SharedInvariant, CallIsPending
<1>3. ServedAs(a) /\ ServedSubmission(a)
    BY <1>1, <1>2, AskedServed
<1>4. a \in Answer /\ journal.pending \in Command
    BY <1>1, <1>2, RunOfCommand, PendingIsCommand DEF SharedInvariant
<1>5. a.run \in 0 .. MaxRuns /\ a.sub \in Nat /\ kind \in Kinds
    BY <1>4 DEF Answer, Command
<1>6. /\ "uploading" \in Stages /\ "finalizing" \in Stages /\ "hydrating" \in Stages /\ "aborted" \in Stages
      /\ "active" \in RunStates /\ "aborted" \in RunStates
    BY DEF Stages, Terminal, RunStates
<1>7. CASE kind = "run:open"
    <2> DEFINE o == Opened(journal)
    <2>1. j = [o EXCEPT !.stage = "hydrating"]
        BY <1>7, PythonValues, PythonActions DEF Py!accept, SubmissionCommands
    <2>2. o = [journal EXCEPT !.run = a.run, !.view = "active", !.state = "provisioning", !.pending = NoCommand]
        BY DEF Opened
    <2> HIDE DEF a, o, j
    <2>3. o \in Journal /\ o.run = a.run /\ o.pending = NoCommand /\ o.cleanup = journal.cleanup /\ o.capture = journal.capture
        BY <1>1, <1>5, <1>6, <2>2 DEF Journal
    <2>4. j \in Journal /\ j.run = a.run /\ j.pending = NoCommand /\ j.cleanup = journal.cleanup /\ j.stage = "hydrating"
          /\ j.capture = journal.capture
        BY <1>6, <2>1, <2>3 DEF Journal
    <2>5. at = "idle" /\ Read("accepted", j, at)
        BY <1>7 DEF j
    <2>6. SharedInvariant' /\ journal' = j
        BY <1>1, <1>7, <2>4, <2>5, AcceptedKeeps DEF Opening, a
    <2>7. a.run # 0 /\ server'.runs[a.run].subs = <<>> /\ server'.runs[a.run].source = 0
        BY <1>3, <1>7, Basics DEF ServedAs, Opening
    <2>8. NothingSealed'
        BY <2>4, <2>6, <2>7 DEF NothingSealed, Sealed
    <2>9. PythonKnows'
        BY <2>4, <2>6, <2>7, <2>8, Basics DEF PythonKnows, Unsealed, Opening
    <2>10. server'.runs[a.run].own /\ journal.capture # NoContent => server'.runs[a.run].base = journal.capture
        BY <1>3, <1>7 DEF ServedSubmission, Opening
    <2>11. ~Opening' /\ Current' = a.run
        BY <2>4, <2>6, Basics DEF Opening, Current
    <2>12. PythonPublishes'
        BY <2>4, <2>6, <2>7, <2>10, <2>11 DEF PythonPublishes
    <2>13. QED BY <2>6, <2>9, <2>12
<1>8. CASE kind # "run:open"
    <2>1. /\ j \in Journal /\ j.run = n /\ j.cleanup = journal.cleanup /\ j.capture = journal.capture /\ j.mode = journal.mode
          /\ \/ /\ at = "idle" /\ j.pending = NoCommand
                /\ \/ kind = "submission:create" /\ j.stage = "uploading" /\ j.sub = a.sub
                   \/ kind = "submission:file" /\ j.stage = "uploading" /\ j.sub = journal.sub
                   \/ kind = "submission:seal" /\ j.stage = "finalizing" /\ j.sub = journal.sub
                   \/ kind = "run:heartbeat" /\ j.stage = journal.stage /\ j.sub = journal.sub
                   \/ kind = "abort" /\ j.stage = "aborted"
             \/ /\ kind \in {"finalize", "workspace:create"} /\ j.pending = [journal.pending EXCEPT !.op = TRUE]
                /\ j.stage = journal.stage /\ j.sub = journal.sub
        <3>1. CASE kind \in SubmissionCommands
            <4> DEFINE o == Submitted(journal)
            <4>1. j = [o EXCEPT !.stage = IF kind = "submission:seal" THEN "finalizing" ELSE "uploading"]
                BY <3>1, PythonValues, PythonActions DEF Py!accept, SubmissionCommands
            <4>2. \/ kind = "submission:create" /\ o = [journal EXCEPT !.sub = a.sub, !.sealed = FALSE, !.pending = NoCommand]
                  \/ kind = "submission:file" /\ o = [journal EXCEPT !.receipt = TRUE, !.pending = NoCommand]
                  \/ kind = "submission:seal" /\ o = [journal EXCEPT !.sealed = TRUE, !.pending = NoCommand]
                BY <3>1 DEF Submitted, SubmissionCommands
            <4> HIDE DEF j, a, o
            <4>3. o \in Journal /\ o.run = n /\ o.cleanup = journal.cleanup /\ o.capture = journal.capture
                  /\ o.pending = NoCommand /\ o.mode = journal.mode
                  /\ o.sub = IF kind = "submission:create" THEN a.sub ELSE journal.sub
                BY <1>1, <1>5, <4>2 DEF Journal
            <4>4. j \in Journal /\ j.run = n /\ j.cleanup = journal.cleanup /\ j.capture = journal.capture /\ j.mode = journal.mode
                  /\ j.pending = NoCommand /\ j.stage = (IF kind = "submission:seal" THEN "finalizing" ELSE "uploading")
                  /\ j.sub = IF kind = "submission:create" THEN a.sub ELSE journal.sub
                BY <1>6, <4>1, <4>3 DEF Journal
            <4>5. QED BY <3>1, <4>4 DEF SubmissionCommands
        <3>2. CASE kind = "run:heartbeat"
            <4>1. j = [journal EXCEPT !.view = "active", !.pending = NoCommand]
                BY <3>2, PythonValues DEF Py!accept, SubmissionCommands
            <4> HIDE DEF j
            <4>2. QED BY <1>1, <1>6, <3>2, <4>1 DEF Journal
        <3>3. CASE kind = "abort"
            <4>1. j = [journal EXCEPT !.view = "aborted", !.stage = "aborted", !.pending = NoCommand]
                BY <3>3, PythonValues DEF Py!accept, SubmissionCommands
            <4> HIDE DEF j
            <4>2. QED BY <1>1, <1>6, <3>3, <4>1 DEF Journal
        <3>4. CASE kind \in {"finalize", "workspace:create"}
            <4>1. j = [journal EXCEPT !.pending.op = TRUE]
                BY <3>4, PythonValues DEF Py!accept, SubmissionCommands
            <4> HIDE DEF j
            <4>2. [journal.pending EXCEPT !.op = TRUE] \in Command
                BY <1>4 DEF Command
            <4>3. QED BY <1>1, <3>4, <4>1, <4>2 DEF Journal
        <3>5. QED BY <1>5, <1>8, <3>1, <3>2, <3>3, <3>4 DEF Kinds, SubmissionCommands
    <2>2. Read("accepted", j, at) /\ at \in {"idle", "polling"}
        OBVIOUS
    <2> HIDE DEF j, at, a
    <2>3. /\ SharedInvariant' /\ journal' = j
          /\ j.pending # NoCommand => SameCommand
        BY <1>1, <1>8, <2>1, <2>2, AcceptedKeeps DEF Opening
    <2>4. kind # "workspace:create" => n # 0
        BY <1>1, <1>2, <1>8 DEF SharedInvariant, CommandFits
    <2>5. Ended => Ended'
        BY <1>1, <1>3, <2>1, <2>3 DEF Ended, ServedAs, EndsAreFinal
    <2>6. Unsealed => Unsealed'
        <3>1. n # 0 /\ NothingSealed /\ kind # "submission:seal" => NothingSealed'
            BY <1>3, <2>1, <2>3 DEF ServedAs, SealedNext, Sealed, NothingSealed
        <3>2. QED BY <2>1, <2>3, <3>1, Basics DEF Unsealed, SameCommand
    <2>7. /\ n # 0 /\ server'.runs[n].source # 0 => SealedNext(n, server'.runs[n].source)
          /\ n # 0 => /\ Len(server.runs[n].subs) <= Len(server'.runs[n].subs)
                      /\ server'.runs[n].own = server.runs[n].own
                      /\ server'.runs[n].base = server.runs[n].base
          /\ kind = "submission:create" => a.sub \in 1 .. Len(server'.runs[n].subs)
        BY <1>3, <1>8 DEF ServedSubmission, Opening
    <2>8. n # 0 => Len(server.runs[n].subs) \in Nat /\ Len(server'.runs[n].subs) \in Nat
        <3>1. n # 0 => server.runs[n] \in RunRecord /\ server'.runs[n] \in RunRecord
            BY <1>1, <1>3 DEF ServedAs, ServerRecord
        <3>2. QED BY <3>1, RunFields
    <2>9. \A i \in Nat : n # 0 /\ i \in 1 .. Len(server.runs[n].subs) => i \in 1 .. Len(server'.runs[n].subs)
        BY <2>7, <2>8
    <2>10. journal.sub \in Nat /\ journal.pending.sub \in Nat
        BY <1>1, <1>4 DEF Journal, Command
    <2>11. SubmissionKnown /\ n # 0 /\ j.sub = journal.sub => SubmissionKnown'
        BY <2>1, <2>3, <2>9, <2>10 DEF SubmissionKnown
    <2>12. kind = "submission:create" /\ j.sub = a.sub => SubmissionKnown'
        BY <2>1, <2>3, <2>7 DEF SubmissionKnown
    <2>13. journal.stage \in OnRunPhases => n # 0
        BY <1>1 DEF PythonKnows, OnRunPhases
    <2>14. ~Opening' /\ Current' = n
        BY <2>1, <2>3, <1>8, Basics DEF Opening, Current, SameCommand
    <2>15. PythonKnows'
        <3>1. CASE j.pending = NoCommand
            <4>1. [journal.pending EXCEPT !.op = TRUE] # NoCommand
                BY <1>4, Basics DEF Command
            <4>2. \/ kind = "submission:create" /\ j.stage = "uploading" /\ j.sub = a.sub
                  \/ kind = "submission:file" /\ j.stage = "uploading" /\ j.sub = journal.sub
                  \/ kind = "submission:seal" /\ j.stage = "finalizing" /\ j.sub = journal.sub
                  \/ kind = "run:heartbeat" /\ j.stage = journal.stage /\ j.sub = journal.sub
                  \/ kind = "abort" /\ j.stage = "aborted"
                BY <2>1, <3>1, <4>1
            <4>3. n # 0 /\ journal'.pending.kind = "none"
                BY <2>3, <2>4, <3>1, <4>2, Basics
            <4>4. kind \in {"submission:file", "submission:seal"} /\ journal.mode = "read-write" => SubmissionKnown
                BY <1>1 DEF PythonKnows
            <4>5. journal'.mode = "read-write" /\ journal'.stage \in {"uploading", "sealing", "finalizing"} => SubmissionKnown'
                BY <1>1, <2>1, <2>3, <2>11, <2>12, <4>2, <4>3, <4>4 DEF PythonKnows
            <4>6. journal'.stage \in {"hydrating", "ready"} => Unsealed'
                BY <1>1, <2>3, <2>6, <4>2 DEF PythonKnows
            <4>7. QED BY <1>1, <2>1, <2>3, <2>5, <4>2, <4>3, <4>5, <4>6 DEF PythonKnows, OnRunPhases, Opening
        <3>2. CASE j.pending # NoCommand
            <4>1. SameCommand /\ kind \in {"finalize", "workspace:create"} /\ j.stage = journal.stage /\ j.sub = journal.sub
                BY <2>1, <2>3, <3>2
            <4>2. kind = "finalize" => (journal'.pending.sub # 0 => journal'.pending.sub \in 1 .. Len(server'.runs[n].subs))
                BY <1>1, <2>4, <2>9, <2>10, <4>1 DEF PythonKnows, SameCommand
            <4>3. journal'.mode = "read-write" /\ journal'.stage \in {"uploading", "sealing", "finalizing"} => SubmissionKnown'
                BY <1>1, <2>1, <2>3, <2>11, <2>13, <4>1 DEF PythonKnows, OnRunPhases
            <4>4. QED BY <1>1, <2>1, <2>3, <2>5, <2>6, <4>1, <4>2, <4>3 DEF PythonKnows, OnRunPhases, SameCommand, Opening
        <3>3. QED BY <3>1, <3>2
    <2>16. PythonPublishes'
        <3>1. n # 0 /\ server'.runs[n].source # 0 => Sealed(journal.run, server.runs[journal.run].source)'
            BY <2>1, <2>3, <2>7 DEF SealedNext, Sealed
        <3>2. j.stage = "hydrating" => journal.stage = "hydrating"
            BY <2>1
        <3>3. journal.stage = "hydrating" => n # 0 /\ Current = n
            BY <1>1, <1>8, <2>13 DEF Opening, Current, OnRunPhases
        <3>4. QED BY <1>1, <2>1, <2>3, <2>7, <2>14, <3>1, <3>2, <3>3 DEF PythonPublishes
    <2>17. QED BY <2>3, <2>15, <2>16
<1>9. QED BY <1>7, <1>8


\* A refused command, and a learned outcome (rejected, settleOperation).
LEMMA PythonSettles ==
    ASSUME SessionInvariant, UNCHANGED library, library = "python",
           \/ \E status \in {"denied", "rejected"} : Read(status, Py!rejected(status), "idle")
           \/ Py!settleOperation
    PROVE  SharedInvariant' /\ PythonKnows' /\ PythonPublishes'
<1>1. SharedInvariant /\ PythonKnows /\ PythonPublishes /\ Alike(journal) /\ journal \in Journal /\ server \in ServerRecord
      /\ (journal.run # 0 => journal.run \in Runs)
    BY JournalIsAlike DEF SessionInvariant, LibraryInvariant, Alike
<1>2. /\ "opening" \in Stages /\ "failed" \in Stages /\ "published-needs-reopen" \in Stages /\ "finalized" \in Stages
      /\ Terminal \subseteq Stages /\ Terminal \subseteq RunStates /\ "expired" \in Terminal /\ "conflicted" \in Terminal
    BY DEF Stages, Terminal, RunStates
<1>3. CASE \E status \in {"denied", "rejected"} : Read(status, Py!rejected(status), "idle")
    <2>1. PICK status \in {"denied", "rejected"} : Read(status, Py!rejected(status), "idle")
        BY <1>3
    <2> DEFINE j == Py!rejected(status)
    <2>2. \/ j = journal
          \/ call.first /\ j = [journal EXCEPT !.pending.phase = "refused"]
          \/ /\ call.first
             /\ \E seen \in {"expired", journal.view}, how \in {"expired", "conflicted"} :
                   j = [journal EXCEPT !.pending = NoCommand, !.state = "failed", !.view = seen, !.stage = how]
        BY PythonValues DEF Py!rejected
    <2>3. Read(status, j, "idle") /\ Pending
        BY <1>1, <2>1 DEF Read, SharedInvariant, CallIsPending
    <2>4. /\ [journal.pending EXCEPT !.phase = "refused"] \in Command
          /\ [journal.pending EXCEPT !.phase = "refused"].kind = journal.pending.kind
          /\ [journal.pending EXCEPT !.phase = "refused"].key = journal.pending.key
          /\ [journal.pending EXCEPT !.phase = "refused"].sub = journal.pending.sub
        BY <1>1, <2>3, PendingIsCommand DEF SharedInvariant, Command
    <2> HIDE DEF j
    <2>5. /\ Alike(j) /\ j.sub = journal.sub /\ j.mode = journal.mode /\ j.capture = journal.capture
          /\ \/ j.pending = journal.pending /\ j.stage = journal.stage
             \/ call.first /\ j.pending = [journal.pending EXCEPT !.phase = "refused"] /\ j.stage = journal.stage
             \/ call.first /\ j.pending = NoCommand /\ j.stage \in Terminal
        <3>1. CASE j = journal
            BY <1>1, <3>1
        <3>2. CASE call.first /\ j = [journal EXCEPT !.pending.phase = "refused"]
            BY <1>1, <2>4, <3>2 DEF Journal, Alike
        <3>3. CASE call.first /\ \E seen \in {"expired", journal.view}, how \in {"expired", "conflicted"} :
                      j = [journal EXCEPT !.pending = NoCommand, !.state = "failed", !.view = seen, !.stage = how]
            <4>1. PICK seen \in {"expired", journal.view}, how \in {"expired", "conflicted"} :
                      j = [journal EXCEPT !.pending = NoCommand, !.state = "failed", !.view = seen, !.stage = how]
                BY <3>3
            <4>2. seen \in RunStates /\ how \in Stages /\ how \in Terminal
                BY <1>1, <1>2 DEF Journal
            <4>3. QED BY <1>1, <3>3, <4>1, <4>2 DEF Journal, Alike
        <3>4. QED BY <2>2, <3>1, <3>2, <3>3
    <2>6. SharedInvariant' /\ journal' = j /\ UNCHANGED <<server, answers>>
        BY <1>1, <2>3, <2>5, RefusedKeeps
    <2>7. PythonKnows' /\ PythonPublishes'
        BY <1>1, <2>4, <2>5, <2>6, Basics, PythonQuiet DEF Alike
    <2>8. QED BY <2>6, <2>7
<1>4. CASE journal.pending.kind = "workspace:create" /\ Py!settleOperation
    <2>1. PICK j : /\ Learn(j)
                   /\ \/ j = [journal EXCEPT !.workspace = TRUE, !.stage = "opening", !.pending = NoCommand]
                      \/ j = [journal EXCEPT !.state = "failed", !.stage = "failed", !.pending = NoCommand]
        BY <1>4, PythonValues, PythonActions, Zenon DEF Py!settleOperation
    <2>2. Alike(j) /\ j.pending = NoCommand /\ j.stage \in {"opening", "failed"} /\ j.sub = journal.sub /\ j.mode = journal.mode
          /\ j.capture = journal.capture
        <3>1. CASE j = [journal EXCEPT !.workspace = TRUE, !.stage = "opening", !.pending = NoCommand]
            BY <1>1, <1>2, <3>1 DEF Journal, Alike
        <3>2. CASE j = [journal EXCEPT !.state = "failed", !.stage = "failed", !.pending = NoCommand]
            BY <1>1, <1>2, <3>2 DEF Journal, Alike
        <3>3. QED BY <2>1, <3>1, <3>2
    <2>3. SharedInvariant' /\ journal' = j /\ UNCHANGED server
        BY <1>1, <1>4, <2>1, <2>2, LearnKeeps DEF Opening
    <2>4. journal.run = 0 /\ "failed" \in Terminal
        BY <1>1, <1>4 DEF PythonKnows, Terminal
    <2>5. PythonKnows' /\ PythonPublishes'
        BY <1>1, <2>2, <2>3, <2>4, Basics, PythonQuiet DEF Alike
    <2>6. QED BY <2>3, <2>5
<1>5. CASE journal.pending.kind = "finalize" /\ Py!settleOperation
    <2>1. PICK j : /\ Learn(j) /\ Outcome \in Terminal
                   /\ \/ \E at \in {"published-needs-reopen", "finalized"} :
                           j = [journal EXCEPT !.view = Outcome, !.last = "succeeded", !.pending = NoCommand, !.stage = at]
                      \/ j = [journal EXCEPT !.state = "failed", !.stage = Outcome, !.pending = NoCommand]
        <3>1. PICK j : /\ Learn(j) /\ Outcome \in Terminal
                       /\ j = IF Outcome = "finalized"
                              THEN [journal EXCEPT !.view = Outcome, !.last = "succeeded", !.pending = NoCommand,
                                      !.stage = IF journal.flow = "checkpoint" THEN "published-needs-reopen" ELSE "finalized"]
                              ELSE [journal EXCEPT !.state = "failed", !.stage = Outcome, !.pending = NoCommand]
            BY <1>5, PythonValues, PythonActions DEF Py!settleOperation
        <3>2. QED BY <3>1
    <2>2. Alike(j) /\ j.pending = NoCommand /\ j.stage \in Terminal \cup {"published-needs-reopen"} /\ j.sub = journal.sub
          /\ j.mode = journal.mode /\ j.capture = journal.capture
        <3>1. CASE \E at \in {"published-needs-reopen", "finalized"} :
                     j = [journal EXCEPT !.view = Outcome, !.last = "succeeded", !.pending = NoCommand, !.stage = at]
            <4>1. PICK at \in {"published-needs-reopen", "finalized"} :
                     j = [journal EXCEPT !.view = Outcome, !.last = "succeeded", !.pending = NoCommand, !.stage = at]
                BY <3>1
            <4>2. at \in Stages /\ at \in Terminal \cup {"published-needs-reopen"} /\ Outcome \in RunStates
                BY <1>2, <2>1 DEF Terminal
            <4>3. QED BY <1>1, <4>1, <4>2 DEF Journal, Alike
        <3>2. CASE j = [journal EXCEPT !.state = "failed", !.stage = Outcome, !.pending = NoCommand]
            BY <1>1, <1>2, <2>1, <3>2 DEF Journal, Alike
        <3>3. QED BY <2>1, <3>1, <3>2
    <2>3. SharedInvariant' /\ journal' = j /\ UNCHANGED server /\ Pending
        BY <1>1, <1>5, <2>1, <2>2, LearnKeeps DEF Opening
    <2>4. journal.run # 0
        BY <1>1, <1>5, <2>3 DEF SharedInvariant, CommandFits
    <2>5. Ended
        BY <2>1, <2>4 DEF Ended, Outcome
    <2>6. PythonKnows' /\ PythonPublishes'
        BY <1>1, <2>2, <2>3, <2>5, Basics, PythonQuiet DEF Alike
    <2>7. QED BY <2>3, <2>6
<1>6. QED BY <1>3, <1>4, <1>5 DEF Py!settleOperation

\* Every step of the Python library keeps the invariant.
LEMMA PythonKeeps ==
    ASSUME SessionInvariant, UNCHANGED library, library = "python", Py!Next
    PROVE  SessionInvariant'
<1>1. Py!receive => SharedInvariant' /\ PythonKnows' /\ PythonPublishes'
    <2>1. Py!receive =>
            \/ Read("accepted", Py!accept, IF journal.pending.kind \in {"finalize", "workspace:create"} THEN "polling" ELSE "idle")
            \/ \E status \in {"denied", "rejected"} : Read(status, Py!rejected(status), "idle")
        BY PythonActions, Zenon DEF Py!receive
    <2>2. QED BY <2>1, PythonAccepts, PythonSettles
<1>2. SharedInvariant' /\ PythonKnows' /\ PythonPublishes'
    BY <1>1, PythonSends, PythonSettles, PythonHydrates, PythonMoves, PythonCommands DEF Py!Next, Py!reconcile
<1>3. QED BY <1>2 DEF SessionInvariant, LibraryInvariant, TypescriptKnows, PhpKnows

-----------------------------------------------------------------------------
(* The invariant *)

\* A new session has an empty journal, no run and nothing on its way (Init).
LEMMA InitHolds ==
    ASSUME Init
    PROVE  SessionInvariant
<1>1. PICK mode \in {"read-only", "read-write"}, known \in BOOLEAN :
         /\ library \in Libraries /\ ServiceInit(known) /\ call = Idle
         /\ \/ library = "typescript" /\ Ts!open(mode, known)
            \/ library = "python" /\ Py!provision(mode, known)
            \/ library = "php" /\ Php!create(mode, known)
            \/ library = "mcp" /\ Mcp!open(mode)
    BY DEF Init
<1>2. PICK stage \in {"opening", "creating", "create", "open"}, flow \in {"opening", "none", "open"}, known_ \in BOOLEAN :
         /\ journal = NewJournal(mode, known_, stage, flow)
         /\ library \in {"typescript", "mcp"} => stage = "opening" /\ flow = "opening"
         /\ library = "python" => stage \in {"creating", "opening"}
         /\ library = "php" => stage \in {"create", "open"}
    <2>1. CASE library = "typescript" /\ Ts!open(mode, known)
        <3>1. journal = NewJournal(mode, known, "opening", "opening")
            BY <2>1 DEF Ts!open, Ts!NewJournal, NewJournal, Ts!NoCommand, NoCommand, Ts!NoContent, NoContent
        <3>2. QED BY <2>1, <3>1
    <2>2. CASE library = "python" /\ Py!provision(mode, known)
        <3>1. journal = NewJournal(mode, known, IF known THEN "opening" ELSE "creating", "none")
            BY <2>2 DEF Py!provision, Py!NewJournal, NewJournal, Py!NoCommand, NoCommand, Py!NoContent, NoContent
        <3>2. QED BY <2>2, <3>1
    <2>3. CASE library = "php" /\ Php!create(mode, known)
        <3>1. journal = NewJournal(mode, known, IF known THEN "open" ELSE "create", "open")
            BY <2>3 DEF Php!create, Php!NewJournal, NewJournal, Php!NoCommand, NoCommand, Php!NoContent, NoContent
        <3>2. QED BY <2>3, <3>1
    <2>4. CASE library = "mcp" /\ Mcp!open(mode)
        <3>1. journal = NewJournal(mode, TRUE, "opening", "opening")
            BY <2>4 DEF Mcp!open, Mcp!Ts!open, Mcp!Ts!NewJournal, NewJournal, Mcp!Ts!NoCommand, NoCommand, Mcp!Ts!NoContent, NoContent
        <3>2. QED BY <2>4, <3>1
    <2>5. QED BY <1>1, <2>1, <2>2, <2>3, <2>4
<1>3. stage \in Stages /\ flow \in Flows /\ "provisioning" \in Recoveries /\ "none" \in RunStates
      /\ 0 \in 0 .. MaxRuns
    BY Basics DEF Stages, Flows, Recoveries, RunStates
<1>4. journal = [mode |-> mode, workspace |-> known_, run |-> 0, view |-> "none", pending |-> NoCommand,
         stage |-> stage, flow |-> flow, state |-> "provisioning", capture |-> NoContent,
         sub |-> 0, sealed |-> FALSE, receipt |-> FALSE, last |-> "none", recovery |-> "provisioning",
         doubt |-> FALSE, cleanup |-> "pending"]
    BY <1>2 DEF NewJournal
<1>5. journal \in Journal
    BY <1>3, <1>4 DEF Journal
<1>6. journal.run = 0 /\ journal.pending = NoCommand /\ journal.view = "none" /\ journal.stage = stage /\ journal.flow = flow
    BY <1>4
<1>7. ~Pending /\ journal.pending.kind = "none" /\ ~Opening
    BY <1>6, Basics DEF Pending, Opening
<1>8. /\ server = [workspace |-> IF known THEN "created" ELSE "none", runs |-> [r \in Runs |-> NoRun]]
      /\ answers = [k \in Keys |-> NoAnswer] /\ late = {} /\ faults = MaxFaults
    BY <1>1 DEF ServiceInit
<1>9. ServiceTypes
    BY <1>8, Basics DEF ServiceTypes, ServerRecord
<1>10. SessionTypes
    BY <1>1, <1>5, Basics DEF SessionTypes
<1>11. FewLate
    <2>1. IsFiniteSet({}) /\ Cardinality({}) = 0
        BY FS_EmptySet
    <2>2. QED BY <1>8, <2>1, Basics DEF FewLate
<1>12. RunsInOrder
    <2>1. Current = 0
        BY <1>6, <1>7 DEF Current
    <2>2. \A r \in Runs : server.runs[r].state = "none" /\ ~(r <= 0)
        BY <1>8, Basics DEF Runs
    <2>3. QED BY <2>1, <2>2 DEF RunsInOrder, Live
<1>13. SharedInvariant
    BY <1>1, <1>6, <1>7, <1>8, <1>9, <1>10, <1>11, <1>12
       DEF SharedInvariant, LateIsHarmless, UnsentIsUnknown, CallIsPending, CommandFits, OpeningIsNext, Captured, Idle
<1>14. LibraryInvariant
    BY <1>1, <1>2, <1>6, <1>7, LibrariesAreKnown
       DEF LibraryInvariant, TypescriptKnows, PythonKnows, PythonPublishes, PhpKnows, OnRunPhases, Terminal, Opening, Unsealed
<1>15. QED BY <1>13, <1>14 DEF SessionInvariant

\* Every step keeps the invariant: one of the client, of its agent, of the service, or none.
LEMMA StepKeeps ==
    ASSUME SessionInvariant, [Next]_vars
    PROVE  SessionInvariant'
<1>1. CASE UNCHANGED vars
    BY <1>1, OutsideKeeps DEF vars, session, service
<1>2. CASE ClientNext /\ UNCHANGED library
    <2>1. CASE library = "typescript" /\ Ts!Next
        BY <1>2, <2>1, TypescriptKeeps DEF Ts!Next
    <2>2. QED BY <1>2, <2>1, PythonKeeps, PhpKeeps, McpKeeps DEF ClientNext
<1>3. CASE AgentNext /\ UNCHANGED library
    BY <1>3, WriteKeeps DEF AgentNext
<1>4. CASE ServiceNext /\ UNCHANGED session /\ UNCHANGED library
    BY <1>4, ServiceKeeps DEF session
<1>5. QED BY <1>1, <1>2, <1>3, <1>4 DEF Next

\* Every reachable state satisfies the invariant, whichever of the four libraries is considered: every
\* live run is known to the session, and no request on its way can bring another to life.
THEOREM InvariantHolds == Spec => []SessionInvariant
<1>1. Init => SessionInvariant
    BY InitHolds
<1>2. SessionInvariant /\ [Next]_vars => SessionInvariant'
    BY StepKeeps
<1>3. QED BY <1>1, <1>2, PTL DEF Spec

-----------------------------------------------------------------------------
(* What the invariant means *)

\* Every live run is the one the journal names, or the answer to the open command that it still holds.
THEOREM LiveRunsAreOwned == Spec => []LiveRunIsOwned
<1>1. SessionInvariant => LiveRunIsOwned
    <2> SUFFICES ASSUME SessionInvariant, NEW r \in Runs, server.runs[r].state \in Live
                 PROVE  r = journal.run \/ (journal.pending.kind = "run:open" /\ answers[journal.pending.key].run = r)
        BY DEF LiveRunIsOwned
    <2>1. r = Current
        BY DEF SessionInvariant, SharedInvariant, RunsInOrder
    <2>2. QED BY <2>1 DEF Current, Opening
<1>2. QED BY <1>1, InvariantHolds, PTL

\* Whatever is sealed for the run of the session is what the journal captured once.
THEOREM SealedContentIsCaptured == Spec => []SealedIsCaptured
<1>1. SessionInvariant => SealedIsCaptured
    <2> SUFFICES ASSUME SessionInvariant, journal.run # 0, journal.cleanup = "pending",
                        NEW i \in 1 .. Len(server.runs[journal.run].subs), server.runs[journal.run].subs[i].sealed
                 PROVE  server.runs[journal.run].subs[i].content = journal.capture
        BY DEF SealedIsCaptured
    <2>1. i \in Nat
        <3>1. SharedInvariant /\ journal.run \in Runs /\ server \in ServerRecord
            BY JournalIsAlike DEF SessionInvariant
        <3>2. server.runs[journal.run] \in RunRecord
            BY <3>1 DEF ServerRecord
        <3>3. QED BY <3>2, RunFields
    <2>2. QED BY <2>1 DEF SessionInvariant, SharedInvariant, Captured, Sealed
<1>2. QED BY <1>1, InvariantHolds, PTL

-----------------------------------------------------------------------------
(* The local tree: what removes it and what makes it ready *)

\* A step that neither starts nor ends a cleanup and makes no tree ready.
LeavesTree == journal'.cleanup = journal.cleanup /\ (journal'.state = "ready" => journal.state = "ready")

\* A step of a cleanup.
RemovesTree == ~Pending /\ Ended /\ (journal'.state = "ready" => journal.state = "ready")

\* A step that makes the tree ready: it is the base of the run.
ReplacesTree == journal'.cleanup = journal.cleanup /\ files' = server.runs[journal'.run].base

TreeStep == LeavesTree \/ RemovesTree \/ ReplacesTree

\* What a step may save while it leaves the tree alone.
SameTree(j) == DOMAIN j = DOMAIN journal /\ j.cleanup = journal.cleanup /\ (j.state = "ready" => journal.state = "ready")

\* The primitive steps save what they are given, but for the command.
LEMMA TreeIsLeft ==
    ASSUME journal \in Journal
    PROVE  /\ \A kind, j : SameTree(j) /\ Prepare(kind, j) => LeavesTree
           /\ \A j, first : SameTree(j) /\ Send(j, first) => LeavesTree
           /\ \A status, j, at : SameTree(j) /\ Read(status, j, at) => LeavesTree
           /\ \A j : SameTree(j) /\ (Learn(j) \/ GiveUp(j)) => LeavesTree
           /\ \A j, f : SameTree(j) /\ Local(j, f) => LeavesTree
           /\ SameTree(journal) /\ SameTree(Opened(journal)) /\ SameTree(Submitted(journal))
<1>1. "cleanup" \in DOMAIN journal /\ "state" \in DOMAIN journal
    BY DEF Journal
<1>2. \A j, v : SameTree(j) => SameTree([j EXCEPT !.pending = v])
    BY <1>1 DEF SameTree
<1>3. \A kind, j : SameTree(j) /\ Prepare(kind, j) => LeavesTree
    BY <1>1, <1>2 DEF Prepare, SameTree, LeavesTree
<1>4. \A j, first : SameTree(j) /\ Send(j, first) => LeavesTree
    BY <1>1 DEF Send, SameTree, LeavesTree
<1>5. \A status, j, at : SameTree(j) /\ Read(status, j, at) => LeavesTree
    BY DEF Read, SameTree, LeavesTree
<1>6. \A j : SameTree(j) /\ (Learn(j) \/ GiveUp(j)) => LeavesTree
    BY DEF Learn, GiveUp, SameTree, LeavesTree
<1>7. \A j, f : SameTree(j) /\ Local(j, f) => LeavesTree
    BY DEF Local, SameTree, LeavesTree
<1>8. SameTree(journal)
    BY DEF SameTree
<1>9. SameTree(Opened(journal))
    BY <1>1 DEF SameTree, Opened
<1>10. SameTree(Submitted(journal))
    BY <1>1 DEF SameTree, Submitted
<1>11. QED BY <1>3, <1>4, <1>5, <1>6, <1>7, <1>8, <1>9, <1>10

\* A download that fails leaves the tree incomplete; one that ends leaves the base of the run.
LEMMA HydrateReplaces ==
    ASSUME NEW done, NEW failed, Hydrate(done, failed), done.run = journal.run, done.cleanup = journal.cleanup, SameTree(failed)
    PROVE  LeavesTree \/ ReplacesTree
<1>1. CASE Local(done, server.runs[journal.run].base)
    BY <1>1 DEF Local, ReplacesTree
<1>2. CASE journal' = failed
    BY <1>2 DEF SameTree, LeavesTree
<1>3. QED BY <1>1, <1>2 DEF Hydrate

\* What each library does to the tree: TypeScript.
LEMMA TypescriptTree ==
    ASSUME SessionInvariant, library \in {"typescript", "mcp"}, Ts!Next
    PROVE  TreeStep
<1>1. journal \in Journal /\ SharedInvariant /\ TypescriptKnows
    BY JournalIsAlike DEF SessionInvariant, LibraryInvariant, Alike
<1>2. "cleanup" \in DOMAIN journal /\ "state" \in DOMAIN journal /\ "run" \in DOMAIN journal
    BY <1>1 DEF Journal
<1>3. \A kind, j : SameTree(j) /\ Ts!prepare(kind, j) => LeavesTree
    BY <1>1, TreeIsLeft, TypescriptActions, Zenon DEF Ts!prepare
<1>4. SameTree(journal)
    BY <1>1, TreeIsLeft
<1>5. Ts!dispatch \/ Ts!outcomeUnknown => LeavesTree
    BY <1>1, <1>4, TreeIsLeft, TypescriptActions, Zenon DEF Ts!dispatch, Ts!outcomeUnknown
<1>6. Ts!receive => LeavesTree
    <2>1. SameTree(Ts!accepted)
        <3>1. SameTree(Opened(journal)) /\ SameTree(Submitted(journal))
            BY <1>1, TreeIsLeft
        <3> DEFINE o == Opened(journal)
        <3>2. SameTree([o EXCEPT !.stage = IF journal.flow = "checkpoint" THEN "refreshing" ELSE "opening",
                          !.capture = NoContent, !.sub = 0, !.sealed = FALSE, !.receipt = FALSE, !.last = "none"])
            <4> HIDE DEF o
            <4>1. SameTree(o)
                BY <3>1 DEF o
            <4>2. QED BY <1>2, <4>1 DEF SameTree
        <3>3. /\ SameTree([journal EXCEPT !.view = "active", !.pending = NoCommand])
              /\ SameTree([journal EXCEPT !.view = "aborted", !.stage = "aborted", !.flow = "idle", !.pending = NoCommand])
              /\ SameTree([journal EXCEPT !.pending.op = TRUE])
            BY <1>2 DEF SameTree
        <3>4. QED BY <3>1, <3>2, <3>3, TypescriptValues, TypescriptActions, Zenon DEF Ts!accepted
    <2>2. \A status : SameTree(Ts!refused(status))
        BY <1>2, TypescriptValues DEF SameTree, Ts!refused
    <2>3. QED BY <1>1, <2>1, <2>2, TreeIsLeft, TypescriptActions, Zenon DEF Ts!receive
<1>7. Ts!learnCreation \/ Ts!learnFinalization => LeavesTree
    <2>1. /\ SameTree([journal EXCEPT !.workspace = TRUE, !.pending = NoCommand])
          /\ \A at, view : SameTree([journal EXCEPT !.view = view, !.last = "succeeded", !.pending = NoCommand, !.stage = at])
          /\ \A at, view : SameTree([journal EXCEPT !.view = view, !.last = "failed", !.pending = NoCommand, !.stage = at, !.flow = "idle"])
        BY <1>2 DEF SameTree
    <2>2. Ts!learnCreation => LeavesTree
        <3>1. Ts!learnCreation => Learn(journal) \/ Learn([journal EXCEPT !.workspace = TRUE, !.pending = NoCommand])
            BY TypescriptValues, TypescriptActions DEF Ts!learnCreation
        <3>2. QED BY <1>1, <1>4, <2>1, <3>1, TreeIsLeft, Zenon
    <2>3. Ts!learnFinalization => LeavesTree
        <3>1. Ts!learnFinalization =>
                 \E at, view : \/ Learn([journal EXCEPT !.view = view, !.last = "succeeded", !.pending = NoCommand, !.stage = at])
                               \/ Learn([journal EXCEPT !.view = view, !.last = "failed", !.pending = NoCommand, !.stage = at, !.flow = "idle"])
            BY TypescriptValues, TypescriptActions DEF Ts!learnFinalization
        <3>2. QED BY <1>1, <2>1, <3>1, TreeIsLeft, Zenon
    <2>4. QED BY <2>2, <2>3
<1>8. Ts!opening \/ Ts!seal \/ Ts!finish \/ Ts!heartbeat \/ Ts!abort => LeavesTree
    <2>1. SameTree([journal EXCEPT !.flow = "idle"])
        BY <1>2 DEF SameTree
    <2>2. QED BY <1>3, <1>4, <2>1, Zenon DEF Ts!opening, Ts!seal, Ts!finish, Ts!heartbeat, Ts!abort
<1>9. Ts!captureOnce \/ Ts!submitted \/ Ts!readRun \/ Ts!finalized \/ Ts!status \/ Ts!reopen
        \/ (\E flow \in {"submit", "finalize", "checkpoint"} : Ts!beginWorkflow(flow))
      => LeavesTree
    <2>1. /\ \A v : SameTree([journal EXCEPT !.capture = v]) /\ SameTree([journal EXCEPT !.flow = v])
                    /\ SameTree([journal EXCEPT !.view = v]) /\ SameTree([journal EXCEPT !.stage = v])
          /\ \A v, w : SameTree([journal EXCEPT !.view = v, !.stage = w]) /\ SameTree([journal EXCEPT !.flow = v, !.stage = w])
        BY <1>2 DEF SameTree
    <2>2. \A j, f : SameTree(j) /\ Ts!Local(j, f) => LeavesTree
        BY <1>1, TreeIsLeft, TypescriptActions, Zenon
    <2>3. QED BY <1>3, <1>4, <2>1, <2>2, Zenon DEF Ts!captureOnce, Ts!capture, Ts!submitted, Ts!readRun, Ts!finalized, Ts!status,
                   Ts!reopen, Ts!beginWorkflow
<1>10. Ts!hydrate => LeavesTree \/ ReplacesTree
    <2> DEFINE done == [journal EXCEPT !.state = "ready", !.stage = "ready", !.flow = "idle"]
               failed == [journal EXCEPT !.state = "failed"]
    <2>1. Ts!hydrate => Hydrate(done, failed)
        BY TypescriptActions, Zenon DEF Ts!hydrate
    <2>2. done.run = journal.run /\ done.cleanup = journal.cleanup /\ SameTree(failed)
        BY <1>2 DEF SameTree
    <2> HIDE DEF done, failed
    <2>3. QED BY <2>1, <2>2, HydrateReplaces
<1>11. Ts!cleanup => RemovesTree
    <2>1. ASSUME Ts!cleanup PROVE ~Pending /\ journal.view \in Terminal /\ journal'.state = journal.state
        <3>1. PICK j : /\ Local(j, "absent") /\ ~Pending /\ journal.view \in Terminal
                       /\ \/ j = [journal EXCEPT !.flow = "idle", !.stage = journal.view, !.capture = NoContent,
                                    !.receipt = FALSE, !.cleanup = "running"]
                          \/ j = [journal EXCEPT !.cleanup = "complete"]
            BY <2>1, TypescriptValues, TypescriptActions, Zenon DEF Ts!cleanup, Ts!removeOwnedTree
        <3>2. QED BY <1>2, <3>1 DEF Local
    <2>2. QED BY <1>1, <2>1 DEF TypescriptKnows, RemovesTree
<1>12. QED
    BY <1>5, <1>6, <1>7, <1>8, <1>9, <1>10, <1>11 DEF Ts!Next, Ts!reconcile, TreeStep


\* What the Python library does to the tree: files of a checkpoint that stopped are kept only if they are the base.
LEMMA PythonTree ==
    ASSUME SessionInvariant, library = "python", Py!Next
    PROVE  TreeStep
<1>1. journal \in Journal /\ SharedInvariant /\ PythonKnows /\ PythonPublishes /\ server \in ServerRecord
      /\ (journal.run # 0 => journal.run \in Runs)
    BY JournalIsAlike DEF SessionInvariant, LibraryInvariant, Alike
<1>2. "cleanup" \in DOMAIN journal /\ "state" \in DOMAIN journal /\ "run" \in DOMAIN journal
    BY <1>1 DEF Journal
<1>3. \A kind, j : SameTree(j) /\ Py!prepare(kind, j) => LeavesTree
    BY <1>1, TreeIsLeft, PythonActions, Zenon DEF Py!prepare
<1>4. SameTree(journal)
    BY <1>1, TreeIsLeft
<1>5. Py!dispatch \/ Py!outcomeUnknown => LeavesTree
    BY <1>1, <1>4, TreeIsLeft, PythonActions, Zenon DEF Py!dispatch, Py!outcomeUnknown
<1>6. Py!receive => LeavesTree
    <2>1. SameTree(Py!accept)
        <3>1. SameTree(Opened(journal)) /\ SameTree(Submitted(journal))
            BY <1>1, TreeIsLeft
        <3>2. \A o, v : SameTree(o) => SameTree([o EXCEPT !.stage = v])
            BY <1>2 DEF SameTree
        <3>3. /\ SameTree([journal EXCEPT !.view = "active", !.pending = NoCommand])
              /\ SameTree([journal EXCEPT !.view = "aborted", !.stage = "aborted", !.pending = NoCommand])
              /\ SameTree([journal EXCEPT !.pending.op = TRUE])
            BY <1>2 DEF SameTree
        <3>4. QED BY <3>1, <3>2, <3>3, PythonValues, PythonActions, Zenon DEF Py!accept
    <2>2. \A status : SameTree(Py!rejected(status))
        BY <1>2, PythonValues DEF SameTree, Py!rejected
    <2>3. QED BY <1>1, <2>1, <2>2, TreeIsLeft, PythonActions, Zenon DEF Py!receive
<1>7. Py!settleOperation => LeavesTree
    <2>1. /\ \A at : SameTree([journal EXCEPT !.workspace = TRUE, !.stage = at, !.pending = NoCommand])
          /\ \A at : SameTree([journal EXCEPT !.state = "failed", !.stage = at, !.pending = NoCommand])
          /\ \A at, view : SameTree([journal EXCEPT !.view = view, !.last = "succeeded", !.pending = NoCommand, !.stage = at])
        BY <1>2 DEF SameTree
    <2>2. Py!settleOperation =>
             \E at, view : \/ Learn([journal EXCEPT !.workspace = TRUE, !.stage = at, !.pending = NoCommand])
                           \/ Learn([journal EXCEPT !.state = "failed", !.stage = at, !.pending = NoCommand])
                           \/ Learn([journal EXCEPT !.view = view, !.last = "succeeded", !.pending = NoCommand, !.stage = at])
        BY PythonValues, PythonActions DEF Py!settleOperation
    <2>3. QED BY <1>1, <2>1, <2>2, TreeIsLeft, Zenon
<1>8. Py!advance \/ Py!heartbeat \/ Py!abort => LeavesTree
    <2>1. SameTree([journal EXCEPT !.view = "active"]) /\ SameTree([journal EXCEPT !.stage = "sealing"])
        BY <1>2 DEF SameTree
    <2>2. \A j, f : SameTree(j) /\ Py!Local(j, f) => LeavesTree
        BY <1>1, TreeIsLeft, PythonActions, Zenon
    <2>3. QED BY <1>3, <1>4, <2>1, <2>2, Zenon DEF Py!advance, Py!heartbeat, Py!abort
<1>9. Py!status \/ Py!retireRejectedReopen \/ (\E flow \in {"none", "checkpoint"} : Py!finalize(flow)) => LeavesTree
    <2>1. /\ \A v : SameTree([journal EXCEPT !.view = v])
          /\ \A v, w : SameTree([journal EXCEPT !.flow = v, !.stage = w])
          /\ \A v : SameTree([journal EXCEPT !.pending = NoCommand, !.stage = "abandoned", !.flow = "none", !.view = v])
        BY <1>2 DEF SameTree
    <2>2. \A v, w : SameTree([Py!capture_workspace EXCEPT !.flow = v, !.stage = w])
        <3>1. SameTree(Py!capture_workspace)
            BY <1>2 DEF SameTree, Py!capture_workspace
        <3>2. QED BY <1>2, <3>1 DEF SameTree
    <2>3. \A j, f : SameTree(j) /\ Py!Local(j, f) => LeavesTree
        BY <1>1, TreeIsLeft, PythonActions, Zenon
    <2>4. QED BY <2>1, <2>2, <2>3, PythonValues, Zenon DEF Py!status, Py!retireRejectedReopen, Py!finalize
<1>10. Py!hydrate => LeavesTree \/ ReplacesTree
    <2> DEFINE done == [journal EXCEPT !.stage = "ready", !.flow = "none", !.state = "ready"]
    <2>1. Py!hydrate =>
             /\ journal.stage = "hydrating"
             /\ \/ /\ Local(done, files) /\ journal.capture # NoContent /\ server.runs[journal.run].own /\ files = journal.capture
                \/ Hydrate(done, journal)
        BY PythonValues, PythonActions, Zenon DEF Py!hydrate
    <2>2. done.run = journal.run /\ done.cleanup = journal.cleanup
        BY <1>2
    <2> HIDE DEF done
    <2>3. journal.stage = "hydrating" => Current = journal.run
        BY <1>1 DEF PythonKnows, Current
    <2>4. CASE journal.stage = "hydrating" /\ Local(done, files) /\ journal.capture # NoContent /\ server.runs[journal.run].own
               /\ files = journal.capture
        <3>1. server.runs[journal.run].base = journal.capture
            BY <1>1, <2>3, <2>4 DEF PythonPublishes
        <3>2. journal' = done /\ files' = files /\ server' = server
            BY <2>4 DEF Local, service
        <3>3. QED BY <2>2, <2>4, <3>1, <3>2 DEF ReplacesTree
    <2>5. CASE Hydrate(done, journal)
        BY <1>4, <2>2, <2>5, HydrateReplaces
    <2>6. QED BY <2>1, <2>4, <2>5
<1>11. Py!cleanup => RemovesTree
    <2>1. ASSUME Py!cleanup PROVE ~Pending /\ journal.run # 0 /\ View(journal.run) \in Terminal /\ journal'.state = journal.state
        <3>1. PICK j : /\ Local(j, "absent") /\ ~Pending /\ journal.run # 0 /\ View(journal.run) \in Terminal
                       /\ \/ j = [journal EXCEPT !.view = View(journal.run), !.cleanup = "running"]
                          \/ j = [journal EXCEPT !.capture = NoContent, !.cleanup = "complete"]
            BY <2>1, PythonValues, PythonActions, Zenon DEF Py!cleanup, Py!remove_workspace
        <3>2. QED BY <1>2, <3>1 DEF Local
    <2>2. QED BY <1>1, <2>1, ViewIsState DEF Ended, RemovesTree
<1>12. QED
    BY <1>5, <1>6, <1>7, <1>8, <1>9, <1>10, <1>11 DEF Py!Next, Py!reconcile, TreeStep

\* What the PHP library does to the tree.
LEMMA PhpTree ==
    ASSUME SessionInvariant, library = "php", Php!Next
    PROVE  TreeStep
<1>1. journal \in Journal /\ SharedInvariant /\ server \in ServerRecord /\ (journal.run # 0 => journal.run \in Runs)
    BY JournalIsAlike DEF SessionInvariant, LibraryInvariant, Alike
<1>2. "cleanup" \in DOMAIN journal /\ "state" \in DOMAIN journal /\ "run" \in DOMAIN journal
    BY <1>1 DEF Journal
<1>3. \A kind : Php!prepare(kind) => LeavesTree
    BY <1>1, TreeIsLeft, PhpActions, Zenon DEF Php!prepare
<1>4. SameTree(journal)
    BY <1>1, TreeIsLeft
<1>5. Php!dispatch \/ Php!outcomeUnknown => LeavesTree
    <2>1. \A v : SameTree([journal EXCEPT !.doubt = v]) /\ SameTree([journal EXCEPT !.recovery = v])
        BY <1>2 DEF SameTree
    <2>2. QED BY <1>1, <1>4, <2>1, TreeIsLeft, PhpActions, Zenon DEF Php!dispatch, Php!outcomeUnknown
<1>6. SameTree(Php!knownFailed)
    BY <1>2 DEF SameTree, Php!knownFailed
<1>7. Php!receive => LeavesTree
    <2>1. SameTree(Php!accepted)
        <3>1. SameTree(Opened(journal)) /\ SameTree(Submitted(journal))
            BY <1>1, TreeIsLeft
        <3>2. /\ \A o, v : SameTree(o) => SameTree([o EXCEPT !.stage = v])
              /\ \A o, v : SameTree(o) => SameTree([o EXCEPT !.stage = v, !.doubt = FALSE])
            BY <1>2 DEF SameTree
        <3>3. /\ SameTree([journal EXCEPT !.flow = "none", !.recovery = "ready", !.stage = "ready", !.pending = NoCommand])
              /\ SameTree([journal EXCEPT !.flow = "none", !.recovery = "aborted", !.stage = "done", !.pending = NoCommand])
              /\ SameTree([journal EXCEPT !.pending.op = TRUE])
            BY <1>2 DEF SameTree
        <3>4. QED BY <3>1, <3>2, <3>3, PhpValues, PhpActions, Zenon DEF Php!accepted
    <2>2. \A status : SameTree(Php!refused(status))
        BY <1>2, <1>6 DEF SameTree, Php!refused
    <2>3. QED BY <1>1, <2>1, <2>2, TreeIsLeft, PhpActions, Zenon DEF Php!receive
<1>8. Php!settleOperation => LeavesTree
    <2> DEFINE created == [journal EXCEPT !.workspace = TRUE, !.stage = "open", !.pending = NoCommand]
               again == [journal EXCEPT !.last = "succeeded", !.doubt = FALSE, !.pending = NoCommand,
                           !.recovery = "published-needs-reopen", !.stage = "reopen"]
               ended == [journal EXCEPT !.last = "succeeded", !.recovery = "finalized", !.flow = "none",
                           !.stage = "done", !.pending = NoCommand]
    <2>1. SameTree(created) /\ SameTree(again) /\ SameTree(ended)
        BY <1>2 DEF SameTree
    <2>2. Php!settleOperation => Learn(created) \/ Learn(again) \/ Learn(ended) \/ Learn(Php!knownFailed)
        BY PhpValues, PhpActions DEF Php!settleOperation
    <2> HIDE DEF created, again, ended
    <2>3. QED BY <1>1, <1>6, <2>1, <2>2, TreeIsLeft, Zenon
<1>9. Php!captureStage \/ Php!drive \/ Php!heartbeat \/ Php!abort \/ Php!abandonReopen
        \/ (\E flow \in {"finalize", "checkpoint"} : Php!finish(flow))
      => LeavesTree
    <2>1. /\ \A v : SameTree([journal EXCEPT !.stage = v])
          /\ \A v, w : SameTree([journal EXCEPT !.flow = v, !.stage = w])
          /\ \A v : SameTree([journal EXCEPT !.flow = v, !.stage = "capture", !.recovery = "capturing"])
          /\ SameTree([journal EXCEPT !.pending = NoCommand, !.flow = "none", !.stage = "done",
                !.recovery = "published-reopen-abandoned"])
        BY <1>2 DEF SameTree
    <2>2. \A v : SameTree([Php!capture EXCEPT !.stage = v])
        <3>1. SameTree(Php!capture)
            BY <1>2 DEF SameTree, Php!capture
        <3>2. QED BY <1>2, <3>1 DEF SameTree
    <2>3. \A j, f : SameTree(j) /\ Php!Local(j, f) => LeavesTree
        BY <1>1, TreeIsLeft, PhpActions, Zenon
    <2>4. QED BY <1>3, <2>1, <2>2, <2>3, PhpValues, Zenon
              DEF Php!captureStage, Php!drive, Php!heartbeat, Php!abort, Php!abandonReopen, Php!finish
<1>10. Php!hydrate => LeavesTree \/ ReplacesTree
    <2> DEFINE done == [journal EXCEPT !.state = "ready", !.recovery = "ready", !.flow = "none", !.stage = "ready",
                          !.capture = NoContent, !.sub = 0, !.sealed = FALSE, !.receipt = FALSE]
               failed == [journal EXCEPT !.state = "failed", !.recovery = "hydration-failed"]
    <2>1. Php!hydrate => Hydrate(done, failed)
        BY PhpValues, PhpActions, Zenon DEF Php!hydrate
    <2>2. done.run = journal.run /\ done.cleanup = journal.cleanup /\ SameTree(failed)
        BY <1>2 DEF SameTree
    <2> HIDE DEF done, failed
    <2>3. QED BY <2>1, <2>2, HydrateReplaces
<1>11. Php!cleanup => RemovesTree
    <2>1. ASSUME Php!cleanup PROVE ~Pending /\ journal.run # 0 /\ View(journal.run) \in Terminal /\ journal'.state = journal.state
        <3>1. PICK j : /\ Local(j, "absent") /\ ~Pending /\ journal.run # 0 /\ View(journal.run) \in Terminal
                       /\ \/ j = [journal EXCEPT !.cleanup = "running"]
                          \/ j = [journal EXCEPT !.cleanup = "complete"]
            BY <2>1, PhpValues, PhpActions, Zenon DEF Php!cleanup, Php!clear
        <3>2. QED BY <1>2, <3>1 DEF Local
    <2>2. QED BY <1>1, <2>1, ViewIsState DEF Ended, RemovesTree
<1>12. QED
    BY <1>5, <1>7, <1>8, <1>9, <1>10, <1>11 DEF Php!Next, Php!reconcile, TreeStep

\* The MCP server's own steps leave the tree alone or are steps of the TypeScript session.
LEMMA McpTree ==
    ASSUME SessionInvariant, library = "mcp", Mcp!Next
    PROVE  TreeStep
<1>1. CASE Mcp!runs \/ Mcp!outcomeUnknown \/ Mcp!command \/ Mcp!cleanup \/ Mcp!status
    <2>1. Ts!Next
        <3>1. Mcp!runs => Ts!Next
            BY McpTakesTypescriptSteps, Zenon DEF Mcp!runs, Ts!Next
        <3>2. Mcp!outcomeUnknown => Ts!Next
            BY McpTakesTypescriptSteps, Zenon DEF Mcp!outcomeUnknown, Ts!Next
        <3>3. Mcp!command => Ts!Next
            BY McpTakesTypescriptSteps DEF Mcp!command, Ts!Next
        <3>4. Mcp!cleanup => Ts!Next
            BY McpTakesTypescriptSteps, Zenon DEF Mcp!cleanup, Ts!Next
        <3>5. Mcp!status => Ts!Next
            BY McpTakesTypescriptSteps, Zenon DEF Mcp!status, Ts!Next
        <3>6. QED BY <1>1, <3>1, <3>2, <3>3, <3>4, <3>5
    <2>2. QED BY <2>1, TypescriptTree
<1>2. CASE Mcp!throws \/ Mcp!recover \/ Mcp!unblock \/ Mcp!dies \/ \E c \in Contents : Mcp!write(c)
    <2>1. journal' = journal
        BY <1>2 DEF Mcp!throws, Mcp!recover, Mcp!unblock, Mcp!dies, Mcp!write, Mcp!Write, Mcp!Local, Mcp!session
    <2>2. QED BY <2>1 DEF LeavesTree, TreeStep
<1>3. QED BY <1>1, <1>2 DEF Mcp!Next

\* Every step of the system.
LEMMA TreeSteps ==
    ASSUME SessionInvariant, [Next]_vars
    PROVE  TreeStep
<1>1. CASE UNCHANGED session
    BY <1>1 DEF session, LeavesTree, TreeStep
<1>2. CASE AgentNext
    BY <1>2 DEF AgentNext, Write, Local, LeavesTree, TreeStep
<1>3. CASE ClientNext
    BY <1>3, TypescriptTree, PythonTree, PhpTree, McpTree DEF ClientNext
<1>4. QED BY <1>1, <1>2, <1>3 DEF Next, vars

\* Local files are removed only when nothing can still need them or come to life: the run has ended, nothing is
\* pending, and every opening that is on its way has its answer already.
THEOREM CleanupsAreSafe == Spec => CleanupIsSafe
<1> DEFINE Safe == journal'.cleanup # journal.cleanup =>
                     /\ ~Pending /\ \A r \in Runs : server.runs[r].state \notin Live
                     /\ \A q \in late : q.kind = "run:open" => answers[q.key] # NoAnswer
<1>1. SessionInvariant /\ [Next]_vars => [Safe]_vars
    <2> SUFFICES ASSUME SessionInvariant, [Next]_vars, journal'.cleanup # journal.cleanup
                 PROVE  Safe
        OBVIOUS
    <2>1. ~Pending /\ Ended /\ journal.run \in Runs /\ SharedInvariant /\ server \in ServerRecord
        BY TreeSteps, JournalIsAlike DEF TreeStep, LeavesTree, RemovesTree, ReplacesTree, SessionInvariant, Ended
    <2>2. Current = journal.run
        BY <2>1, Basics DEF Pending, Opening, Current
    <2>3. \A r \in Runs : server.runs[r].state \notin Live
        BY <2>1, <2>2 DEF SharedInvariant, RunsInOrder, Ended, Terminal, Live
    <2>4. \A q \in late : answers[q.key] # NoAnswer
        BY <2>1 DEF SharedInvariant, LateIsHarmless, IsAnswered
    <2>5. QED BY <2>1, <2>3, <2>4
<1>2. QED BY <1>1, InvariantHolds, PTL DEF Spec, CleanupIsSafe

\* A workspace becomes ready only with exactly the pinned base of its run in place.
THEOREM ReadyTreesAreTheBase == Spec => ReadyIsTheBase
<1> DEFINE Ready == journal.state # "ready" /\ journal'.state = "ready" => files' = server.runs[journal'.run].base
<1>1. SessionInvariant /\ [Next]_vars => [Ready]_vars
    BY TreeSteps DEF TreeStep, LeavesTree, RemovesTree, ReplacesTree
<1>2. QED BY <1>1, InvariantHolds, PTL DEF Spec, ReadyIsTheBase
=============================================================================
