---------------------------- MODULE SessionService ----------------------------
(***************************************************************************)
(* The server and the network as one client session meets them.  A command *)
(* carries an idempotency key; an accepted one is recorded with its answer *)
(* and the answer is repeated to whoever sends the key again, once current *)
(* authority is confirmed.  A refusal leaves no record.  Requests that a   *)
(* client gave up on stay in `late` and may be accepted much later.        *)
(*                                                                         *)
(* Keys are drawn from a small set: a new command takes one that no        *)
(* request on its way still carries, and starts with no answer.            *)
(***************************************************************************)
EXTENDS Naturals, Sequences, FiniteSets

CONSTANTS Contents,   \* complete snapshots of the local files
          MaxRuns,    \* runs that the session can open
          MaxFaults   \* times that something goes wrong: a response is not read, a request is denied,
                      \* a download is interrupted, a lease passes

ASSUME SessionBounds == MaxRuns \in Nat \ {0} /\ MaxFaults \in Nat /\ Contents # {}

Runs == 1 .. MaxRuns
Keys == 1 .. (MaxFaults + 1)
NoContent == "none"

VARIABLES server,    \* the workspace and the runs this session opened
          answers,   \* the recorded answer of every key
          late,      \* requests the client no longer waits for
          faults

service == <<server, answers, late, faults>>

-----------------------------------------------------------------------------
(* Records *)

RunStates == {"none", "active", "lapsed", "finalizing", "finalized", "conflicted", "failed", "aborted", "expired"}
Kinds == {"workspace:create", "run:open", "run:heartbeat", "submission:create", "submission:file", "submission:seal",
          "finalize", "abort"}

RunRecord == [state: RunStates, base: Contents, own: BOOLEAN,
              subs: Seq([sealed: BOOLEAN, content: Contents \cup {NoContent}]), source: Nat]
Request == [kind: Kinds, key: Keys, run: 0 .. MaxRuns, sub: Nat, content: Contents \cup {NoContent}]
Answer == [run: 0 .. MaxRuns, sub: Nat]
NoAnswer == [run |-> 0, sub |-> 99]

Terminal == {"finalized", "aborted", "conflicted", "failed", "expired"}
Live == {"active", "lapsed", "finalizing"}

NoRun == [state |-> "none", base |-> CHOOSE c \in Contents : TRUE, own |-> FALSE, subs |-> <<>>, source |-> 0]

\* What a read of the run shows: a lapsed lease is not visible in its state.
View(r) == IF server.runs[r].state = "lapsed" THEN "active" ELSE server.runs[r].state

\* The content that finalizing a run publishes.
Published(r) == server.runs[r].subs[server.runs[r].source].content

-----------------------------------------------------------------------------
(* Commands *)

NextRun == Cardinality({r \in Runs : server.runs[r].state # "none"}) + 1

\* Whether a command that has no recorded answer is accepted now.
Acceptable(q) ==
    LET run == server.runs[q.run] IN
    CASE q.kind = "workspace:create" -> TRUE
      [] q.kind = "run:open" -> server.workspace = "created" /\ NextRun \in Runs
      [] q.kind = "submission:file" -> run.state = "active" /\ ~run.subs[q.sub].sealed
      [] q.kind = "submission:seal" -> run.state = "active" /\ run.subs[q.sub].content = q.content
      [] q.kind = "finalize" -> run.state = "active" /\ (q.sub # 0 => run.subs[q.sub].sealed)
      [] OTHER -> run.state = "active"

\* The base of the next run is the session's own last publication, or what another writer accepted since.
Bases ==
    LET last == NextRun - 1 IN
    IF NextRun = 1 THEN {[base |-> server.runs[1].base, own |-> FALSE]}
    ELSE {[base |-> c, own |-> server.runs[last].source # 0 /\ c = Published(last)] : c \in Contents}

\* The details of the runs before are dropped: no command reads them again.
openRun(b) ==
    [server EXCEPT !.runs = [r \in Runs |->
       CASE r = NextRun -> [state |-> "active", base |-> b.base, own |-> b.own, subs |-> <<>>, source |-> 0]
         [] r < NextRun -> [NoRun EXCEPT !.state = server.runs[r].state]
         [] OTHER -> NoRun]]

createSubmission(q) ==
    [server EXCEPT !.runs[q.run].subs = Append(@, [sealed |-> FALSE, content |-> NoContent])]

\* The other commands on a run.
OnRun(q) ==
    CASE q.kind = "submission:file" -> [server EXCEPT !.runs[q.run].subs[q.sub].content = q.content]
      [] q.kind = "submission:seal" -> [server EXCEPT !.runs[q.run].subs[q.sub].sealed = TRUE]
      [] q.kind = "finalize" -> [server EXCEPT !.runs[q.run].state = "finalizing", !.runs[q.run].source = q.sub]
      [] q.kind = "abort" -> [server EXCEPT !.runs[q.run].state = "aborted"]
      [] OTHER -> server

\* The answer of a command: the recorded one, the one that it is accepted with, or none.
Answered(q) ==
    IF answers[q.key] # NoAnswer \/ ~Acceptable(q) THEN answers[q.key]
    ELSE [run |-> IF q.kind = "run:open" THEN NextRun ELSE q.run,
          sub |-> IF q.kind = "submission:create" THEN Len(server.runs[q.run].subs) + 1 ELSE q.sub]

\* The transaction of a command: a replay or a refusal changes nothing.
Handle(q) ==
    \/ (answers[q.key] # NoAnswer \/ ~Acceptable(q)) /\ UNCHANGED server
    \/ /\ answers[q.key] = NoAnswer /\ Acceptable(q)
       /\ \/ q.kind = "workspace:create" /\ server' = [server EXCEPT !.workspace = "creating"]
          \/ q.kind = "run:open" /\ \E b \in Bases : server' = openRun(b)
          \/ q.kind = "submission:create" /\ server' = createSubmission(q)
          \/ q.kind \notin {"workspace:create", "run:open", "submission:create"} /\ server' = OnRun(q)

\* The response to a request.  A denied one has no effect, whatever happened to its key before.
Respond(q, status) ==
    \/ status = "accepted" /\ Answered(q) # NoAnswer /\ Handle(q) /\ UNCHANGED faults
    \/ status = "rejected" /\ Answered(q) = NoAnswer /\ UNCHANGED <<server, faults>>
    \/ status = "denied" /\ faults > 0 /\ faults' = faults - 1 /\ UNCHANGED server

\* A request nobody awaits arrives, or is lost.
DeliverLate(q) ==
    /\ q \in late /\ late' = late \ {q}
    /\ \/ Handle(q) /\ answers' = [answers EXCEPT ![q.key] = Answered(q)]
       \/ UNCHANGED <<server, answers>>
    /\ UNCHANGED faults

\* An accepted operation is processed to its outcome.
ProcessOperation ==
    /\ \/ \E outcome \in {"created", "failed"} :
            server.workspace = "creating" /\ server' = [server EXCEPT !.workspace = outcome]
       \/ \E r \in Runs, outcome \in {"finalized", "conflicted", "failed"} :
            server.runs[r].state = "finalizing" /\ server' = [server EXCEPT !.runs[r].state = outcome]
    /\ UNCHANGED <<answers, late, faults>>

\* The lease of an active run passes; maintenance then records the expiry.
ExpireRun(r) ==
    /\ \/ /\ server.runs[r].state = "active" /\ faults > 0 /\ faults' = faults - 1
          /\ server' = [server EXCEPT !.runs[r].state = "lapsed"]
       \/ /\ server.runs[r].state = "lapsed" /\ UNCHANGED faults
          /\ server' = [server EXCEPT !.runs[r].state = "expired"]
    /\ UNCHANGED <<answers, late>>

ServiceInit(known) ==
    /\ server = [workspace |-> IF known THEN "created" ELSE "none",
                 runs |-> [r \in Runs |-> NoRun]]
    /\ answers = [k \in Keys |-> NoAnswer]
    /\ late = {} /\ faults = MaxFaults

ServiceNext ==
    \/ \E q \in late : DeliverLate(q)
    \/ ProcessOperation
    \/ \E r \in Runs : ExpireRun(r)

=============================================================================
