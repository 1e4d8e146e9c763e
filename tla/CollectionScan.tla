----------------------------- MODULE CollectionScan -----------------------------
(***************************************************************************)
(* How maintenance finds what to collect: one stored position rotates over *)
(* cleanup jobs, candidates and submissions, every tick has a budget, and  *)
(* a job works through its own targets page by page.  Some targets can     *)
(* never be deleted.  One process runs tick after tick; others take turns  *)
(* and die.  A collection is one step here; CandidateCollection and        *)
(* Submission have its parts.                                              *)
(***************************************************************************)
EXTENDS Integers, FiniteSetsExt

CONSTANTS Candidates,   \* candidate revisions, numbered in the order of their identities
          Submissions,  \* submissions, numbered after the candidates as cursors sort them
          Jobs,         \* cleanup jobs, numbered likewise
          JobOf,        \* the job of each target; 0 is none: its revision is accepted
          Poison,       \* targets whose deletion always fails
          BatchSize,    \* batchSize
          MaxFaults     \* passing failures and dead processes

Targets == Candidates \cup Submissions
None == 0

ASSUME ScanAssumption ==
    /\ BatchSize \in Nat \ {0} /\ MaxFaults \in Nat
    /\ Targets \subseteq Nat \ {0} /\ Jobs \subseteq Nat \ {0} /\ Poison \subseteq Targets
    /\ \A c \in Candidates, s \in Submissions : c < s
    /\ JobOf \in [Targets -> Jobs \cup {None}]

VARIABLES scan,       \* the stored position: the lane and its three cursors
          collected,  \* the targets with a collection time
          job,        \* the cleanup records
          tick,       \* the current tick of the process
          faults

scanVars == <<scan, collected, job, tick, faults>>

ScanRecord == [lane: 0 .. 2, cursors: [0 .. 2 -> Nat]]

\* claim is who holds an unexpired claim, due that nextAttemptAt has come.
CleanupStatus == [state: {"none", "pending", "running", "failed", "complete"}, claim: {"none", "own", "other"},
                  due: BOOLEAN, targetCursor: Nat]

\* fresh: the job is as it was when the scan listed it or the process claimed it.
Tick == [at: {"scan", "claim", "collect"}, scanned: Nat, budget: Nat, inspected: Nat, attempted: SUBSET Targets,
         jobs: SUBSET Jobs, job: Jobs \cup {None}, fresh: BOOLEAN, page: SUBSET Targets, cursor: Nat, failure: BOOLEAN]

NewTick == [at |-> "scan", scanned |-> 0, budget |-> BatchSize, inspected |-> 0, attempted |-> {}, jobs |-> {}, job |-> None,
            fresh |-> FALSE, page |-> {}, cursor |-> 0, failure |-> FALSE]

ScanInit ==
    /\ scan = [lane |-> 0, cursors |-> [l \in 0 .. 2 |-> 0]]
    /\ collected = {}
    /\ job = [j \in Jobs |-> [state |-> "none", claim |-> "none", due |-> FALSE, targetCursor |-> 0]]
    /\ tick = NewTick
    /\ faults = MaxFaults

\* Nothing retains a target whose run has ended.
unretained(t) == JobOf[t] # None /\ job[JobOf[t]].state # "none"

\* The end of a run creates its job.
createCleanup(j) ==
    /\ job[j].state = "none"
    /\ job' = [job EXCEPT ![j] = [@ EXCEPT !.state = "pending", !.due = TRUE]]
    /\ UNCHANGED <<scan, collected, tick, faults>>

-----------------------------------------------------------------------------
(* The scan *)

goesOn(t) == t.scanned < BatchSize * 3 /\ t.budget > 0 /\ t.inspected < BatchSize

\* The loop turns, or the tick ends and the next one begins.
turns(t) ==
    IF goesOn(t) THEN [t EXCEPT !.at = "scan", !.job = None, !.fresh = FALSE, !.page = {}, !.cursor = 0, !.failure = FALSE]
    ELSE NewTick

dueCleanup(j) == job[j].state \notin {"none", "complete"} /\ job[j].due /\ job[j].claim = "none"

\* The rows of a lane; what is retained for ever stays among them.
rows(lane) ==
    CASE lane = 0 -> {j \in Jobs : dueCleanup(j)}
      [] lane = 1 -> Candidates \ collected
      [] lane = 2 -> Submissions \ collected

firstRow(lane) == IF rows(lane) # {} THEN Min(rows(lane)) ELSE None

\* The row after the cursor of the lane, or its first one.
nextRow(lane) ==
    LET later == {r \in rows(lane) : r > scan.cursors[lane]}
    IN  IF later # {} THEN Min(later) ELSE IF rows(lane) # {} THEN Min(rows(lane)) ELSE None

\* The position moves on with every turn, also with one that finds nothing.
scanned == [lane |-> (scan.lane + 1) % 3, cursors |-> [scan.cursors EXCEPT ![scan.lane] = nextRow(scan.lane)]]

nextCollectionWork ==
    /\ tick.at = "scan"
    /\ scan' = scanned
    /\ LET row == nextRow(scan.lane)
           turn == [tick EXCEPT !.scanned = @ + 1]
       IN  tick' = IF row = None \/ (IF scan.lane = 0 THEN row \in tick.jobs ELSE ~unretained(row)) THEN turns(turn)
                   ELSE IF scan.lane = 0 THEN [turn EXCEPT !.at = "claim", !.job = row, !.jobs = @ \cup {row}, !.fresh = TRUE]
                   ELSE [turn EXCEPT !.at = "collect", !.page = {row}]
    /\ UNCHANGED <<collected, job, faults>>

-----------------------------------------------------------------------------
(* Collection of a page *)

\* Targets already tried in this tick, or beyond its budget, are passed over.
passesOver(t) == tick.budget = 0 \/ tick.inspected >= BatchSize \/ t \in tick.attempted

\* A target that is refused costs no budget, one that storage cannot delete does.
collectTarget ==
    /\ tick.at = "collect" /\ tick.page # {}
    /\ LET t == Min(tick.page)
           rest == [tick EXCEPT !.page = @ \ {t}]
           tried == [rest EXCEPT !.inspected = @ + 1, !.attempted = @ \cup {t}]
           goesTo(next) == tick' = IF next.job = None THEN turns(next) ELSE next
       IN  IF passesOver(t) THEN goesTo(rest) /\ UNCHANGED <<collected, faults>>
           ELSE \/ /\ t \notin Poison
                   /\ collected' = collected \cup {t} /\ goesTo([tried EXCEPT !.budget = @ - 1])
                   /\ UNCHANGED faults
                \/ /\ t \in Poison \/ faults > 0
                   /\ faults' = IF t \in Poison THEN faults ELSE faults - 1
                   /\ \E cost \in {0, 1} : goesTo([tried EXCEPT !.budget = @ - cost, !.failure = TRUE])
                   /\ UNCHANGED collected
    /\ UNCHANGED <<scan, job>>

-----------------------------------------------------------------------------
(* Cleanup jobs *)

remainingTargets(j) == {t \in Targets : JobOf[t] = j} \ collected

\* The first targets of the job after a cursor.
getCleanupTargets(j, limit, cursor) ==
    LET later == {t \in remainingTargets(j) : t > cursor} IN {t \in later : Cardinality({u \in later : u < t}) < limit}

\* After the last page the job starts again from its first target.
pageOf(j) ==
    LET limit == Min({tick.budget, BatchSize - tick.inspected})
        page == getCleanupTargets(j, limit, job[j].targetCursor)
    IN  IF page = {} THEN getCleanupTargets(j, limit, 0) ELSE page

\* The page of a job is read with its claim; a job that changed since it was listed is left alone.
claimCleanup ==
    /\ tick.at = "claim"
    /\ LET j == tick.job
           page == pageOf(j)
       IN  IF tick.fresh
           THEN /\ job' = [job EXCEPT ![j] = [@ EXCEPT !.state = "running", !.claim = "own"]]
                /\ tick' = [tick EXCEPT !.at = "collect", !.page = page, !.cursor = IF page = {} THEN 0 ELSE Max(page)]
           ELSE tick' = turns(tick) /\ UNCHANGED job
    /\ UNCHANGED <<scan, collected, faults>>

completedUnchecked(j) ==
    IF tick.failure
    THEN [state |-> "failed", claim |-> "none", due |-> FALSE, targetCursor |-> tick.cursor]
    ELSE [state |-> "complete", claim |-> "none", due |-> TRUE, targetCursor |-> 0]

\* A page that failed delays the job; one that did not completes it, or frees it at once when targets are left.
settled(j) ==
    IF tick.failure
    THEN [state |-> "failed", claim |-> "none", due |-> FALSE, targetCursor |-> tick.cursor]
    ELSE IF getCleanupTargets(j, 1, 0) = {} THEN [state |-> "complete", claim |-> "none", due |-> TRUE, targetCursor |-> 0]
    ELSE [state |-> "pending", claim |-> "none", due |-> TRUE, targetCursor |-> tick.cursor]

\* completeCleanup and releaseCleanupClaim ask for the claim of the page.
settleCleanup ==
    /\ tick.at = "collect" /\ tick.page = {} /\ tick.job # None
    /\ job' = IF tick.fresh /\ job[tick.job].claim = "own" THEN [job EXCEPT ![tick.job] = settled(tick.job)] ELSE job
    /\ tick' = turns(tick)
    /\ UNCHANGED <<scan, collected, faults>>

-----------------------------------------------------------------------------
(* Time and failure *)

claimExpires(j) ==
    /\ job[j].claim # "none" /\ job' = [job EXCEPT ![j].claim = "none"]
    /\ UNCHANGED <<scan, collected, tick, faults>>

retryDue(j) ==
    /\ job[j].state = "failed" /\ ~job[j].due /\ job' = [job EXCEPT ![j].due = TRUE]
    /\ UNCHANGED <<scan, collected, tick, faults>>

\* What the process tried is forgotten; its claim stays until it expires.
tickDies ==
    /\ tick # NewTick /\ faults > 0 /\ faults' = faults - 1
    /\ tick' = NewTick /\ job' = [j \in Jobs |-> IF job[j].claim = "own" THEN [job[j] EXCEPT !.claim = "other"] ELSE job[j]]
    /\ UNCHANGED <<scan, collected>>

\* Another process takes a turn, claims the job that it finds and dies.
otherTurns ==
    /\ faults > 0 /\ faults' = faults - 1
    /\ scan' = scanned
    /\ LET j == nextRow(0) IN
       IF scan.lane = 0 /\ j # None
       THEN /\ job' = [job EXCEPT ![j] = [@ EXCEPT !.state = "running", !.claim = "other"]]
            /\ tick' = IF tick.job = j THEN [tick EXCEPT !.fresh = FALSE] ELSE tick
       ELSE UNCHANGED <<job, tick>>
    /\ UNCHANGED collected

tickStep == nextCollectionWork \/ collectTarget \/ claimCleanup \/ settleCleanup

ScanNext ==
    \/ tickStep \/ tickDies \/ otherTurns
    \/ \E j \in Jobs : createCleanup(j) \/ claimExpires(j) \/ retryDue(j)

ScanSpec == ScanInit /\ [][ScanNext]_scanVars

\* A process runs one tick after another; time passes.
ScanFairSpec ==
    /\ ScanSpec /\ WF_scanVars(tickStep)
    /\ \A j \in Jobs : WF_scanVars(claimExpires(j)) /\ WF_scanVars(retryDue(j))

-----------------------------------------------------------------------------
(* Properties *)

\* Whatever can be deleted is deleted in the end, however many targets and jobs before it keep failing,
\* are retained, or belong to a process that died (nextCollectionWork, getCleanupTargets, the budget of tick).
HealthyTargetCollected == \A t \in Targets \ Poison : unretained(t) ~> t \in collected

\* A job that is complete has nothing left: a page without failures does not complete the job
\* (the check of the remaining targets before completeCleanup).
CompleteMeansCollected == \A j \in Jobs : job[j].state = "complete" => remainingTargets(j) = {}

=============================================================================
