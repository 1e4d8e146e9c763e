-------------------------- MODULE CandidateCollection --------------------------
(***************************************************************************)
(* Storing and collecting one candidate revision in the Git revision       *)
(* store: the workers that prepare it (one per claim of its operation),    *)
(* the catalog's writer records and collection permits, and the collectors *)
(* that replace its references by a tombstone.  Several server processes   *)
(* run both; a process may die at any await.                               *)
(*                                                                         *)
(* A catalog command is one transaction and one action, and so is one      *)
(* `git update-ref` transaction.  The candidate's two references are       *)
(* created and deleted together and always name the same tree, because     *)
(* preparing the same identity and source gives the same objects.          *)
(* Publication has the rules of acceptance; here its outcome is a choice.  *)
(***************************************************************************)
EXTENDS Naturals

CONSTANTS Processes,      \* server processes; a restarted one has a new identity
          MaxFence,       \* claims of the operation
          MaxCollections  \* collection permits of the candidate

ASSUME CollectionBounds == MaxFence \in Nat \ {0} /\ MaxCollections \in Nat

Claims == 1 .. MaxFence

VARIABLES alive,      \* the processes that have not died
          operation,  \* the operation that owns the candidate
          candidate,  \* the candidate record
          writer,     \* the candidate-writer record of each claim
          git,        \* references and tombstone in the private repository
          worker,     \* the worker of each claim
          collector   \* the collector of each process

vars == <<alive, operation, candidate, writer, git, worker, collector>>

-----------------------------------------------------------------------------
(* Records *)

OperationRecord == [state: {"processing", "succeeded", "failed"}, fence: Nat,
                    claim: {"live", "expired"}, owner: Processes, revision: {"none", "accepted"}]
\* The fence, expiry and kind of the latest collection permit; fence 0 is no permit.
CandidateRecord == [prepared: {"no", "yes"}, fence: Nat, permit: {"live", "expired"},
                    kind: {"partial", "prepared"}, collected: {"no", "yes"}]
\* A partial tombstone remembers whether there were references to remove.
GitRecord == [refs: {"none", "object"}, tombstone: {"none", "partial", "prepared"},
              buried: {"none", "object"}]
WorkerRecord == [step: {"none", "inspect", "verify", "begin", "write", "orphan", "finish", "record",
                        "accept", "reconcile"},
                 process: Processes, found: {"none", "object"}]
CollectorRecord == [step: {"idle", "enter", "lookup", "fresh", "verify", "mark", "join", "remove",
                           "retire", "complete"},
                    fence: Nat, kind: {"partial", "prepared"}, seen: {"none", "object"}]

NoCollector == [step |-> "idle", fence |-> 0, kind |-> "partial", seen |-> "none"]

TypeOK ==
    /\ alive \in SUBSET Processes
    /\ operation \in OperationRecord /\ operation.fence \in Claims
    /\ candidate \in CandidateRecord
    /\ writer \in [Claims -> {"none", "active", "finished"}]
    /\ git \in GitRecord
    /\ worker \in [Claims -> WorkerRecord]
    /\ collector \in [Processes -> CollectorRecord]

\* A finalization has just been claimed; its candidate is registered.
Init ==
    \E p \in Processes :
        /\ alive = Processes
        /\ operation = [state |-> "processing", fence |-> 1, claim |-> "live", owner |-> p,
                        revision |-> "none"]
        /\ candidate = [prepared |-> "no", fence |-> 0, permit |-> "expired", kind |-> "partial",
                        collected |-> "no"]
        /\ writer = [f \in Claims |-> "none"]
        /\ git = [refs |-> "none", tombstone |-> "none", buried |-> "none"]
        /\ worker = [f \in Claims |-> [step |-> IF f = 1 THEN "inspect" ELSE "none", process |-> p,
                                       found |-> "none"]]
        /\ collector = [q \in Processes |-> NoCollector]

-----------------------------------------------------------------------------
(* A worker prepares the candidate under its claim *)

processing(f) ==
    operation.state = "processing" /\ operation.fence = f /\ operation.claim = "live"

working(f, step) == worker[f].step = step

proceed(f, step, found) ==
    worker' = [worker EXCEPT ![f] = [@ EXCEPT !.step = step, !.found = found]]

\* inspectCandidate looks for the tombstone, the references, and after reading
\* the objects for the tombstone again.
inspectCandidate(f) ==
    /\ working(f, "inspect")
    /\ proceed(f, IF git.tombstone = "none" /\ git.refs = "object" THEN "verify" ELSE "begin", "none")
    /\ UNCHANGED <<alive, operation, candidate, writer, git, collector>>

verifyCandidate(f) ==
    /\ working(f, "verify")
    /\ IF git.tombstone = "none" THEN proceed(f, "record", "object") ELSE proceed(f, "begin", "none")
    /\ UNCHANGED <<alive, operation, candidate, writer, git, collector>>

mayWrite(f) ==
    /\ candidate.fence = 0
    /\ operation.state = "processing" /\ operation.owner = worker[f].process
    /\ operation.claim = "live"

beginCandidateWrite(f) ==
    /\ working(f, "begin")
    /\ IF mayWrite(f)
       THEN writer' = [writer EXCEPT ![f] = "active"] /\ proceed(f, "write", "none")
       ELSE UNCHANGED writer /\ proceed(f, "reconcile", "none")
    /\ UNCHANGED <<alive, operation, candidate, git, collector>>

\* The reference transaction of prepareOwned: no tombstone, references created
\* or already there.
createRefs == git.tombstone = "none" /\ git' = [git EXCEPT !.refs = "object"]

\* prepareOwned commits and returns, or fails before or after its transaction.
prepareOwned(f) ==
    /\ working(f, "write")
    /\ \/ createRefs /\ \E found \in {"none", "object"} : proceed(f, "finish", found)
       \/ UNCHANGED git /\ proceed(f, "finish", "none")
    /\ UNCHANGED <<alive, operation, candidate, writer, collector>>

finishCandidateWrite(f) ==
    /\ working(f, "finish")
    /\ writer' = [writer EXCEPT ![f] = "finished"]
    /\ proceed(f, IF worker[f].found = "object" THEN "record" ELSE "reconcile", worker[f].found)
    /\ UNCHANGED <<alive, operation, candidate, git, collector>>

recordPreparedRevision(f) ==
    /\ working(f, "record")
    /\ IF processing(f) /\ candidate.fence = 0
       THEN candidate' = [candidate EXCEPT !.prepared = "yes"] /\ proceed(f, "accept", "object")
       ELSE UNCHANGED candidate /\ proceed(f, "reconcile", "object")
    /\ UNCHANGED <<alive, operation, writer, git, collector>>

\* Acceptance publishes the candidate, keeps an identical base, or is refused.
acceptRevision(f) ==
    /\ working(f, "accept")
    /\ \/ /\ processing(f) /\ candidate.fence = 0 /\ candidate.prepared = "yes"
          /\ \E revision \in {"none", "accepted"} :
               operation' = [operation EXCEPT !.state = "succeeded", !.revision = revision]
          /\ proceed(f, "none", "none")
       \/ UNCHANGED operation /\ proceed(f, "reconcile", "none")
    /\ UNCHANGED <<alive, candidate, writer, git, collector>>

\* Authorization, source or storage errors before the candidate is recorded.
interrupted(f) ==
    /\ worker[f].step \in {"inspect", "verify", "begin", "record"}
    /\ proceed(f, "reconcile", "none")
    /\ UNCHANGED <<alive, operation, candidate, writer, git, collector>>

\* A terminal error fails the operation, any other leaves it to recovery.
reconcile(f) ==
    /\ working(f, "reconcile")
    /\ \/ processing(f) /\ operation' = [operation EXCEPT !.state = "failed"]
       \/ UNCHANGED operation
    /\ proceed(f, "none", "none")
    /\ UNCHANGED <<alive, candidate, writer, git, collector>>

claimRecovery(p) ==
    /\ p \in alive
    /\ operation.state = "processing" /\ operation.claim = "expired" /\ operation.fence < MaxFence
    /\ operation' = [operation EXCEPT !.fence = @ + 1, !.claim = "live", !.owner = p]
    /\ worker' = [worker EXCEPT ![operation.fence + 1] =
                    [step |-> "inspect", process |-> p, found |-> "none"]]
    /\ UNCHANGED <<alive, candidate, writer, git, collector>>

claimLapses ==
    /\ operation.state = "processing" /\ operation.claim = "live"
    /\ operation' = [operation EXCEPT !.claim = "expired"]
    /\ UNCHANGED <<alive, candidate, writer, git, worker, collector>>

-----------------------------------------------------------------------------
(* The catalog's side of collection *)

\* Mutant: only the writer of the current claim counts.
activeWritersOfClaim == {f \in Claims : writer[f] = "active" /\ f = operation.fence}

activeWriters == {f \in Claims : writer[f] = "active"}

\* Mutant: a decided operation no longer needs its candidate.
collectableOnceDecided == operation.state # "processing" /\ activeWriters = {}

\* Neither accepted history, nor recoverable work, nor a writer needs the candidate.
collectable ==
    /\ operation.revision = "none"
    /\ operation.state # "processing"
    /\ activeWriters = {}

kindOfPermit == IF candidate.prepared = "yes" THEN "prepared" ELSE "partial"

\* areCandidateWritersStopped, asked by process p: without any writer record, only
\* the process that owned the decided operation knows that no write began.
writersStopped(p) ==
    /\ activeWriters = {}
    /\ \/ \E f \in Claims : writer[f] = "finished"
       \/ operation.state # "processing" /\ operation.owner = p

\* verifyCollectionPermit as the store calls it: with the time at which deletion
\* started, so that only a newer permit, and not the clock, refuses it.
current(p) ==
    /\ candidate.fence = collector[p].fence /\ collectable
    /\ collector[p].kind = kindOfPermit

at(p, step) == p \in alive /\ collector[p].step = step

goto(p, step) == collector' = [collector EXCEPT ![p] = [@ EXCEPT !.step = step]]

stale(p) == collector' = [collector EXCEPT ![p] = NoCollector]

\* collectCandidate: a permit that is still good is shared, another one is
\* claimed under the next fence.
claimCandidateCollection(p) ==
    /\ at(p, "idle")
    /\ candidate.collected = "no" /\ collectable
    /\ \/ /\ candidate.permit = "live" /\ candidate.kind = kindOfPermit
          /\ collector' = [collector EXCEPT ![p] = [step |-> "enter", fence |-> candidate.fence,
                                                    kind |-> candidate.kind, seen |-> "none"]]
          /\ UNCHANGED candidate
       \/ /\ candidate.permit = "expired" /\ candidate.fence < MaxCollections
          /\ candidate' = [candidate EXCEPT !.fence = @ + 1, !.permit = "live", !.kind = kindOfPermit]
          /\ collector' = [collector EXCEPT ![p] = [step |-> "enter", fence |-> candidate.fence + 1,
                                                    kind |-> kindOfPermit, seen |-> "none"]]
    /\ UNCHANGED <<alive, operation, writer, git, worker>>

unexpired(p) == candidate.fence = collector[p].fence /\ candidate.permit = "live"

completeCandidateCollection(p) ==
    /\ at(p, "complete")
    /\ IF unexpired(p) /\ collectable
       THEN candidate' = [candidate EXCEPT !.collected = "yes"]
       ELSE UNCHANGED candidate
    /\ stale(p)
    /\ UNCHANGED <<alive, operation, writer, git, worker>>

\* The last permit that the model follows does not expire.
permitLapses ==
    /\ candidate.permit = "live" /\ candidate.fence < MaxCollections
    /\ candidate' = [candidate EXCEPT !.permit = "expired"]
    /\ UNCHANGED <<alive, operation, writer, git, worker, collector>>

-----------------------------------------------------------------------------
(* The store's side of collection *)

deleteCollectible(p) ==
    /\ at(p, "enter")
    /\ IF unexpired(p) /\ (collector[p].kind = "partial" => writersStopped(p))
       THEN goto(p, "lookup") ELSE stale(p)
    /\ UNCHANGED <<alive, operation, candidate, writer, git, worker>>

lookupTombstone(p) ==
    /\ at(p, "lookup")
    /\ goto(p, IF git.tombstone = "none" THEN "fresh" ELSE "join")
    /\ UNCHANGED <<alive, operation, candidate, writer, git, worker>>

\* Mutant: somebody else's tombstone is somebody else's business.
joinTombstoneNever(p) ==
    /\ at(p, "join")
    /\ stale(p)
    /\ UNCHANGED <<alive, operation, candidate, writer, git, worker>>

\* Mutant: what has a tombstone has been removed.
joinTombstoneDone(p) ==
    /\ at(p, "join")
    /\ IF current(p) /\ writersStopped(p) THEN goto(p, "complete") ELSE stale(p)
    /\ UNCHANGED <<alive, operation, candidate, writer, git, worker>>

\* Another collector, or an earlier one that died, left a tombstone of this kind.
joinTombstone(p) ==
    /\ at(p, "join")
    /\ IF git.tombstone # collector[p].kind \/ ~current(p) THEN stale(p)
       ELSE IF collector[p].kind = "prepared"
            THEN IF writersStopped(p) THEN goto(p, "remove") ELSE stale(p)
            ELSE goto(p, IF git.buried = "object" THEN "remove" ELSE "complete")
    /\ UNCHANGED <<alive, operation, candidate, writer, git, worker>>

\* No tombstone yet: a prepared candidate must have its references.
readReferences(p) ==
    /\ at(p, "fresh")
    /\ IF collector[p].kind = "prepared" /\ (git.refs = "none" \/ ~writersStopped(p))
       THEN stale(p)
       ELSE collector' = [collector EXCEPT ![p] = [@ EXCEPT !.step = "verify", !.seen = git.refs]]
    /\ UNCHANGED <<alive, operation, candidate, writer, git, worker>>

verifyCollectionPermit(p) ==
    /\ at(p, "verify")
    /\ IF current(p) THEN goto(p, "mark") ELSE stale(p)
    /\ UNCHANGED <<alive, operation, candidate, writer, git, worker>>

\* Mutant: the transaction takes neither tombstone nor references for what they are.
createTombstoneBlindly(p) ==
    /\ at(p, "mark")
    /\ git' = [git EXCEPT !.tombstone = collector[p].kind, !.buried = collector[p].seen]
    /\ goto(p, IF collector[p].seen = "object" THEN "remove" ELSE "complete")
    /\ UNCHANGED <<alive, operation, candidate, writer, worker>>

\* The transaction that creates the tombstone if the references are as they were read.
createTombstone(p) ==
    /\ at(p, "mark")
    /\ IF git.tombstone = "none" /\ git.refs = collector[p].seen
       THEN /\ git' = [git EXCEPT !.tombstone = collector[p].kind, !.buried = collector[p].seen]
            /\ goto(p, IF collector[p].seen = "object" THEN "remove" ELSE "complete")
       ELSE /\ UNCHANGED git
            /\ IF git.tombstone = "none" THEN stale(p) ELSE goto(p, "lookup")
    /\ UNCHANGED <<alive, operation, candidate, writer, worker>>

removeCollectedRefs(p) ==
    /\ at(p, "remove")
    /\ IF git.refs = "none" THEN goto(p, "complete")
       ELSE IF writersStopped(p) /\ current(p) THEN goto(p, "retire")
       ELSE stale(p)
    /\ UNCHANGED <<alive, operation, candidate, writer, git, worker>>

\* The transaction that deletes the references; if another was faster, look again.
deleteRefs(p) ==
    /\ at(p, "retire")
    /\ IF git.refs = "object"
       THEN git' = [git EXCEPT !.refs = "none"] /\ goto(p, "complete")
       ELSE UNCHANGED git /\ goto(p, "remove")
    /\ UNCHANGED <<alive, operation, candidate, writer, worker>>

-----------------------------------------------------------------------------
(* Processes die; one of them stays.  A git child may outlive its process. *)

dies(p) ==
    /\ p \in alive /\ alive # {p}
    /\ alive' = alive \ {p}
    /\ worker' = [f \in Claims |->
                    IF worker[f].process # p \/ worker[f].step \in {"none", "orphan"} THEN worker[f]
                    ELSE [worker[f] EXCEPT !.step = IF @ = "write" THEN "orphan" ELSE "none"]]
    /\ stale(p)
    /\ UNCHANGED <<operation, candidate, writer, git>>

orphanCommits(f) ==
    /\ working(f, "orphan")
    /\ createRefs
    /\ proceed(f, "none", "none")
    /\ UNCHANGED <<alive, operation, candidate, writer, collector>>

-----------------------------------------------------------------------------

workerStep(f) ==
    \/ inspectCandidate(f) \/ verifyCandidate(f) \/ beginCandidateWrite(f) \/ prepareOwned(f)
    \/ finishCandidateWrite(f) \/ recordPreparedRevision(f) \/ acceptRevision(f) \/ reconcile(f)

collectorStep(p) ==
    \/ deleteCollectible(p) \/ lookupTombstone(p) \/ joinTombstone(p) \/ readReferences(p)
    \/ verifyCollectionPermit(p) \/ createTombstone(p) \/ removeCollectedRefs(p) \/ deleteRefs(p)
    \/ completeCandidateCollection(p)

Next ==
    \/ \E f \in Claims : workerStep(f) \/ interrupted(f) \/ orphanCommits(f)
    \/ \E p \in Processes : claimRecovery(p) \/ claimCandidateCollection(p) \/ collectorStep(p) \/ dies(p)
    \/ claimLapses \/ permitLapses

Spec == Init /\ [][Next]_vars

\* Live processes finish what they started and every process keeps collecting.
Fairness ==
    /\ \A f \in Claims : WF_vars(workerStep(f))
    /\ \A p \in Processes : WF_vars(claimCandidateCollection(p)) /\ WF_vars(collectorStep(p))

FairSpec == Spec /\ Fairness

-----------------------------------------------------------------------------
(* Properties *)

\* Accepted content is never collected: once the catalog accepts the candidate, its
\* references are there, have no tombstone and will get none (collectable,
\* claimCandidateCollection, matchCandidate).
AcceptedIsRetained ==
    operation.revision = "accepted" =>
        git.refs = "object" /\ git.tombstone = "none" /\ candidate.fence = 0

\* What the catalog records as collected is gone from the repository and fenced
\* against return, whichever collector, shared permit or take-over removed it.
CollectedIsGone ==
    candidate.collected = "yes" => git.refs = "none" /\ git.tombstone # "none"

\* The stop proof is real: from the first collection permit or tombstone on no writer
\* can still be storing bytes, not even the git child of a process that died (expiry
\* alone does not prove writer death).
MarkMeansStopped ==
    candidate.fence > 0 \/ git.tombstone # "none" =>
        \A f \in Claims : worker[f].step \notin {"write", "orphan", "finish"}

\* A collection mark is for ever: from the first permit on, no reference appears,
\* no writer starts, nothing is recorded or accepted, and a tombstone is never
\* replaced; references go only after the tombstone is there.
RetirementIsFinal ==
    [][ /\ candidate.fence > 0 =>
             /\ candidate'.fence >= candidate.fence /\ candidate'.prepared = candidate.prepared
             /\ operation'.revision = operation.revision
             /\ git'.refs \in {git.refs, "none"} /\ writer' = writer
        /\ git.tombstone # "none" => git'.tombstone = git.tombstone /\ git'.buried = git.buried
        /\ git.refs = "object" /\ git'.refs = "none" => git.tombstone # "none" ]_vars

\* Nothing proves that the writers of the candidate stopped: one of them died with
\* its process, or none began and the process that would know is gone.
unprovable ==
    \/ \E f \in activeWriters : worker[f].process \notin alive
    \/ (\A f \in Claims : writer[f] = "none") /\ operation.owner \notin alive

\* A candidate that was decided and not accepted is collected, although collectors
\* die between tombstone and removal, permits expire and processes without
\* a stop proof get in the way; it is retained only if no such proof exists.
RejectedIsCollected ==
    operation.state # "processing" /\ operation.revision = "none"
        ~> candidate.collected = "yes" \/ unprovable
=============================================================================
