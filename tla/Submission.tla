------------------------------- MODULE Submission -------------------------------
(***************************************************************************)
(* One submission of a run: uploads into immutable attempts, sealing,      *)
(* expiry, and the fenced deletion of its bytes, with the local store or   *)
(* the S3 store.  A catalog command is one transaction and one action; a   *)
(* store call is one action per durable effect.  Calls and collectors run  *)
(* in several processes and may die at any await; a request to S3 may be   *)
(* reported as failed and take effect later.                               *)
(*                                                                         *)
(* A key stands for an idempotency key with the path and bytes it binds,   *)
(* so keys select distinct paths.  Which actor may do what is Publication's *)
(* business: a refused command is a call that fails.                       *)
(***************************************************************************)
EXTENDS Integers, FiniteSets

CONSTANTS Stores,          \* kinds of submission store: "local", "s3"
          MaxKeys,         \* distinct uploads
          Calls,           \* writeFile calls, each with a writer identity of its own
          Collectors,      \* maintenance processes
          MaxRetries,      \* registrations tried after a version conflict
          MaxCollections   \* collection permits

ASSUME SubmissionBounds ==
    /\ Stores \subseteq {"local", "s3"}
    /\ MaxKeys \in Nat \ {0} /\ Calls \subseteq Nat \ {0} /\ IsFiniteSet(Calls)
    /\ MaxRetries \in Nat /\ MaxCollections \in Nat

Keys == 1 .. MaxKeys

VARIABLES store,       \* the kind of submission store
          run,         \* the run: active, being finalized, or over
          submission,  \* the submission record
          receipts,    \* the keys with a registered receipt
          writer,      \* the submission-writer record of each call
          collection,  \* the submission-collection record
          attempt,     \* the durable objects and collection marker of each key
          staging,     \* calls with a private staging directory
          late,        \* S3 objects that a call left in flight
          call,        \* each writeFile call
          sealer,      \* a seal call
          collector    \* each maintenance process

catalog == <<run, submission, receipts, writer, collection>>
bytes == <<attempt, staging, late>>
vars == <<store, catalog, bytes, call, sealer, collector>>

-----------------------------------------------------------------------------
(* Records *)

Objects == {"intent", "bytes", "receipt"}

SubmissionRecord == [state: {"none", "uploading", "sealed", "expired"}, version: Nat,
                     selected: SUBSET Keys, due: BOOLEAN]
\* Fence 0 is no permit; the cursor is the last acknowledged row.
CollectionRecord == [fence: Nat, live: BOOLEAN, version: Nat, cursor: Nat, collected: BOOLEAN]
AttemptRecord == [objects: SUBSET Objects, marker: {"none", "torn", "whole"}]
CallSteps == {"idle", "begin", "store", "publish", "receipt", "required", "register", "finish",
              "replay", "verify", "marker", "over"}
CallRecord == [step: CallSteps, key: Keys, seen: Nat, tries: Nat, uncertain: BOOLEAN, answer: {"none", "missing"}]
SealRecord == [step: {"idle", "verify", "seal"}, selected: SUBSET Keys, left: SUBSET Keys, seen: Nat]
CollectorSteps == {"idle", "list", "look", "mark", "fill", "erase", "staging", "record", "complete"}
CollectorRecord == [step: CollectorSteps, fence: Nat, row: Nat]

TypeOK ==
    /\ store \in Stores /\ run \in {"active", "finalizing", "over"}
    /\ submission \in SubmissionRecord /\ receipts \subseteq Keys
    /\ writer \in [Calls -> {"none", "active", "finished"}]
    /\ collection \in CollectionRecord
    /\ attempt \in [Keys -> AttemptRecord] /\ staging \subseteq Calls
    /\ late \in [Calls -> SUBSET Objects]
    /\ call \in [Calls -> CallRecord] /\ sealer \in SealRecord
    /\ collector \in [Collectors -> CollectorRecord]

IdleCollector == [step |-> "idle", fence |-> 0, row |-> 0]
NoSeal == [step |-> "idle", selected |-> {}, left |-> {}, seen |-> 0]

\* A read-write run has been opened.
Init ==
    /\ store \in Stores /\ run = "active"
    /\ submission = [state |-> "none", version |-> 0, selected |-> {}, due |-> FALSE]
    /\ receipts = {} /\ writer = [u \in Calls |-> "none"]
    /\ collection = [fence |-> 0, live |-> FALSE, version |-> 0, cursor |-> 0, collected |-> FALSE]
    /\ attempt = [k \in Keys |-> [objects |-> {}, marker |-> "none"]]
    /\ staging = {} /\ late = [u \in Calls |-> {}]
    /\ call = [u \in Calls |-> [step |-> "idle", key |-> 1, seen |-> 0, tries |-> 0,
                                uncertain |-> FALSE, answer |-> "none"]]
    /\ sealer = NoSeal
    /\ collector = [c \in Collectors |-> IdleCollector]

-----------------------------------------------------------------------------
(* The run and the clock *)

createSubmission ==
    /\ run = "active" /\ submission.state = "none"
    /\ submission' = [submission EXCEPT !.state = "uploading", !.version = 1]
    /\ UNCHANGED <<store, run, receipts, writer, collection, bytes, call, sealer, collector>>

submissionLapses ==
    /\ submission.state # "none" /\ ~submission.due
    /\ submission' = [submission EXCEPT !.due = TRUE]
    /\ UNCHANGED <<store, run, receipts, writer, collection, bytes, call, sealer, collector>>

\* A finalization pins the sealed submission as its source; a run may also end by itself.
claimFinalization ==
    /\ run = "active" /\ submission.state = "sealed"
    /\ run' = "finalizing"
    /\ UNCHANGED <<store, submission, receipts, writer, collection, bytes, call, sealer, collector>>

runEnds ==
    /\ run # "over" /\ submission.state # "none"
    /\ run' = "over"
    /\ UNCHANGED <<store, submission, receipts, writer, collection, bytes, call, sealer, collector>>

-----------------------------------------------------------------------------
(* Uploading: the catalog's commands *)

writableSubmission(version) ==
    /\ run = "active"
    /\ submission.state = "uploading" /\ ~submission.due /\ submission.version = version

at(u, step) == call[u].step = step
goto(u, step) == call' = [call EXCEPT ![u] = [@ EXCEPT !.step = step]]

\* The call has returned or thrown; only its key still matters, and whether it threw
\* because storage lost what it had acknowledged.
returns(u, answer) ==
    call' = [call EXCEPT ![u] = [@ EXCEPT !.step = "over", !.seen = 0, !.tries = 0,
                                          !.uncertain = FALSE, !.answer = answer]]

\* A key whose upload has succeeded is replayed, any other is uploaded.
writeFile(u, k) ==
    /\ at(u, "idle")
    /\ k \in receipts \/ submission.state = "uploading"
    /\ call' = [call EXCEPT ![u] = [@ EXCEPT !.key = k,
                                             !.step = IF k \in receipts THEN "replay" ELSE "begin"]]
    /\ UNCHANGED <<store, catalog, bytes, sealer, collector>>

mayBegin == writableSubmission(submission.version) /\ collection.fence = 0

beginSubmissionWrite(u) ==
    /\ at(u, "begin")
    /\ IF mayBegin
       THEN writer' = [writer EXCEPT ![u] = "active"] /\ goto(u, "store")
       ELSE UNCHANGED writer /\ returns(u, "none")
    /\ UNCHANGED <<store, run, submission, receipts, collection, bytes, sealer, collector>>

required(u) ==
    /\ at(u, "required")
    /\ call' = [call EXCEPT ![u] = [@ EXCEPT !.step = "register", !.seen = submission.version]]
    /\ UNCHANGED <<store, catalog, bytes, sealer, collector>>

\* Registration is a replay, a new receipt, a version conflict to retry, or a refusal.
registerUploadReceipt(u) ==
    LET c == call[u] IN
    /\ at(u, "register")
    /\ IF c.key \notin receipts /\ writableSubmission(c.seen)
       THEN /\ receipts' = receipts \cup {c.key}
            /\ submission' = [submission EXCEPT !.version = @ + 1]
       ELSE UNCHANGED <<receipts, submission>>
    /\ call' = [call EXCEPT ![u] =
          IF /\ c.key \notin receipts /\ c.tries < MaxRetries
             /\ writableSubmission(submission.version) /\ submission.version # c.seen
          THEN [@ EXCEPT !.step = "required", !.tries = c.tries + 1]
          ELSE [@ EXCEPT !.step = "finish"]]
    /\ UNCHANGED <<store, run, writer, collection, bytes, sealer, collector>>

\* withStoppedWriter: after an uncertain request nothing proves that the writer stopped.
finishSubmissionWrite(u) ==
    /\ at(u, "finish")
    /\ writer' = [writer EXCEPT ![u] = IF call[u].uncertain THEN @ ELSE "finished"]
    /\ returns(u, "none")
    /\ UNCHANGED <<store, run, submission, receipts, collection, bytes, sealer, collector>>

\* A storage error, an abort or a refused command ends the call.
callFails(u) ==
    /\ call[u].step \in {"store", "publish", "receipt", "required", "register"}
    /\ staging' = staging \ {u}
    /\ goto(u, "finish")
    /\ UNCHANGED <<store, catalog, attempt, late, sealer, collector>>

\* The process dies: its writer stays active and its staging directory stays.
callDies(u) ==
    /\ ~at(u, "idle") /\ ~at(u, "over")
    /\ returns(u, "none")
    /\ UNCHANGED <<store, catalog, bytes, sealer, collector>>

-----------------------------------------------------------------------------
(* Uploading: the local store *)

complete(k) == {"bytes", "receipt"} \subseteq attempt[k].objects

\* persistAttempt adopts a durable attempt of the same request, or stages a new one.
stageAttempt(u) ==
    /\ store = "local" /\ at(u, "store")
    /\ IF complete(call[u].key)
       THEN goto(u, "required") /\ UNCHANGED staging
       ELSE goto(u, "publish") /\ staging' = staging \cup {u}
    /\ UNCHANGED <<store, catalog, attempt, late, sealer, collector>>

\* The rename publishes bytes and receipt at once, unless the directory has contents;
\* then what is there is adopted, if it is an attempt.
publishAttempt(u) ==
    LET a == attempt[call[u].key]
        free == a.objects = {} /\ a.marker = "none"
    IN  /\ store = "local" /\ at(u, "publish")
        /\ attempt' = IF free THEN [attempt EXCEPT ![call[u].key] =
                                        [@ EXCEPT !.objects = {"bytes", "receipt"}]]
                      ELSE attempt
        /\ staging' = staging \ {u}
        /\ IF free \/ complete(call[u].key) THEN goto(u, "required") ELSE goto(u, "finish")
        /\ UNCHANGED <<store, catalog, late, sealer, collector>>

-----------------------------------------------------------------------------
(* Uploading: the S3 store.  Every put is conditional on absence. *)

\* A put takes effect and is answered; or it is reported as failed (or its retry
\* succeeds) and the first request takes effect now, later or never.
put(u, object, next) ==
    LET k == call[u].key
        stored == [attempt EXCEPT ![k] = [@ EXCEPT !.objects = attempt[k].objects \cup {object}]]
    IN  \/ /\ attempt' = stored /\ UNCHANGED late
           /\ \E doubt \in BOOLEAN :
                call' = [call EXCEPT ![u] = [@ EXCEPT !.step = next, !.uncertain = call[u].uncertain \/ doubt]]
        \/ /\ UNCHANGED attempt /\ late' = [late EXCEPT ![u] = @ \cup {object}]
           /\ call' = [call EXCEPT ![u] = [@ EXCEPT !.step = "finish", !.uncertain = TRUE]]

putIntent(u) ==
    /\ store = "s3" /\ at(u, "store")
    /\ IF "intent" \in attempt[call[u].key].objects
       THEN goto(u, "publish") /\ UNCHANGED <<attempt, late>>
       ELSE put(u, "intent", "publish")
    /\ UNCHANGED <<store, catalog, staging, sealer, collector>>

\* A retained receipt with its bytes is adopted.
uploadBytes(u) ==
    /\ store = "s3" /\ at(u, "publish")
    /\ IF complete(call[u].key)
       THEN goto(u, "required") /\ UNCHANGED <<attempt, late>>
       ELSE put(u, "bytes", "receipt")
    /\ UNCHANGED <<store, catalog, staging, sealer, collector>>

putReceipt(u) ==
    /\ at(u, "receipt")
    /\ put(u, "receipt", "required")
    /\ UNCHANGED <<store, catalog, staging, sealer, collector>>

landsLate(u) ==
    LET k == call[u].key IN
    /\ late[u] # {}
    /\ attempt' = [attempt EXCEPT ![k] = [@ EXCEPT !.objects = attempt[k].objects \cup late[u]]]
    /\ late' = [late EXCEPT ![u] = {}]
    /\ UNCHANGED <<store, catalog, staging, call, sealer, collector>>

-----------------------------------------------------------------------------
(* Replaying a registered upload *)

\* Mutant: only an acknowledged deletion retires a receipt.
retiredWhenAcknowledged(k, marked) == submission.state = "expired" /\ collection.cursor >= k

\* isUploadReceiptRetired, with the marker that the store found, if it looked for one.
isUploadReceiptRetired(k, marked) ==
    /\ submission.state = "expired"
    /\ collection.fence > 0 /\ collection.version = submission.version
    /\ collection.cursor >= k \/ marked

replayReceipt(u) ==
    /\ at(u, "replay")
    /\ IF isUploadReceiptRetired(call[u].key, FALSE) THEN returns(u, "none") ELSE goto(u, "verify")
    /\ UNCHANGED <<store, catalog, bytes, sealer, collector>>

verifyReceipt(u) ==
    /\ at(u, "verify")
    /\ IF "bytes" \in attempt[call[u].key].objects THEN returns(u, "none") ELSE goto(u, "marker")
    /\ UNCHANGED <<store, catalog, bytes, sealer, collector>>

readCollectionMarker(u) ==
    LET k == call[u].key IN
    /\ at(u, "marker")
    /\ returns(u, IF isUploadReceiptRetired(k, attempt[k].marker = "whole") THEN "none" ELSE "missing")
    /\ UNCHANGED <<store, catalog, bytes, sealer, collector>>

-----------------------------------------------------------------------------
(* Sealing and expiry *)

\* validateReceiptSelection: one registered receipt for each file of the manifest.
seal(selected) ==
    /\ sealer.step = "idle" /\ submission.state = "uploading"
    /\ selected \subseteq receipts
    /\ sealer' = [step |-> "verify", selected |-> selected, left |-> selected, seen |-> 0]
    /\ UNCHANGED <<store, catalog, bytes, call, collector>>

\* The bytes are verified one receipt at a time; then the version is read.
verifySelected ==
    /\ sealer.step = "verify"
    /\ IF sealer.left = {}
       THEN sealer' = [sealer EXCEPT !.step = "seal", !.seen = submission.version]
       ELSE LET k == CHOOSE j \in sealer.left : TRUE IN
            sealer' = IF "bytes" \in attempt[k].objects
                      THEN [sealer EXCEPT !.left = @ \ {k}] ELSE NoSeal
    /\ UNCHANGED <<store, catalog, bytes, call, collector>>

sealSubmission ==
    /\ sealer.step = "seal"
    /\ submission' = IF writableSubmission(sealer.seen)
                     THEN [submission EXCEPT !.state = "sealed", !.version = @ + 1,
                                             !.selected = sealer.selected]
                     ELSE submission
    /\ sealer' = NoSeal
    /\ UNCHANGED <<store, run, receipts, writer, collection, bytes, call, collector>>

expireSubmission ==
    /\ submission.state \in {"uploading", "sealed"} /\ submission.due /\ run # "finalizing"
    /\ submission' = [submission EXCEPT !.state = "expired", !.version = @ + 1]
    /\ UNCHANGED <<store, run, receipts, writer, collection, bytes, call, sealer, collector>>

-----------------------------------------------------------------------------
(* Collection: the catalog's commands *)

\* Mutant: a due submission is collectable while it is being finalized.
collectableSource == (submission.due \/ run = "over") /\ \A u \in Calls : writer[u] # "active"

\* No active writer, no unexpired submission of a live run, no finalization in progress.
submissionCollectable ==
    /\ submission.due \/ run = "over"
    /\ \A u \in Calls : writer[u] # "active"
    /\ run # "finalizing"

in(c, step) == collector[c].step = step
proceed(c, step) == collector' = [collector EXCEPT ![c] = [@ EXCEPT !.step = step]]
abandon(c) == collector' = [collector EXCEPT ![c] = IdleCollector]

submissionPermitValid(c) ==
    /\ collection.fence = collector[c].fence /\ collection.live
    /\ submission.version = collection.version /\ submission.state = "expired"
    /\ submissionCollectable

\* collectSubmission shares a permit that is still good or claims the next one,
\* which expires the submission and keeps the cursor of the last one.
claimSubmissionCollection(c) ==
    LET fence == collection.fence + IF collection.live THEN 0 ELSE 1
        version == IF submission.state = "expired" THEN submission.version ELSE submission.version + 1
    IN  /\ in(c, "idle") /\ submission.state # "none"
        /\ ~collection.collected /\ submissionCollectable
        /\ fence <= MaxCollections
        /\ submission' = [submission EXCEPT !.state = "expired", !.version = version]
        /\ collection' = [collection EXCEPT !.fence = fence, !.live = TRUE, !.version = version]
        /\ collector' = [collector EXCEPT ![c] = [IdleCollector EXCEPT !.step = "list", !.fence = fence]]
        /\ UNCHANGED <<store, run, receipts, writer, bytes, call, sealer>>

\* The last permit that the model follows does not expire.
permitLapses ==
    /\ collection.live /\ collection.fence < MaxCollections
    /\ collection' = [collection EXCEPT !.live = FALSE]
    /\ UNCHANGED <<store, run, submission, receipts, writer, bytes, call, sealer, collector>>

\* Mutant: only registered uploads have something to delete.
receiptsAfter(cursor) == {r \in receipts : r > cursor}

\* submissionAttemptRows: the receipts, then the writers, in order after a cursor.
rowsAfter(cursor) ==
    {r \in receipts \cup {MaxKeys + u : u \in {v \in Calls : writer[v] # "none"}} : r > cursor}

keyOfRow(r) == IF r \in Keys THEN r ELSE call[r - MaxKeys].key

first(r, rows) == r \in rows /\ \A q \in rows : r <= q

\* The collector turns to its next row, or to completion.
turnTo(c, rows) ==
    \/ rows = {} /\ proceed(c, "complete")
    \/ \E r \in rows : /\ first(r, rows)
                       /\ collector' = [collector EXCEPT ![c] = [@ EXCEPT !.step = "look", !.row = r]]

listSubmissionCollectionAttempts(c) ==
    /\ in(c, "list")
    /\ IF submissionPermitValid(c) THEN turnTo(c, rowsAfter(collection.cursor)) ELSE abandon(c)
    /\ UNCHANGED <<store, catalog, bytes, call, sealer>>

\* Progress may repeat what is acknowledged, or acknowledge exactly the next row.
acknowledges(row) == row <= collection.cursor \/ first(row, rowsAfter(collection.cursor))

recordSubmissionCollectionProgress(c) ==
    LET row == collector[c].row IN
    /\ in(c, "record")
    /\ IF submissionPermitValid(c) /\ acknowledges(row)
       THEN /\ collection' = [collection EXCEPT !.cursor = IF row > @ THEN row ELSE @]
            /\ turnTo(c, rowsAfter(row))
       ELSE abandon(c) /\ UNCHANGED collection
    /\ UNCHANGED <<store, run, submission, receipts, writer, bytes, call, sealer>>

completeSubmissionCollection(c) ==
    /\ in(c, "complete")
    /\ collection' = [collection EXCEPT !.collected =
                        @ \/ (submissionPermitValid(c) /\ rowsAfter(collection.cursor) = {})]
    /\ abandon(c)
    /\ UNCHANGED <<store, run, submission, receipts, writer, bytes, call, sealer>>

-----------------------------------------------------------------------------
(* Collection: the store's effects on the attempt of the current row.  Each effect *)
(* is preceded by a check of the permit, which may be stale when the effect comes. *)

authorize(c, step) == IF submissionPermitValid(c) THEN proceed(c, step) ELSE abandon(c)

rowKey(c) == keyOfRow(collector[c].row)

\* The ownership record of the attempt: the local receipt, or the S3 intent.
owned(a) == a.objects = {} \/ (IF store = "local" THEN "receipt" ELSE "intent") \in a.objects

\* An unreadable marker, or objects that nobody owns, stop the collection.
readMarker(c) ==
    LET a == attempt[rowKey(c)] IN
    /\ in(c, "look")
    /\ CASE a.marker = "whole" -> authorize(c, "erase")
         [] a.marker = "none" /\ owned(a) -> authorize(c, "mark")
         [] OTHER -> abandon(c)
    /\ UNCHANGED <<store, catalog, bytes, call, sealer>>

setMarker(c, marker) == attempt' = [attempt EXCEPT ![rowKey(c)] = [@ EXCEPT !.marker = marker]]

\* Exclusive creation of the local marker; its contents follow.
createMarker(c) ==
    /\ store = "local" /\ in(c, "mark")
    /\ IF attempt[rowKey(c)].marker = "none"
       THEN setMarker(c, "torn") /\ proceed(c, "fill")
       ELSE UNCHANGED attempt /\ abandon(c)
    /\ UNCHANGED <<store, catalog, staging, late, call, sealer>>

fillMarker(c) ==
    /\ in(c, "fill")
    /\ setMarker(c, "whole") /\ authorize(c, "erase")
    /\ UNCHANGED <<store, catalog, staging, late, call, sealer>>

\* The S3 marker appears whole, and writing it again is the same marker.
putMarker(c) ==
    /\ store = "s3" /\ in(c, "mark")
    /\ setMarker(c, "whole") /\ authorize(c, "erase")
    /\ UNCHANGED <<store, catalog, staging, late, call, sealer>>

\* Locally the bytes go before their receipt.
eraseLocal(c) ==
    LET a == attempt[rowKey(c)]
        gone == IF "bytes" \in a.objects THEN {"bytes"} ELSE {"receipt"}
    IN  /\ store = "local" /\ in(c, "erase")
        /\ attempt' = [attempt EXCEPT ![rowKey(c)] = [@ EXCEPT !.objects = a.objects \ gone]]
        /\ IF ~(a.objects \subseteq gone) THEN authorize(c, "erase")
           ELSE IF collector[c].row \in Keys THEN proceed(c, "record") ELSE authorize(c, "staging")
        /\ UNCHANGED <<store, catalog, staging, late, call, sealer>>

\* S3 deletes the objects it listed in any order, or fails with some of them left;
\* each try deletes something.
eraseObjects(c) ==
    /\ store = "s3" /\ in(c, "erase")
    /\ \E left \in SUBSET attempt[rowKey(c)].objects :
         /\ left # {} => left # attempt[rowKey(c)].objects
         /\ attempt' = [attempt EXCEPT ![rowKey(c)] = [@ EXCEPT !.objects = left]]
         /\ IF left = {} THEN proceed(c, "record") ELSE abandon(c)
    /\ UNCHANGED <<store, catalog, staging, late, call, sealer>>

removeStaging(c) ==
    /\ in(c, "staging")
    /\ staging' = staging \ {collector[c].row - MaxKeys}
    /\ proceed(c, "record")
    /\ UNCHANGED <<store, catalog, attempt, late, call, sealer>>

\* A maintenance process dies and starts again; not under the last permit.
collectorRestarts(c) ==
    /\ ~in(c, "idle") /\ collection.fence < MaxCollections
    /\ abandon(c)
    /\ UNCHANGED <<store, catalog, bytes, call, sealer>>

-----------------------------------------------------------------------------

callStep(u) ==
    \/ beginSubmissionWrite(u) \/ stageAttempt(u) \/ publishAttempt(u) \/ putIntent(u) \/ uploadBytes(u)
    \/ putReceipt(u) \/ required(u) \/ registerUploadReceipt(u) \/ finishSubmissionWrite(u)
    \/ replayReceipt(u) \/ verifyReceipt(u) \/ readCollectionMarker(u)

collectorStep(c) ==
    \/ listSubmissionCollectionAttempts(c) \/ readMarker(c) \/ createMarker(c) \/ fillMarker(c)
    \/ putMarker(c) \/ eraseLocal(c) \/ eraseObjects(c) \/ removeStaging(c)
    \/ recordSubmissionCollectionProgress(c) \/ completeSubmissionCollection(c)

Next ==
    \/ createSubmission \/ submissionLapses \/ claimFinalization \/ runEnds \/ expireSubmission
    \/ \E u \in Calls : callStep(u) \/ callFails(u) \/ callDies(u) \/ landsLate(u)
    \/ \E u \in Calls, k \in Keys : writeFile(u, k)
    \/ \E selected \in SUBSET Keys : seal(selected)
    \/ verifySelected \/ sealSubmission
    \/ permitLapses
    \/ \E c \in Collectors : claimSubmissionCollection(c) \/ collectorStep(c) \/ collectorRestarts(c)

Spec == Init /\ [][Next]_vars

-----------------------------------------------------------------------------
(* Properties *)

\* A sealed submission and the source of a running finalization keep their selected
\* bytes: neither expiry, nor a collector that started earlier, nor a late claim
\* removes or marks them (submissionCollectable, sealSubmission, expireSubmission).
SourceIsStored ==
    submission.state = "sealed" \/ run = "finalizing" =>
        \A k \in submission.selected : "bytes" \in attempt[k].objects /\ attempt[k].marker = "none"

\* A repeated upload that succeeded is answered with its receipt at every moment of
\* the deletion of its bytes, acknowledged or not (isUploadReceiptRetired).
ReplayIsAnswered == \A u \in Calls : call[u].answer # "missing"

\* What is recorded as collected is gone: attempts with and without a receipt, and
\* the staging directories of dead calls; nothing of the submission can be stored
\* or arrive any more (beginSubmissionWrite, withStoppedWriter, recordSubmissionCollectionProgress).
CollectedIsErased ==
    collection.collected =>
        /\ \A k \in Keys : attempt[k].objects = {}
        /\ staging = {} /\ \A u \in Calls : late[u] = {}
        /\ \A u \in Calls : call[u].step \notin {"store", "publish", "receipt"}

=============================================================================
