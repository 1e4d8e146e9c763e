--------------------------- MODULE SubmissionProofs ---------------------------
(***************************************************************************)
(* Proofs about Submission for any number of uploads, calls, collectors    *)
(* and permits, with either store.                                         *)
(***************************************************************************)
EXTENDS Submission, TLAPS

-----------------------------------------------------------------------------
(* The inductive invariant *)

\* The collector has a row.
Busy == {"look", "mark", "fill", "erase", "staging", "record"}

\* The call is between the begin and the end of its writer record.
Writing == {"store", "publish", "receipt", "required", "register", "finish"}

allRows == rowsAfter(0)

\* The first permit ends the submission for good: it is expired, nobody writes and nobody will.
Phases ==
    /\ run = "finalizing" => submission.state = "sealed"
    /\ collection.fence > 0 =>
         /\ submission.state = "expired" /\ collection.version = submission.version
         /\ \A u \in Calls : writer[u] # "active"
    /\ collection.fence = 0 => collection.cursor = 0 /\ ~collection.live /\ ~collection.collected
    /\ \A c \in Collectors : collector[c].step # "idle" => collection.fence > 0

\* Whatever is stored, staged or still in flight belongs to a call whose writer record is active;
\* an object in flight also makes the call uncertain, which keeps that record active.
WriterOf(u) ==
    /\ call[u].step \in Writing \/ late[u] # {} \/ u \in staging => writer[u] = "active"
    /\ writer[u] # "none" => call[u].step # "idle"
    /\ late[u] # {} => call[u].step \in {"finish", "over"}
    /\ late[u] # {} /\ call[u].step = "finish" => call[u].uncertain
    /\ u \in staging => store = "local" /\ call[u].step \in {"publish", "over"}
    /\ call[u].step \in {"receipt", "required", "register"} => "bytes" \in attempt[call[u].key].objects

Writers == \A u \in Calls : WriterOf(u)

\* An attempt with objects is the attempt of a call that has a writer record.
Owners ==
    \A k \in Keys : attempt[k].objects # {} => \E u \in Calls : writer[u] # "none" /\ call[u].key = k

\* Attempts are marked under a permit, and erased under a mark.
Marks ==
    /\ collection.fence = 0 => \A k \in Keys : attempt[k].marker = "none"
    /\ \A c \in Collectors :
         /\ collector[c].step \in Busy => collector[c].row \in allRows
         /\ collector[c].step = "erase" => attempt[rowKey(c)].marker = "whole"

\* What was verified for the seal is stored while nobody collects.
Sealing ==
    /\ sealer.step = "seal" => sealer.left = {}
    /\ collection.fence = 0 /\ sealer.step # "idle" =>
         \A k \in sealer.selected \ sealer.left : "bytes" \in attempt[k].objects
    /\ submission.state = "sealed" => \A k \in submission.selected : "bytes" \in attempt[k].objects

\* Every acknowledged row is erased, and so is a row about to be acknowledged.
Erased ==
    /\ \A r \in allRows : r <= collection.cursor => attempt[keyOfRow(r)].objects = {}
    /\ \A c \in Collectors : collector[c].step \in {"staging", "record"} => attempt[rowKey(c)].objects = {}
    /\ collection.collected => \A k \in Keys : attempt[k].objects = {}

\* A registered upload whose bytes are missing is marked, and so is one that a replay found missing.
Replays ==
    /\ \A k \in receipts : "bytes" \in attempt[k].objects \/ (collection.fence > 0 /\ attempt[k].marker = "whole")
    /\ \A u \in Calls : call[u].step \in {"replay", "verify"} => call[u].key \in receipts
    /\ \A u \in Calls : call[u].step = "marker" =>
         collection.fence > 0 /\ attempt[call[u].key].marker = "whole"
    /\ ReplayIsAnswered

SubmissionInvariant ==
    TypeOK /\ Phases /\ Writers /\ Owners /\ Marks /\ Sealing /\ Erased /\ Replays

-----------------------------------------------------------------------------
(* Type correctness *)

\* The constants of the model, and the idle records.
LEMMA Basics ==
    /\ MaxKeys \in Nat /\ 1 \in Keys /\ Keys \in SUBSET Nat /\ Calls \in SUBSET Nat
    /\ \A u \in Calls : u > 0 /\ MaxKeys + u \in Nat /\ MaxKeys + u \notin Keys /\ (MaxKeys + u) - MaxKeys = u
    /\ IdleCollector \in CollectorRecord /\ NoSeal \in SealRecord
<1>1. /\ MaxKeys \in Nat /\ 1 \in Keys /\ Keys \in SUBSET Nat /\ Calls \in SUBSET Nat
      /\ \A u \in Calls : u > 0 /\ MaxKeys + u \in Nat /\ MaxKeys + u \notin Keys /\ (MaxKeys + u) - MaxKeys = u
    BY SubmissionBounds DEF Keys
<1>2. QED BY <1>1 DEF IdleCollector, CollectorRecord, CollectorSteps, NoSeal, SealRecord

\* The initial state is well typed.
LEMMA TypeInit == ASSUME Init PROVE TypeOK
<1>1. submission \in SubmissionRecord /\ collection \in CollectionRecord
    BY DEF Init, SubmissionRecord, CollectionRecord
<1>2. attempt \in [Keys -> AttemptRecord] /\ call \in [Calls -> CallRecord]
    BY Basics DEF Init, AttemptRecord, CallRecord, CallSteps
<1>3. QED BY <1>1, <1>2, Basics DEF Init, TypeOK

\* A move of a call keeps its types.
LEMMA GotoType ==
    ASSUME TypeOK, NEW u \in Calls, NEW step \in CallSteps, goto(u, step)
    PROVE  call' \in [Calls -> CallRecord]
<1>1. [call[u] EXCEPT !.step = step] \in CallRecord
    BY DEF TypeOK, CallRecord
<1>2. QED BY <1>1 DEF TypeOK, goto

\* The end of a call keeps its types.
LEMMA ReturnsType ==
    ASSUME TypeOK, NEW u \in Calls, NEW answer \in {"none", "missing"}, returns(u, answer)
    PROVE  call' \in [Calls -> CallRecord]
<1>1. "over" \in CallSteps
    BY DEF CallSteps
<1>2. [call[u] EXCEPT !.step = "over", !.seen = 0, !.tries = 0, !.uncertain = FALSE, !.answer = answer]
        \in CallRecord
    BY <1>1 DEF TypeOK, CallRecord
<1>3. QED BY <1>2 DEF TypeOK, returns

\* The steps of the run and of the clock keep the types.
LEMMA TypeRun ==
    ASSUME TypeOK, createSubmission \/ submissionLapses \/ claimFinalization \/ runEnds \/ expireSubmission
    PROVE  TypeOK'
<1>1. submission.version + 1 \in Nat
    BY DEF TypeOK, SubmissionRecord
<1>2. CASE createSubmission
    <2>1. submission' \in SubmissionRecord
        BY <1>2 DEF createSubmission, TypeOK, SubmissionRecord
    <2>2. QED BY <1>2, <2>1 DEF createSubmission, TypeOK, bytes
<1>3. CASE submissionLapses
    <2>1. submission' \in SubmissionRecord
        BY <1>3 DEF submissionLapses, TypeOK, SubmissionRecord
    <2>2. QED BY <1>3, <2>1 DEF submissionLapses, TypeOK, bytes
<1>4. CASE claimFinalization \/ runEnds
    BY <1>4 DEF claimFinalization, runEnds, TypeOK, bytes
<1>5. CASE expireSubmission
    <2>1. [submission EXCEPT !.state = "expired", !.version = submission.version + 1] \in SubmissionRecord
        BY <1>1 DEF TypeOK, SubmissionRecord
    <2>2. QED BY <1>5, <2>1 DEF expireSubmission, TypeOK, bytes
<1>6. QED BY <1>2, <1>3, <1>4, <1>5

\* The steps of a call that change the catalog, or nothing but the call, keep the types.
LEMMA TypeCall ==
    ASSUME TypeOK, NEW u \in Calls,
           \/ beginSubmissionWrite(u) \/ required(u) \/ registerUploadReceipt(u) \/ finishSubmissionWrite(u)
           \/ callFails(u) \/ callDies(u) \/ replayReceipt(u) \/ verifyReceipt(u) \/ readCollectionMarker(u)
           \/ \E k \in Keys : writeFile(u, k)
    PROVE  TypeOK'
<1>1. CASE beginSubmissionWrite(u)
    <2>1. call' \in [Calls -> CallRecord]
        BY <1>1, GotoType, ReturnsType DEF beginSubmissionWrite, CallSteps
    <2>2. QED BY <1>1, <2>1 DEF beginSubmissionWrite, TypeOK, bytes
<1>2. CASE required(u)
    <2>1. "register" \in CallSteps /\ submission.version \in Nat
        BY DEF CallSteps, TypeOK, SubmissionRecord
    <2>2. [call[u] EXCEPT !.step = "register", !.seen = submission.version] \in CallRecord
        BY <2>1 DEF TypeOK, CallRecord
    <2>3. QED BY <1>2, <2>2 DEF required, TypeOK, catalog, bytes
<1>3. CASE registerUploadReceipt(u)
    <2>1. submission.version + 1 \in Nat /\ call[u].tries + 1 \in Nat /\ call[u].key \in Keys
        BY DEF TypeOK, SubmissionRecord, CallRecord
    <2>2. [submission EXCEPT !.version = submission.version + 1] \in SubmissionRecord
        BY <2>1 DEF TypeOK, SubmissionRecord
    <2>3. submission' \in SubmissionRecord /\ receipts' \subseteq Keys
        BY <1>3, <2>1, <2>2 DEF registerUploadReceipt, TypeOK
    <2>4. "required" \in CallSteps /\ "finish" \in CallSteps
        BY DEF CallSteps
    <2>5. /\ [call[u] EXCEPT !.step = "required", !.tries = call[u].tries + 1] \in CallRecord
          /\ [call[u] EXCEPT !.step = "finish"] \in CallRecord
        BY <2>1, <2>4 DEF TypeOK, CallRecord
    <2>6. call' \in [Calls -> CallRecord]
        <3>1. \/ call' = [call EXCEPT ![u] = [call[u] EXCEPT !.step = "required", !.tries = call[u].tries + 1]]
              \/ call' = [call EXCEPT ![u] = [call[u] EXCEPT !.step = "finish"]]
            BY <1>3 DEF registerUploadReceipt
        <3>2. QED BY <2>5, <3>1 DEF TypeOK
    <2>7. QED BY <1>3, <2>3, <2>6 DEF registerUploadReceipt, TypeOK, bytes
<1>4. CASE finishSubmissionWrite(u)
    <2>1. call' \in [Calls -> CallRecord]
        BY <1>4, ReturnsType DEF finishSubmissionWrite
    <2>2. QED BY <1>4, <2>1 DEF finishSubmissionWrite, TypeOK, bytes
<1>5. CASE callFails(u)
    <2>1. call' \in [Calls -> CallRecord]
        BY <1>5, GotoType DEF callFails, CallSteps
    <2>2. QED BY <1>5, <2>1 DEF callFails, TypeOK, catalog
<1>6. CASE callDies(u)
    BY <1>6, ReturnsType DEF callDies, TypeOK, catalog, bytes
<1>7. CASE replayReceipt(u) \/ verifyReceipt(u)
    <2>1. call' \in [Calls -> CallRecord]
        BY <1>7, GotoType, ReturnsType DEF replayReceipt, verifyReceipt, CallSteps
    <2>2. QED BY <1>7, <2>1 DEF replayReceipt, verifyReceipt, TypeOK, catalog, bytes
<1>8. CASE readCollectionMarker(u)
    <2>1. PICK answer \in {"none", "missing"} : returns(u, answer)
        BY <1>8 DEF readCollectionMarker
    <2>2. call' \in [Calls -> CallRecord]
        BY <2>1, ReturnsType
    <2>3. QED BY <1>8, <2>2 DEF readCollectionMarker, TypeOK, catalog, bytes
<1>9. ASSUME NEW k \in Keys, writeFile(u, k) PROVE TypeOK'
    <2>1. PICK step \in CallSteps : call' = [call EXCEPT ![u] = [@ EXCEPT !.key = k, !.step = step]]
        BY <1>9 DEF writeFile, CallSteps
    <2>2. [call[u] EXCEPT !.key = k, !.step = step] \in CallRecord
        BY DEF TypeOK, CallRecord
    <2>3. call' \in [Calls -> CallRecord]
        BY <2>1, <2>2 DEF TypeOK
    <2>4. QED BY <1>9, <2>3 DEF writeFile, TypeOK, catalog, bytes
<1>10. QED BY <1>1, <1>2, <1>3, <1>4, <1>5, <1>6, <1>7, <1>8, <1>9

\* More objects keep an attempt well typed.
LEMMA StoredType ==
    ASSUME TypeOK, NEW k \in Keys, NEW os \in SUBSET Objects
    PROVE  [attempt EXCEPT ![k] = [@ EXCEPT !.objects = os]] \in [Keys -> AttemptRecord]
<1>1. [attempt[k] EXCEPT !.objects = os] \in AttemptRecord
    BY DEF TypeOK, AttemptRecord
<1>2. QED BY <1>1 DEF TypeOK

\* A put to S3 is answered or uncertain: what it does to the attempt, to what is in flight and to the call.
LEMMA PutEffect ==
    ASSUME TypeOK, NEW u \in Calls, NEW object \in Objects, NEW next \in CallSteps, put(u, object, next)
    PROVE  /\ TypeOK => /\ attempt' \in [Keys -> AttemptRecord]
                        /\ late' \in [Calls -> SUBSET Objects] /\ call' \in [Calls -> CallRecord]
           /\ \A v \in Calls : call'[v].key = call[v].key
           /\ \A v \in Calls \ {u} : call'[v] = call[v] /\ late'[v] = late[v]
           /\ \/ /\ UNCHANGED late /\ call'[u].step = next
                 /\ attempt' = [attempt EXCEPT ![call[u].key] = [@ EXCEPT !.objects = attempt[call[u].key].objects \cup {object}]]
              \/ /\ UNCHANGED attempt /\ call'[u].step = "finish" /\ call'[u].uncertain
           /\ call'[u].answer = call[u].answer
<1>1. call[u].key \in Keys /\ attempt[call[u].key].objects \cup {object} \in SUBSET Objects
    BY DEF TypeOK, CallRecord, AttemptRecord
<1>2. CASE /\ attempt' = [attempt EXCEPT ![call[u].key] = [@ EXCEPT !.objects = attempt[call[u].key].objects \cup {object}]]
           /\ UNCHANGED late
           /\ \E doubt \in BOOLEAN :
                call' = [call EXCEPT ![u] = [@ EXCEPT !.step = next, !.uncertain = call[u].uncertain \/ doubt]]
    <2>1. attempt' \in [Keys -> AttemptRecord]
        BY <1>1, <1>2, StoredType
    <2>2. PICK b \in BOOLEAN : call' = [call EXCEPT ![u] = [@ EXCEPT !.step = next, !.uncertain = b]]
        BY <1>2 DEF TypeOK, CallRecord
    <2>3. [call[u] EXCEPT !.step = next, !.uncertain = b] \in CallRecord
        BY DEF TypeOK, CallRecord
    <2>4. call' \in [Calls -> CallRecord]
        BY <2>2, <2>3 DEF TypeOK
    <2>5. QED BY <1>2, <2>1, <2>2, <2>4 DEF TypeOK, CallRecord
<1>3. CASE /\ UNCHANGED attempt /\ late' = [late EXCEPT ![u] = @ \cup {object}]
           /\ call' = [call EXCEPT ![u] = [@ EXCEPT !.step = "finish", !.uncertain = TRUE]]
    <2>1. "finish" \in CallSteps
        BY DEF CallSteps
    <2>2. [call[u] EXCEPT !.step = "finish", !.uncertain = TRUE] \in CallRecord
        BY <2>1 DEF TypeOK, CallRecord
    <2>3. call' \in [Calls -> CallRecord] /\ late' \in [Calls -> SUBSET Objects]
        BY <1>3, <2>2 DEF TypeOK
    <2>4. QED BY <1>3, <2>3 DEF TypeOK, CallRecord
<1>4. QED BY <1>2, <1>3 DEF put

\* Storing an upload keeps the types.
LEMMA TypeStore ==
    ASSUME TypeOK, NEW u \in Calls,
           \/ stageAttempt(u) \/ publishAttempt(u) \/ putIntent(u) \/ uploadBytes(u) \/ putReceipt(u) \/ landsLate(u)
    PROVE  TypeOK'
<1>0. call[u].key \in Keys
    BY DEF TypeOK, CallRecord
<1>1. CASE stageAttempt(u)
    <2>1. call' \in [Calls -> CallRecord]
        BY <1>1, GotoType DEF stageAttempt, CallSteps
    <2>2. QED BY <1>1, <2>1 DEF stageAttempt, TypeOK, catalog
<1>2. CASE publishAttempt(u)
    <2>1. call' \in [Calls -> CallRecord]
        BY <1>2, GotoType DEF publishAttempt, CallSteps
    <2>2. {"bytes", "receipt"} \in SUBSET Objects
        BY DEF Objects
    <2>3. attempt' \in [Keys -> AttemptRecord]
        BY <1>0, <1>2, <2>2, StoredType DEF publishAttempt, TypeOK
    <2>4. QED BY <1>2, <2>1, <2>3 DEF publishAttempt, TypeOK, catalog
<1>3. CASE putIntent(u) \/ uploadBytes(u) \/ putReceipt(u)
    <2>1. \/ goto(u, "publish") /\ UNCHANGED <<attempt, late>>
          \/ goto(u, "required") /\ UNCHANGED <<attempt, late>>
          \/ put(u, "intent", "publish") \/ put(u, "bytes", "receipt") \/ put(u, "receipt", "required")
        BY <1>3 DEF putIntent, uploadBytes, putReceipt
    <2>2. {"publish", "required", "receipt"} \subseteq CallSteps /\ {"intent", "bytes", "receipt"} \subseteq Objects
        BY DEF CallSteps, Objects
    <2>3. /\ attempt' \in [Keys -> AttemptRecord]
          /\ late' \in [Calls -> SUBSET Objects] /\ call' \in [Calls -> CallRecord]
        <3>1. CASE UNCHANGED <<attempt, late>> /\ (goto(u, "publish") \/ goto(u, "required"))
            BY <2>2, <3>1, GotoType DEF TypeOK
        <3>2. CASE put(u, "intent", "publish") \/ put(u, "bytes", "receipt") \/ put(u, "receipt", "required")
            BY <2>2, <3>2, PutEffect
        <3>3. QED BY <2>1, <3>1, <3>2
    <2>4. QED BY <1>3, <2>3 DEF putIntent, uploadBytes, putReceipt, TypeOK, catalog
<1>4. CASE landsLate(u)
    <2>1. attempt[call[u].key].objects \cup late[u] \in SUBSET Objects
        BY <1>0 DEF TypeOK, AttemptRecord
    <2>2. attempt' \in [Keys -> AttemptRecord]
        BY <1>0, <1>4, <2>1, StoredType DEF landsLate
    <2>3. QED BY <1>4, <2>2 DEF landsLate, TypeOK, catalog
<1>5. QED BY <1>1, <1>2, <1>3, <1>4

\* Sealing keeps the types.
LEMMA TypeSeal ==
    ASSUME TypeOK, verifySelected \/ sealSubmission \/ \E selected \in SUBSET Keys : seal(selected)
    PROVE  TypeOK'
<1>1. ASSUME NEW selected \in SUBSET Keys, seal(selected) PROVE TypeOK'
    <2>1. sealer' \in SealRecord
        BY <1>1 DEF seal, SealRecord
    <2>2. QED BY <1>1, <2>1 DEF seal, TypeOK, catalog, bytes
<1>2. CASE verifySelected
    <2>1. submission.version \in Nat /\ sealer.left \in SUBSET Keys
        BY DEF TypeOK, SubmissionRecord, SealRecord
    <2>2. \/ sealer' = [sealer EXCEPT !.step = "seal", !.seen = submission.version]
          \/ sealer' = NoSeal
          \/ \E k \in sealer.left : sealer' = [sealer EXCEPT !.left = sealer.left \ {k}]
        BY <1>2 DEF verifySelected
    <2>3. sealer' \in SealRecord
        <3>1. CASE sealer' = [sealer EXCEPT !.step = "seal", !.seen = submission.version]
            BY <2>1, <3>1 DEF TypeOK, SealRecord
        <3>2. ASSUME NEW left \in SUBSET Keys, sealer' = [sealer EXCEPT !.left = left] PROVE sealer' \in SealRecord
            BY <3>2 DEF TypeOK, SealRecord
        <3>3. \A k \in sealer.left : sealer.left \ {k} \in SUBSET Keys
            BY <2>1
        <3>4. QED BY <2>2, <3>1, <3>2, <3>3, Basics
    <2>4. QED BY <1>2, <2>3 DEF verifySelected, TypeOK, catalog, bytes
<1>3. CASE sealSubmission
    <2>1. submission.version + 1 \in Nat /\ sealer.selected \in SUBSET Keys
        BY DEF TypeOK, SubmissionRecord, SealRecord
    <2>2. [submission EXCEPT !.state = "sealed", !.version = submission.version + 1, !.selected = sealer.selected]
            \in SubmissionRecord
        BY <2>1 DEF TypeOK, SubmissionRecord
    <2>3. submission' \in SubmissionRecord
        BY <1>3, <2>2 DEF sealSubmission, TypeOK
    <2>4. QED BY <1>3, <2>3, Basics DEF sealSubmission, TypeOK, bytes
<1>4. QED BY <1>1, <1>2, <1>3

\* Rows are natural numbers.
LEMMA RowNat == ASSUME TypeOK, NEW cursor, NEW r \in rowsAfter(cursor) PROVE r \in Nat
BY Basics DEF TypeOK, rowsAfter

\* The moves of a collector keep its types.
LEMMA CollectorType ==
    ASSUME TypeOK, NEW c \in Collectors,
           \/ \E step \in CollectorSteps : proceed(c, step) \/ authorize(c, step)
           \/ abandon(c) \/ \E cursor : turnTo(c, rowsAfter(cursor))
    PROVE  collector' \in [Collectors -> CollectorRecord]
<1>1. ASSUME NEW step \in CollectorSteps, proceed(c, step)
      PROVE  collector' \in [Collectors -> CollectorRecord]
    <2>1. [collector[c] EXCEPT !.step = step] \in CollectorRecord
        BY DEF TypeOK, CollectorRecord
    <2>2. QED BY <1>1, <2>1 DEF proceed, TypeOK
<1>2. CASE abandon(c)
    BY <1>2, Basics DEF abandon, TypeOK
<1>3. ASSUME NEW cursor, turnTo(c, rowsAfter(cursor)) PROVE collector' \in [Collectors -> CollectorRecord]
    <2>1. "complete" \in CollectorSteps /\ "look" \in CollectorSteps
        BY DEF CollectorSteps
    <2>2. ASSUME NEW r \in rowsAfter(cursor) PROVE [collector[c] EXCEPT !.step = "look", !.row = r] \in CollectorRecord
        BY <2>1, RowNat DEF TypeOK, CollectorRecord
    <2>3. QED BY <1>1, <1>3, <2>1, <2>2 DEF turnTo, TypeOK
<1>4. QED BY <1>1, <1>2, <1>3 DEF authorize

\* The collector's commands to the catalog keep the types.
LEMMA TypeCollection ==
    ASSUME TypeOK,
           \/ permitLapses
           \/ \E c \in Collectors :
                \/ claimSubmissionCollection(c) \/ listSubmissionCollectionAttempts(c)
                \/ recordSubmissionCollectionProgress(c) \/ completeSubmissionCollection(c) \/ collectorRestarts(c)
    PROVE  TypeOK'
<1>1. CASE permitLapses
    <2>1. collection' \in CollectionRecord
        BY <1>1 DEF permitLapses, TypeOK, CollectionRecord
    <2>2. QED BY <1>1, <2>1 DEF permitLapses, TypeOK, bytes
<1>2. ASSUME NEW c \in Collectors, claimSubmissionCollection(c) PROVE TypeOK'
    <2>1. PICK fence \in Nat, version \in Nat :
            /\ submission' = [submission EXCEPT !.state = "expired", !.version = version]
            /\ collection' = [collection EXCEPT !.fence = fence, !.live = TRUE, !.version = version]
            /\ collector' = [collector EXCEPT ![c] = [IdleCollector EXCEPT !.step = "list", !.fence = fence]]
        <3>1. PICK fence \in Nat : fence = collection.fence + IF collection.live THEN 0 ELSE 1
            BY DEF TypeOK, CollectionRecord
        <3>2. PICK version \in Nat :
                version = IF submission.state = "expired" THEN submission.version ELSE submission.version + 1
            BY DEF TypeOK, SubmissionRecord
        <3>3. QED BY <1>2, <3>1, <3>2 DEF claimSubmissionCollection
    <2>2. submission' \in SubmissionRecord /\ collection' \in CollectionRecord
        BY <2>1 DEF TypeOK, SubmissionRecord, CollectionRecord
    <2>3. [IdleCollector EXCEPT !.step = "list", !.fence = fence] \in CollectorRecord
        BY DEF IdleCollector, CollectorRecord, CollectorSteps
    <2>4. collector' \in [Collectors -> CollectorRecord]
        BY <2>1, <2>3 DEF TypeOK
    <2>5. QED BY <1>2, <2>2, <2>4 DEF claimSubmissionCollection, TypeOK, bytes
<1>3. ASSUME NEW c \in Collectors, listSubmissionCollectionAttempts(c) \/ collectorRestarts(c) PROVE TypeOK'
    <2>1. collector' \in [Collectors -> CollectorRecord]
        BY <1>3, CollectorType DEF listSubmissionCollectionAttempts, collectorRestarts
    <2>2. QED BY <1>3, <2>1 DEF listSubmissionCollectionAttempts, collectorRestarts, TypeOK, catalog, bytes
<1>4. ASSUME NEW c \in Collectors, recordSubmissionCollectionProgress(c) PROVE TypeOK'
    <2>1. collector' \in [Collectors -> CollectorRecord]
        BY <1>4, CollectorType DEF recordSubmissionCollectionProgress
    <2>2. collector[c].row \in Nat /\ collection.cursor \in Nat
        BY DEF TypeOK, CollectorRecord, CollectionRecord
    <2>3. UNCHANGED collection \/ \E n \in Nat : collection' = [collection EXCEPT !.cursor = n]
        BY <1>4, <2>2 DEF recordSubmissionCollectionProgress
    <2>4. collection' \in CollectionRecord
        BY <2>3 DEF TypeOK, CollectionRecord
    <2>5. QED BY <1>4, <2>1, <2>4 DEF recordSubmissionCollectionProgress, TypeOK, bytes
<1>5. ASSUME NEW c \in Collectors, completeSubmissionCollection(c) PROVE TypeOK'
    <2>1. collector' \in [Collectors -> CollectorRecord]
        BY <1>5, CollectorType DEF completeSubmissionCollection
    <2>2. PICK b \in BOOLEAN : collection' = [collection EXCEPT !.collected = b]
        BY <1>5 DEF completeSubmissionCollection, TypeOK, CollectionRecord
    <2>3. collection' \in CollectionRecord
        BY <2>2 DEF TypeOK, CollectionRecord
    <2>4. QED BY <1>5, <2>1, <2>3 DEF completeSubmissionCollection, TypeOK, bytes
<1>6. QED BY <1>1, <1>2, <1>3, <1>4, <1>5

\* The collector's effects on the store keep the types.
LEMMA TypeErase ==
    ASSUME TypeOK, NEW c \in Collectors,
           \/ readMarker(c) \/ createMarker(c) \/ fillMarker(c) \/ putMarker(c) \/ eraseLocal(c)
           \/ eraseObjects(c) \/ removeStaging(c)
    PROVE  TypeOK'
<1>1. collector' \in [Collectors -> CollectorRecord]
    BY CollectorType DEF readMarker, createMarker, fillMarker, putMarker, eraseLocal, eraseObjects, removeStaging,
                         CollectorSteps, authorize
<1>2. ASSUME NEW marker \in {"none", "torn", "whole"}, setMarker(c, marker)
      PROVE  attempt' \in [Keys -> AttemptRecord]
    <2>1. CASE rowKey(c) \in Keys
        <3>1. [attempt[rowKey(c)] EXCEPT !.marker = marker] \in AttemptRecord
            BY <2>1 DEF TypeOK, AttemptRecord
        <3>2. QED BY <1>2, <3>1 DEF setMarker, TypeOK
    <2>2. CASE rowKey(c) \notin Keys
        BY <1>2, <2>2 DEF setMarker, TypeOK
    <2>3. QED BY <2>1, <2>2
<1>3. ASSUME NEW os, os \subseteq attempt[rowKey(c)].objects,
             attempt' = [attempt EXCEPT ![rowKey(c)] = [@ EXCEPT !.objects = os]]
      PROVE  attempt' \in [Keys -> AttemptRecord]
    <2>1. CASE rowKey(c) \in Keys
        <3>1. os \in SUBSET Objects
            BY <1>3, <2>1 DEF TypeOK, AttemptRecord
        <3>2. QED BY <1>3, <2>1, <3>1, StoredType
    <2>2. CASE rowKey(c) \notin Keys
        BY <1>3, <2>2 DEF TypeOK
    <2>3. QED BY <2>1, <2>2
<1>4. CASE readMarker(c)
    BY <1>1, <1>4 DEF readMarker, TypeOK, catalog, bytes
<1>5. CASE createMarker(c) \/ fillMarker(c) \/ putMarker(c)
    <2>1. attempt' \in [Keys -> AttemptRecord]
        BY <1>2, <1>5 DEF createMarker, fillMarker, putMarker, TypeOK
    <2>2. QED BY <1>1, <1>5, <2>1 DEF createMarker, fillMarker, putMarker, TypeOK, catalog
<1>6. CASE eraseLocal(c) \/ eraseObjects(c)
    <2>1. attempt' \in [Keys -> AttemptRecord]
        BY <1>3, <1>6 DEF eraseLocal, eraseObjects
    <2>2. QED BY <1>1, <1>6, <2>1 DEF eraseLocal, eraseObjects, TypeOK, catalog
<1>7. CASE removeStaging(c)
    BY <1>1, <1>7 DEF removeStaging, TypeOK, catalog
<1>8. QED BY <1>4, <1>5, <1>6, <1>7

\* Every step keeps the types.
LEMMA TypeStep == ASSUME TypeOK, [Next]_vars PROVE TypeOK'
<1>1. CASE UNCHANGED vars
    BY <1>1 DEF TypeOK, vars, catalog, bytes
<1>2. QED BY <1>1, TypeRun, TypeCall, TypeStore, TypeSeal, TypeCollection, TypeErase
          DEF Next, callStep, collectorStep

\* Every record of the catalog, the store, the calls and the collectors keeps its type.
THEOREM TypeCorrect == Spec => []TypeOK
<1>1. QED BY TypeInit, TypeStep, PTL DEF Spec

-----------------------------------------------------------------------------
(* What a step may do to the catalog, to an attempt and to a collector *)

\* The rows are the receipts and the writer records; each names the key of one attempt.
Rows ==
    /\ \A k \in receipts : k \in allRows /\ keyOfRow(k) = k
    /\ \A u \in Calls : /\ MaxKeys + u \in allRows <=> writer[u] # "none"
                        /\ keyOfRow(MaxKeys + u) = call[u].key
    /\ \A r \in allRows : /\ r \in Nat \ {0} /\ keyOfRow(r) \in Keys
                          /\ r \in receipts \/ \E u \in Calls : writer[u] # "none" /\ r = MaxKeys + u
    /\ \A n \in Nat : rowsAfter(n) = {r \in allRows : r > n}

\* The rows of every well-typed state are such rows.
LEMMA RowFacts == TypeOK => Rows
<1> SUFFICES ASSUME TypeOK PROVE Rows
    OBVIOUS
<1>1. \A k \in Keys : k \in Nat /\ k > 0
    BY SubmissionBounds DEF Keys
<1>2. \A u \in Calls : MaxKeys + u \in Nat /\ MaxKeys + u > 0
    BY SubmissionBounds
<1>3. \A k \in receipts : k \in allRows /\ keyOfRow(k) = k
    BY <1>1 DEF TypeOK, allRows, rowsAfter, keyOfRow
<1>4. \A u \in Calls : keyOfRow(MaxKeys + u) = call[u].key
    BY Basics DEF keyOfRow
<1>5. \A u \in Calls : MaxKeys + u \in allRows <=> writer[u] # "none"
    <2>1. \A u, v \in Calls : MaxKeys + u = MaxKeys + v => u = v
        BY SubmissionBounds
    <2>2. QED BY <1>2, <2>1, Basics DEF TypeOK, allRows, rowsAfter
<1>6. \A r \in allRows : r \in receipts \/ \E u \in Calls : writer[u] # "none" /\ r = MaxKeys + u
    BY DEF allRows, rowsAfter
<1>7. \A r \in allRows : r \in Nat \ {0} /\ keyOfRow(r) \in Keys
    BY <1>1, <1>2, <1>3, <1>4, <1>6 DEF TypeOK, CallRecord
<1>8. \A n \in Nat : rowsAfter(n) = {r \in allRows : r > n}
    BY <1>1, <1>2 DEF TypeOK, allRows, rowsAfter
<1>9. QED BY <1>3, <1>4, <1>5, <1>6, <1>7, <1>8 DEF Rows

\* The same of the next state.
LEMMA NextRowFacts == TypeOK' => Rows'
BY RowFacts, PTL

\* A move of a call changes its step; its end also forgets the rest but its key.
LEMMA MoveEffect ==
    ASSUME TypeOK, NEW u \in Calls
    PROVE  /\ \A step : goto(u, step) =>
                /\ call'[u].step = step /\ call'[u].uncertain = call[u].uncertain /\ call'[u].answer = call[u].answer
                /\ \A v \in Calls : call'[v].key = call[v].key /\ (v # u => call'[v] = call[v])
           /\ \A answer : returns(u, answer) =>
                /\ call'[u].step = "over" /\ call'[u].answer = answer
                /\ \A v \in Calls : call'[v].key = call[v].key /\ (v # u => call'[v] = call[v])
<1>1. ASSUME NEW step, goto(u, step)
      PROVE  /\ call'[u].step = step /\ call'[u].uncertain = call[u].uncertain /\ call'[u].answer = call[u].answer
             /\ \A v \in Calls : call'[v].key = call[v].key /\ (v # u => call'[v] = call[v])
    BY <1>1 DEF goto, TypeOK, CallRecord
<1>2. ASSUME NEW answer, returns(u, answer)
      PROVE  /\ call'[u].step = "over" /\ call'[u].answer = answer
             /\ \A v \in Calls : call'[v].key = call[v].key /\ (v # u => call'[v] = call[v])
    BY <1>2 DEF returns, TypeOK, CallRecord
<1>3. QED BY <1>1, <1>2

\* No receipt and no writer record is ever removed, and a call with a writer record keeps its key;
\* a permit is never taken back, and under a permit no receipt or writer record is added.
LEMMA CatalogGrows ==
    ASSUME SubmissionInvariant, [Next]_vars
    PROVE  /\ receipts \subseteq receipts'
           /\ collection.fence > 0 => collection'.fence > 0 /\ receipts' = receipts
           /\ \A u \in Calls : /\ writer[u] # "none" => writer'[u] # "none" /\ call'[u].key = call[u].key
                               /\ collection.fence > 0 /\ writer[u] = "none" => writer'[u] = "none"
<1>0. TypeOK /\ TypeOK' /\ collection.fence \in Nat
    BY TypeStep DEF SubmissionInvariant, TypeOK, CollectionRecord
<1>1. CASE UNCHANGED vars
    BY <1>1 DEF vars, catalog, bytes
<1>2. CASE createSubmission \/ submissionLapses \/ claimFinalization \/ runEnds \/ expireSubmission
    BY <1>2 DEF createSubmission, submissionLapses, claimFinalization, runEnds, expireSubmission
<1>3. CASE verifySelected \/ sealSubmission \/ \E selected \in SUBSET Keys : seal(selected)
    BY <1>3 DEF verifySelected, sealSubmission, seal, catalog
<1>4. ASSUME NEW u \in Calls, beginSubmissionWrite(u) \/ finishSubmissionWrite(u)
      PROVE  /\ UNCHANGED <<receipts, collection>>
             /\ \A v \in Calls : /\ writer[v] # "none" => writer'[v] # "none" /\ call'[v].key = call[v].key
                                 /\ collection.fence > 0 /\ writer[v] = "none" => writer'[v] = "none"
    <2>1. at(u, "finish") => writer[u] = "active"
        BY DEF SubmissionInvariant, Writers, WriterOf, Writing, at
    <2>2. \A v \in Calls : call'[v].key = call[v].key
        BY <1>0, <1>4, MoveEffect DEF beginSubmissionWrite, finishSubmissionWrite
    <2>3. QED BY <1>0, <1>4, <2>1, <2>2 DEF beginSubmissionWrite, finishSubmissionWrite, mayBegin, TypeOK
<1>5. ASSUME NEW u \in Calls, registerUploadReceipt(u)
      PROVE  /\ receipts \subseteq receipts' /\ UNCHANGED <<collection, writer>>
             /\ collection.fence > 0 => receipts' = receipts
             /\ \A v \in Calls : call'[v].key = call[v].key
    <2>1. collection.fence > 0 => ~writableSubmission(call[u].seen)
        BY DEF SubmissionInvariant, Phases, writableSubmission
    <2>2. \A v \in Calls : call'[v].key = call[v].key
        BY <1>0, <1>5 DEF registerUploadReceipt, TypeOK, CallRecord
    <2>3. QED BY <1>5, <2>1, <2>2 DEF registerUploadReceipt
<1>6. ASSUME NEW u \in Calls,
             \/ required(u) \/ callFails(u) \/ callDies(u) \/ replayReceipt(u) \/ verifyReceipt(u)
             \/ readCollectionMarker(u) \/ stageAttempt(u) \/ publishAttempt(u) \/ landsLate(u)
      PROVE  UNCHANGED catalog /\ \A v \in Calls : call'[v].key = call[v].key
    <2>1. CASE required(u)
        BY <1>0, <2>1 DEF required, TypeOK, CallRecord
    <2>2. CASE landsLate(u)
        BY <2>2 DEF landsLate
    <2>3. CASE callFails(u) \/ callDies(u) \/ stageAttempt(u) \/ publishAttempt(u)
        BY <1>0, <2>3, MoveEffect DEF callFails, callDies, stageAttempt, publishAttempt
    <2>4. CASE replayReceipt(u) \/ verifyReceipt(u) \/ readCollectionMarker(u)
        BY <1>0, <2>4, MoveEffect DEF replayReceipt, verifyReceipt, readCollectionMarker
    <2>5. QED BY <1>6, <2>1, <2>2, <2>3, <2>4
<1>7. ASSUME NEW u \in Calls, putIntent(u) \/ uploadBytes(u) \/ putReceipt(u)
      PROVE  UNCHANGED catalog /\ \A v \in Calls : call'[v].key = call[v].key
    <2>1. UNCHANGED catalog
        BY <1>7 DEF putIntent, uploadBytes, putReceipt
    <2>2. \/ goto(u, "publish") \/ goto(u, "required")
          \/ put(u, "intent", "publish") \/ put(u, "bytes", "receipt") \/ put(u, "receipt", "required")
        BY <1>7 DEF putIntent, uploadBytes, putReceipt
    <2>3. CASE goto(u, "publish") \/ goto(u, "required")
        BY <1>0, <2>1, <2>3 DEF goto, TypeOK, CallRecord
    <2>4. CASE put(u, "intent", "publish") \/ put(u, "bytes", "receipt") \/ put(u, "receipt", "required")
        BY <1>0, <2>1, <2>4, PutEffect DEF CallSteps, Objects
    <2>5. QED BY <2>2, <2>3, <2>4
<1>8. ASSUME NEW u \in Calls, NEW k \in Keys, writeFile(u, k)
      PROVE  UNCHANGED catalog /\ \A v \in Calls : writer[v] # "none" => call'[v].key = call[v].key
    <2>1. writer[u] = "none"
        BY <1>0, <1>8 DEF writeFile, at, SubmissionInvariant, Writers, WriterOf, TypeOK
    <2>2. QED BY <1>0, <1>8, <2>1 DEF writeFile, TypeOK, CallRecord
<1>9. ASSUME NEW c \in Collectors, claimSubmissionCollection(c)
      PROVE  UNCHANGED <<receipts, writer, call>> /\ (collection.fence > 0 => collection'.fence > 0)
    <2>1. collection'.fence = collection.fence + IF collection.live THEN 0 ELSE 1
        BY <1>0, <1>9 DEF claimSubmissionCollection, TypeOK, CollectionRecord
    <2>2. QED BY <1>0, <1>9, <2>1 DEF claimSubmissionCollection
<1>10. ASSUME NEW c \in Collectors, collectorStep(c) \/ collectorRestarts(c) \/ permitLapses
       PROVE  UNCHANGED <<receipts, writer, call>> /\ collection'.fence = collection.fence
    <2>1. UNCHANGED <<receipts, writer, call>>
        BY <1>10 DEF collectorStep, collectorRestarts, permitLapses, listSubmissionCollectionAttempts, readMarker,
                     createMarker, fillMarker, putMarker, eraseLocal, eraseObjects, removeStaging,
                     recordSubmissionCollectionProgress, completeSubmissionCollection, catalog
    <2>2. \/ UNCHANGED collection \/ collection' = [collection EXCEPT !.live = FALSE]
          \/ \E n : collection' = [collection EXCEPT !.cursor = n]
          \/ \E b : collection' = [collection EXCEPT !.collected = b]
        BY <1>10 DEF collectorStep, collectorRestarts, permitLapses, listSubmissionCollectionAttempts, readMarker,
                     createMarker, fillMarker, putMarker, eraseLocal, eraseObjects, removeStaging,
                     recordSubmissionCollectionProgress, completeSubmissionCollection, catalog
    <2>3. QED BY <1>0, <2>1, <2>2 DEF TypeOK, CollectionRecord
<1>11. CASE permitLapses
    BY <1>0, <1>11 DEF permitLapses, TypeOK, CollectionRecord
<1>12. QED BY <1>1, <1>2, <1>3, <1>4, <1>5, <1>6, <1>7, <1>8, <1>9, <1>10, <1>11
           DEF Next, callStep, catalog

\* Rows stay, with the keys they name; under a permit there are no new ones.
LEMMA RowsStay ==
    ASSUME SubmissionInvariant, [Next]_vars
    PROVE  /\ \A r \in allRows : r \in allRows' /\ keyOfRow(r)' = keyOfRow(r)
           /\ collection.fence > 0 => allRows' = allRows
<1>0. TypeOK /\ TypeOK'
    BY TypeStep DEF SubmissionInvariant
<1>1. Rows /\ Rows'
    BY <1>0, RowFacts, NextRowFacts
<1>2. ASSUME NEW r \in allRows PROVE r \in allRows' /\ keyOfRow(r)' = keyOfRow(r)
    <2>1. CASE r \in receipts
        BY <1>1, <2>1, CatalogGrows DEF Rows
    <2>2. ASSUME NEW u \in Calls, writer[u] # "none", r = MaxKeys + u
          PROVE  r \in allRows' /\ keyOfRow(r)' = keyOfRow(r)
        <3>1. writer'[u] # "none" /\ call'[u].key = call[u].key
            <4>1. \A v \in Calls : writer[v] # "none" => writer'[v] # "none" /\ call'[v].key = call[v].key
                BY CatalogGrows
            <4>2. QED BY <2>2, <4>1
        <3>2. MaxKeys + u \in allRows' /\ keyOfRow(MaxKeys + u)' = call'[u].key
            BY <1>1, <3>1 DEF Rows
        <3>3. keyOfRow(MaxKeys + u) = call[u].key
            BY <1>1 DEF Rows
        <3>4. QED BY <2>2, <3>1, <3>2, <3>3
    <2>3. QED BY <1>1, <2>1, <2>2 DEF Rows
<1>3. ASSUME collection.fence > 0, NEW r \in allRows' PROVE r \in allRows
    <2>1. CASE r \in receipts'
        BY <1>1, <1>3, <2>1, CatalogGrows DEF Rows
    <2>2. ASSUME NEW u \in Calls, writer'[u] # "none", r = MaxKeys + u PROVE r \in allRows
        <3>1. writer[u] # "none"
            BY <1>3, <2>2, CatalogGrows
        <3>2. QED BY <1>1, <2>2, <3>1 DEF Rows
    <2>3. QED BY <1>1, <2>1, <2>2 DEF Rows
<1>4. QED BY <1>2, <1>3

\* What may become of the attempt of a key: a writer adds objects before the first permit, a collector
\* marks it, or erases what is marked.
Adds(k, a) ==
    /\ collection.fence = 0 /\ \E u \in Calls : writer[u] = "active" /\ call[u].key = k
    /\ a.marker = attempt[k].marker /\ attempt[k].objects \subseteq a.objects
Marked(k, a) ==
    /\ collection.fence > 0 /\ a.objects = attempt[k].objects
    /\ a.marker = "whole" \/ attempt[k].marker = "none"
Erases(k, a) ==
    /\ collection.fence > 0 /\ attempt[k].marker = "whole" /\ a.marker = "whole"
    /\ a.objects \subseteq attempt[k].objects

\* Every step that changes an attempt is one of the three, and leaves the catalog alone.
LEMMA AttemptMoves ==
    ASSUME SubmissionInvariant, [Next]_vars
    PROVE  \/ UNCHANGED attempt
           \/ /\ UNCHANGED catalog
              /\ \E k \in Keys : /\ \A j \in Keys \ {k} : attempt'[j] = attempt[j]
                                 /\ Adds(k, attempt'[k]) \/ Marked(k, attempt'[k]) \/ Erases(k, attempt'[k])
<1> DEFINE Goal ==
      \/ UNCHANGED attempt
      \/ /\ UNCHANGED catalog
         /\ \E k \in Keys : /\ \A j \in Keys \ {k} : attempt'[j] = attempt[j]
                            /\ Adds(k, attempt'[k]) \/ Marked(k, attempt'[k]) \/ Erases(k, attempt'[k])
<1>0. TypeOK /\ collection.fence \in Nat
    BY DEF SubmissionInvariant, TypeOK, CollectionRecord
<1>1. ASSUME NEW u \in Calls, writer[u] = "active", UNCHANGED catalog, NEW os \in SUBSET Objects,
             attempt[call[u].key].objects \subseteq os,
             attempt' = [attempt EXCEPT ![call[u].key] = [@ EXCEPT !.objects = os]]
      PROVE  Goal
    <2>1. call[u].key \in Keys
        BY <1>0 DEF TypeOK, CallRecord
    <2>2. collection.fence = 0
        BY <1>0, <1>1 DEF SubmissionInvariant, Phases
    <2>3. attempt'[call[u].key].marker = attempt[call[u].key].marker /\ attempt'[call[u].key].objects = os
        BY <1>0, <1>1, <2>1 DEF TypeOK, AttemptRecord
    <2>4. Adds(call[u].key, attempt'[call[u].key])
        BY <1>1, <2>2, <2>3 DEF Adds
    <2>5. QED BY <1>0, <1>1, <2>1, <2>4 DEF TypeOK
<1>2. ASSUME NEW c \in Collectors, collector[c].step \in Busy
      PROVE  rowKey(c) \in Keys /\ collection.fence > 0
    <2>1. collection.fence > 0
        BY <1>2 DEF SubmissionInvariant, Phases, Busy
    <2>2. collector[c].row \in allRows
        BY <1>2 DEF SubmissionInvariant, Marks
    <2>3. Rows
        BY <1>0, RowFacts
    <2>4. \A r \in allRows : keyOfRow(r) \in Keys
        BY <2>3 DEF Rows
    <2>5. QED BY <2>1, <2>2, <2>4 DEF rowKey
<1>3. ASSUME NEW u \in Calls, publishAttempt(u) PROVE Goal
    <2>1. writer[u] = "active" /\ UNCHANGED catalog
        BY <1>3 DEF publishAttempt, at, SubmissionInvariant, Writers, WriterOf, Writing
    <2>2. {"bytes", "receipt"} \in SUBSET Objects
        BY DEF Objects
    <2>3. QED BY <1>1, <1>3, <2>1, <2>2 DEF publishAttempt
<1>4. ASSUME NEW u \in Calls, putIntent(u) \/ uploadBytes(u) \/ putReceipt(u) PROVE Goal
    <2>1. writer[u] = "active" /\ UNCHANGED catalog
        BY <1>4 DEF putIntent, uploadBytes, putReceipt, at, SubmissionInvariant, Writers, WriterOf, Writing
    <2>2. \/ UNCHANGED attempt
          \/ \E object \in Objects :
                attempt' = [attempt EXCEPT ![call[u].key] = [@ EXCEPT !.objects = attempt[call[u].key].objects \cup {object}]]
        BY <1>4 DEF putIntent, uploadBytes, putReceipt, put, Objects
    <2>3. attempt[call[u].key].objects \in SUBSET Objects
        BY <1>0 DEF TypeOK, CallRecord, AttemptRecord
    <2>4. \A object \in Objects : attempt[call[u].key].objects \cup {object} \in SUBSET Objects
        BY <2>3
    <2>5. QED BY <1>1, <2>1, <2>2, <2>4
<1>5. ASSUME NEW u \in Calls, landsLate(u) PROVE Goal
    <2>1. writer[u] = "active" /\ UNCHANGED catalog
        BY <1>5 DEF landsLate, SubmissionInvariant, Writers, WriterOf
    <2>2. attempt[call[u].key].objects \cup late[u] \in SUBSET Objects
        BY <1>0 DEF TypeOK, CallRecord, AttemptRecord
    <2>3. QED BY <1>1, <1>5, <2>1, <2>2 DEF landsLate
<1>6. ASSUME NEW c \in Collectors, createMarker(c) \/ fillMarker(c) \/ putMarker(c) PROVE Goal
    <2>1. rowKey(c) \in Keys /\ collection.fence > 0 /\ UNCHANGED catalog
        BY <1>2, <1>6 DEF createMarker, fillMarker, putMarker, in, Busy
    <2>2. CASE UNCHANGED attempt
        BY <2>2
    <2>3. ASSUME NEW m, setMarker(c, m), m = "whole" \/ attempt[rowKey(c)].marker = "none" PROVE Goal
        <3>1. /\ attempt'[rowKey(c)].objects = attempt[rowKey(c)].objects /\ attempt'[rowKey(c)].marker = m
              /\ \A j \in Keys \ {rowKey(c)} : attempt'[j] = attempt[j]
            BY <1>0, <2>1, <2>3 DEF setMarker, TypeOK, AttemptRecord
        <3>2. Marked(rowKey(c), attempt'[rowKey(c)])
            BY <2>1, <2>3, <3>1 DEF Marked
        <3>3. QED BY <2>1, <3>1, <3>2
    <2>4. QED BY <1>6, <2>2, <2>3 DEF createMarker, fillMarker, putMarker
<1>7. ASSUME NEW c \in Collectors, eraseLocal(c) \/ eraseObjects(c) PROVE Goal
    <2>1. rowKey(c) \in Keys /\ collection.fence > 0 /\ UNCHANGED catalog
        BY <1>2, <1>7 DEF eraseLocal, eraseObjects, in, Busy
    <2>2. attempt[rowKey(c)].marker = "whole"
        BY <1>7 DEF eraseLocal, eraseObjects, in, SubmissionInvariant, Marks
    <2>3. PICK os : /\ os \subseteq attempt[rowKey(c)].objects
                    /\ attempt' = [attempt EXCEPT ![rowKey(c)] = [@ EXCEPT !.objects = os]]
        BY <1>7 DEF eraseLocal, eraseObjects
    <2>4. /\ attempt'[rowKey(c)].objects = os /\ attempt'[rowKey(c)].marker = attempt[rowKey(c)].marker
          /\ \A j \in Keys \ {rowKey(c)} : attempt'[j] = attempt[j]
        BY <1>0, <2>1, <2>3 DEF TypeOK, AttemptRecord
    <2>5. Erases(rowKey(c), attempt'[rowKey(c)])
        BY <2>1, <2>2, <2>3, <2>4 DEF Erases
    <2>6. QED BY <2>1, <2>4, <2>5
<1>8. CASE UNCHANGED attempt
    BY <1>8
<1>9. ASSUME NEW u \in Calls,
             \/ beginSubmissionWrite(u) \/ stageAttempt(u) \/ required(u) \/ registerUploadReceipt(u)
             \/ finishSubmissionWrite(u) \/ replayReceipt(u) \/ verifyReceipt(u) \/ readCollectionMarker(u)
             \/ callFails(u) \/ callDies(u) \/ \E k \in Keys : writeFile(u, k)
      PROVE  UNCHANGED attempt
    BY <1>9 DEF beginSubmissionWrite, stageAttempt, required, registerUploadReceipt, finishSubmissionWrite, replayReceipt,
                verifyReceipt, readCollectionMarker, callFails, callDies, writeFile, bytes
<1>10. ASSUME NEW c \in Collectors,
              \/ claimSubmissionCollection(c) \/ listSubmissionCollectionAttempts(c) \/ readMarker(c) \/ removeStaging(c)
              \/ recordSubmissionCollectionProgress(c) \/ completeSubmissionCollection(c) \/ collectorRestarts(c)
       PROVE  UNCHANGED attempt
    BY <1>10 DEF claimSubmissionCollection, listSubmissionCollectionAttempts, readMarker, removeStaging,
                 recordSubmissionCollectionProgress, completeSubmissionCollection, collectorRestarts, bytes
<1>11. CASE \/ createSubmission \/ submissionLapses \/ claimFinalization \/ runEnds \/ expireSubmission
            \/ verifySelected \/ sealSubmission \/ permitLapses \/ UNCHANGED vars
            \/ \E selected \in SUBSET Keys : seal(selected)
    <2>1. UNCHANGED attempt
        BY <1>11 DEF createSubmission, submissionLapses, claimFinalization, runEnds, expireSubmission, verifySelected,
                     sealSubmission, permitLapses, seal, vars, bytes
    <2>2. QED BY <2>1
<1>12. QED BY <1>3, <1>4, <1>5, <1>6, <1>7, <1>8, <1>9, <1>10, <1>11 DEF Next, callStep, collectorStep

\* What may become of a collector: nothing, a step without a row, a new row, or the next step on its row,
\* which it takes towards erasing only with the marker written, and towards the record with nothing left.
CollectorMove(c) ==
    \/ collector'[c] = collector[c]
    \/ collector'[c].step \in {"idle", "list", "complete"}
    \/ collector'[c].step = "look" /\ collector'[c].row \in allRows
    \/ /\ collector[c].step \in Busy /\ collector'[c].row = collector[c].row
       /\ \/ collector'[c].step \in {"mark", "fill"}
          \/ collector'[c].step = "erase" /\ attempt'[rowKey(c)].marker = "whole"
          \/ collector'[c].step \in {"staging", "record"} /\ attempt'[rowKey(c)].objects = {}

\* The three forms of a collector's move.
LEMMA MoveOfCollector ==
    ASSUME TypeOK, NEW c \in Collectors
    PROVE  /\ \A step : proceed(c, step) =>
                /\ collector'[c].step = step /\ collector'[c].row = collector[c].row
                /\ \A d \in Collectors : d # c => collector'[d] = collector[d]
           /\ abandon(c) =>
                /\ collector'[c].step = "idle"
                /\ \A d \in Collectors : d # c => collector'[d] = collector[d]
           /\ \A n \in Nat : turnTo(c, rowsAfter(n)) =>
                /\ \/ collector'[c].step = "complete"
                   \/ collector'[c].step = "look" /\ collector'[c].row \in allRows
                /\ \A d \in Collectors : d # c => collector'[d] = collector[d]
<1>1. ASSUME NEW step, proceed(c, step)
      PROVE  /\ collector'[c].step = step /\ collector'[c].row = collector[c].row
             /\ \A d \in Collectors : d # c => collector'[d] = collector[d]
    BY <1>1 DEF proceed, TypeOK, CollectorRecord
<1>2. ASSUME abandon(c)
      PROVE  /\ collector'[c].step = "idle"
             /\ \A d \in Collectors : d # c => collector'[d] = collector[d]
    BY <1>2 DEF abandon, IdleCollector, TypeOK, CollectorRecord
<1>3. ASSUME NEW n \in Nat, turnTo(c, rowsAfter(n))
      PROVE  /\ \/ collector'[c].step = "complete"
                \/ collector'[c].step = "look" /\ collector'[c].row \in allRows
             /\ \A d \in Collectors : d # c => collector'[d] = collector[d]
    <2>1. CASE proceed(c, "complete")
        BY <1>1, <2>1
    <2>2. ASSUME NEW r \in rowsAfter(n), collector' = [collector EXCEPT ![c] = [@ EXCEPT !.step = "look", !.row = r]]
          PROVE  /\ collector'[c].step = "look" /\ collector'[c].row = r
                 /\ \A d \in Collectors : d # c => collector'[d] = collector[d]
        BY <2>2 DEF TypeOK, CollectorRecord
    <2>3. rowsAfter(n) \subseteq allRows
        BY RowFacts DEF Rows
    <2>4. QED BY <1>3, <2>1, <2>2, <2>3 DEF turnTo
<1>4. QED BY <1>1, <1>2, <1>3

\* Every step moves every collector in such a way.
LEMMA CollectorMoves ==
    ASSUME SubmissionInvariant, [Next]_vars, NEW d \in Collectors
    PROVE  CollectorMove(d)
<1>0. TypeOK /\ collection.cursor \in Nat /\ \A c \in Collectors : collector[c].row \in Nat
    BY DEF SubmissionInvariant, TypeOK, CollectionRecord, CollectorRecord
<1>1. CASE UNCHANGED collector
    BY <1>1 DEF CollectorMove
<1>2. ASSUME NEW c \in Collectors,
             \/ claimSubmissionCollection(c) \/ listSubmissionCollectionAttempts(c)
             \/ recordSubmissionCollectionProgress(c) \/ completeSubmissionCollection(c) \/ collectorRestarts(c)
      PROVE  CollectorMove(d)
    <2>1. CASE claimSubmissionCollection(c)
        <3>1. collector'[c].step = "list" /\ \A e \in Collectors : e # c => collector'[e] = collector[e]
            BY <1>0, <2>1 DEF claimSubmissionCollection, IdleCollector, TypeOK
        <3>2. QED BY <3>1 DEF CollectorMove
    <2>2. CASE abandon(c)
        BY <1>0, <2>2, MoveOfCollector DEF CollectorMove
    <2>3. ASSUME NEW n \in Nat, turnTo(c, rowsAfter(n)) PROVE CollectorMove(d)
        BY <1>0, <2>3, MoveOfCollector DEF CollectorMove
    <2>4. QED BY <1>0, <1>2, <2>1, <2>2, <2>3
              DEF listSubmissionCollectionAttempts, recordSubmissionCollectionProgress, completeSubmissionCollection,
                  collectorRestarts
<1>3. ASSUME NEW c \in Collectors, collector[c].step \in Busy,
             \/ abandon(c) \/ proceed(c, "mark") \/ proceed(c, "fill")
             \/ proceed(c, "erase") /\ attempt'[rowKey(c)].marker = "whole"
             \/ proceed(c, "staging") /\ attempt'[rowKey(c)].objects = {}
             \/ proceed(c, "record") /\ attempt'[rowKey(c)].objects = {}
      PROVE  CollectorMove(d)
    <2>1. \A e \in Collectors : e # c => collector'[e] = collector[e]
        BY <1>0, <1>3, MoveOfCollector
    <2>2. CASE d = c
        BY <1>0, <1>3, <2>2, MoveOfCollector DEF CollectorMove
    <2>3. QED BY <2>1, <2>2 DEF CollectorMove
<1>4. ASSUME NEW c \in Collectors, collector[c].step \in Busy PROVE rowKey(c) \in Keys
    <2>1. collector[c].row \in allRows
        BY <1>4 DEF SubmissionInvariant, Marks
    <2>2. QED BY <1>0, <2>1, RowFacts DEF Rows, rowKey
<1>5. ASSUME NEW c \in Collectors, readMarker(c) PROVE CollectorMove(d)
    <2>1. collector[c].step \in Busy /\ UNCHANGED attempt
        BY <1>5 DEF readMarker, in, Busy, bytes
    <2>2. abandon(c) \/ proceed(c, "mark") \/ (proceed(c, "erase") /\ attempt'[rowKey(c)].marker = "whole")
        BY <1>5, <2>1 DEF readMarker, authorize
    <2>3. QED BY <1>3, <2>1, <2>2
<1>6. ASSUME NEW c \in Collectors, createMarker(c) PROVE CollectorMove(d)
    <2>1. collector[c].step \in Busy /\ (abandon(c) \/ proceed(c, "fill"))
        BY <1>6 DEF createMarker, in, Busy
    <2>2. QED BY <1>3, <2>1
<1>7. ASSUME NEW c \in Collectors, fillMarker(c) \/ putMarker(c) PROVE CollectorMove(d)
    <2>1. collector[c].step \in Busy /\ setMarker(c, "whole") /\ (abandon(c) \/ proceed(c, "erase"))
        BY <1>7 DEF fillMarker, putMarker, authorize, in, Busy
    <2>2. attempt'[rowKey(c)].marker = "whole"
        BY <1>0, <1>4, <2>1 DEF setMarker, TypeOK, AttemptRecord
    <2>3. QED BY <1>3, <2>1, <2>2
<1>8. ASSUME NEW c \in Collectors, eraseLocal(c) PROVE CollectorMove(d)
    <2>1. /\ collector[c].step \in Busy /\ rowKey(c) \in Keys /\ attempt[rowKey(c)].marker = "whole"
        BY <1>4, <1>8 DEF eraseLocal, in, Busy, SubmissionInvariant, Marks
    <2>2. PICK gone : /\ attempt' = [attempt EXCEPT ![rowKey(c)] = [@ EXCEPT !.objects = attempt[rowKey(c)].objects \ gone]]
                      /\ \/ authorize(c, "erase")
                         \/ /\ attempt[rowKey(c)].objects \subseteq gone
                            /\ proceed(c, "record") \/ authorize(c, "staging")
        BY <1>8 DEF eraseLocal
    <2>3. /\ attempt'[rowKey(c)].objects = attempt[rowKey(c)].objects \ gone
          /\ attempt'[rowKey(c)].marker = "whole"
        BY <1>0, <2>1, <2>2 DEF TypeOK, AttemptRecord
    <2>4. \/ abandon(c) \/ proceed(c, "erase")
          \/ attempt'[rowKey(c)].objects = {} /\ (proceed(c, "record") \/ proceed(c, "staging"))
        BY <2>2, <2>3 DEF authorize
    <2>5. QED BY <1>3, <2>1, <2>3, <2>4
<1>9. ASSUME NEW c \in Collectors, eraseObjects(c) PROVE CollectorMove(d)
    <2>1. collector[c].step \in Busy /\ rowKey(c) \in Keys
        BY <1>4, <1>9 DEF eraseObjects, in, Busy
    <2>2. PICK left : /\ attempt' = [attempt EXCEPT ![rowKey(c)] = [@ EXCEPT !.objects = left]]
                      /\ IF left = {} THEN proceed(c, "record") ELSE abandon(c)
        BY <1>9 DEF eraseObjects
    <2>3. attempt'[rowKey(c)].objects = left
        BY <1>0, <2>1, <2>2 DEF TypeOK, AttemptRecord
    <2>4. QED BY <1>3, <2>1, <2>2, <2>3
<1>10. ASSUME NEW c \in Collectors, removeStaging(c) PROVE CollectorMove(d)
    <2>1. collector[c].step \in Busy /\ UNCHANGED attempt /\ proceed(c, "record")
        BY <1>10 DEF removeStaging, in, Busy
    <2>2. attempt'[rowKey(c)].objects = {}
        BY <1>10, <2>1 DEF removeStaging, in, SubmissionInvariant, Erased
    <2>3. QED BY <1>3, <2>1, <2>2
<1>11. ASSUME NEW u \in Calls,
              callStep(u) \/ callFails(u) \/ callDies(u) \/ landsLate(u) \/ \E k \in Keys : writeFile(u, k)
       PROVE  UNCHANGED collector
    BY <1>11 DEF callStep, callFails, callDies, landsLate, writeFile, beginSubmissionWrite, stageAttempt, publishAttempt,
                 putIntent, uploadBytes, putReceipt, required, registerUploadReceipt, finishSubmissionWrite,
                 replayReceipt, verifyReceipt, readCollectionMarker
<1>12. CASE \/ createSubmission \/ submissionLapses \/ claimFinalization \/ runEnds \/ expireSubmission
            \/ verifySelected \/ sealSubmission \/ permitLapses \/ UNCHANGED vars
            \/ \E selected \in SUBSET Keys : seal(selected)
    <2>1. UNCHANGED collector
        BY <1>12 DEF createSubmission, submissionLapses, claimFinalization, runEnds, expireSubmission, verifySelected,
                     sealSubmission, permitLapses, seal, vars
    <2>2. QED BY <1>1, <2>1
<1>13. QED BY <1>1, <1>2, <1>5, <1>6, <1>7, <1>8, <1>9, <1>10, <1>11, <1>12 DEF Next, collectorStep

-----------------------------------------------------------------------------
(* The invariant is inductive *)

\* The initial state satisfies the invariant.
LEMMA InvariantInit == ASSUME Init PROVE SubmissionInvariant
<1>1. TypeOK /\ Rows
    BY TypeInit, RowFacts
<1>2. /\ \A u \in Calls : /\ writer[u] = "none" /\ late[u] = {} /\ call[u].step = "idle" /\ call[u].answer = "none"
      /\ \A k \in Keys : attempt[k].objects = {} /\ attempt[k].marker = "none"
      /\ \A c \in Collectors : collector[c].step = "idle"
    BY DEF Init, IdleCollector
<1>3. Phases
    BY <1>2 DEF Init, Phases
<1>4. Writers /\ Owners /\ Marks
    BY <1>2 DEF Init, Writers, WriterOf, Writing, Owners, Marks, Busy
<1>5. Sealing
    BY DEF Init, Sealing, NoSeal
<1>6. Erased
    <2>1. collection.cursor = 0 /\ ~collection.collected
        BY DEF Init
    <2>2. \A r \in allRows : ~(r <= collection.cursor)
        BY <1>1, <2>1 DEF Rows
    <2>3. QED BY <1>2, <2>1, <2>2 DEF Erased
<1>7. Replays
    BY <1>2 DEF Init, Replays, ReplayIsAnswered
<1>8. QED BY <1>1, <1>3, <1>4, <1>5, <1>6, <1>7 DEF SubmissionInvariant

\* A permit is claimed only from an ended submission without active writers, and keeps both facts.
LEMMA PhasesStep == ASSUME SubmissionInvariant, [Next]_vars PROVE Phases'
<1>0. /\ TypeOK /\ Phases /\ collection.fence \in Nat
      /\ submission \in SubmissionRecord /\ collection \in CollectionRecord
    BY DEF SubmissionInvariant, TypeOK, CollectionRecord
<1>1. CASE UNCHANGED <<run, submission, writer, collection, collector>>
    BY <1>0, <1>1 DEF Phases
<1>2. CASE createSubmission \/ submissionLapses \/ claimFinalization \/ runEnds \/ expireSubmission
    BY <1>0, <1>2 DEF createSubmission, submissionLapses, claimFinalization, runEnds, expireSubmission, Phases,
                      SubmissionRecord, CollectionRecord
<1>3. CASE sealSubmission
    BY <1>0, <1>3 DEF sealSubmission, writableSubmission, Phases, SubmissionRecord
<1>4. ASSUME NEW u \in Calls, beginSubmissionWrite(u) PROVE Phases'
    BY <1>0, <1>4 DEF beginSubmissionWrite, mayBegin, Phases, TypeOK
<1>5. ASSUME NEW u \in Calls, finishSubmissionWrite(u) PROVE Phases'
    BY <1>0, <1>5 DEF finishSubmissionWrite, Phases, TypeOK
<1>6. ASSUME NEW u \in Calls, registerUploadReceipt(u) PROVE Phases'
    <2>1. UNCHANGED <<run, writer, collection, collector>>
        BY <1>6 DEF registerUploadReceipt
    <2>2. \/ UNCHANGED submission
          \/ /\ submission.state = "uploading" /\ submission'.state = "uploading"
        BY <1>0, <1>6 DEF registerUploadReceipt, writableSubmission, SubmissionRecord
    <2>3. QED BY <1>0, <2>1, <2>2 DEF Phases
<1>7. ASSUME NEW c \in Collectors, claimSubmissionCollection(c) PROVE Phases'
    <2>1. PICK version : /\ submission' = [submission EXCEPT !.state = "expired", !.version = version]
                         /\ collection' = [collection EXCEPT !.fence = collection.fence + (IF collection.live THEN 0 ELSE 1),
                                                             !.live = TRUE, !.version = version]
        BY <1>7 DEF claimSubmissionCollection
    <2>2. /\ submission'.state = "expired" /\ submission'.version = version /\ collection'.version = version
          /\ collection'.fence = collection.fence + (IF collection.live THEN 0 ELSE 1)
        BY <1>0, <2>1 DEF SubmissionRecord, CollectionRecord
    <2>3. collection'.fence > 0
        BY <1>0, <2>2 DEF Phases, CollectionRecord
    <2>4. /\ run' # "finalizing" /\ \A u \in Calls : writer'[u] # "active"
        BY <1>7 DEF claimSubmissionCollection, submissionCollectable
    <2>5. QED BY <2>2, <2>3, <2>4 DEF Phases
<1>8. CASE permitLapses
    BY <1>0, <1>8 DEF permitLapses, Phases, CollectionRecord
<1>9. ASSUME NEW c \in Collectors, collectorStep(c) \/ collectorRestarts(c) PROVE Phases'
    <2>1. UNCHANGED <<run, submission, writer>> /\ collection.fence > 0
        BY <1>0, <1>9 DEF collectorStep, collectorRestarts, listSubmissionCollectionAttempts, readMarker, createMarker,
                     fillMarker, putMarker, eraseLocal, eraseObjects, removeStaging,
                     recordSubmissionCollectionProgress, completeSubmissionCollection, catalog, in, Phases
    <2>2. \/ UNCHANGED collection
          \/ \E n : collection' = [collection EXCEPT !.cursor = n]
          \/ \E b : collection' = [collection EXCEPT !.collected = b]
        BY <1>9 DEF collectorStep, collectorRestarts, listSubmissionCollectionAttempts, readMarker, createMarker,
                    fillMarker, putMarker, eraseLocal, eraseObjects, removeStaging,
                    recordSubmissionCollectionProgress, completeSubmissionCollection, catalog
    <2>3. collection'.fence = collection.fence /\ collection'.version = collection.version
        BY <1>0, <2>2 DEF CollectionRecord
    <2>4. QED BY <1>0, <2>1, <2>3 DEF Phases
<1>10. ASSUME NEW u \in Calls,
              \/ stageAttempt(u) \/ publishAttempt(u) \/ putIntent(u) \/ uploadBytes(u) \/ putReceipt(u) \/ required(u)
              \/ replayReceipt(u) \/ verifyReceipt(u) \/ readCollectionMarker(u) \/ callFails(u) \/ callDies(u)
              \/ landsLate(u) \/ \E k \in Keys : writeFile(u, k)
       PROVE  UNCHANGED <<run, submission, writer, collection, collector>>
    BY <1>10 DEF stageAttempt, publishAttempt, putIntent, uploadBytes, putReceipt, required, replayReceipt, verifyReceipt,
                 readCollectionMarker, callFails, callDies, landsLate, writeFile, catalog
<1>11. CASE UNCHANGED vars \/ verifySelected \/ \E selected \in SUBSET Keys : seal(selected)
    <2>1. UNCHANGED <<run, submission, writer, collection, collector>>
        BY <1>11 DEF vars, verifySelected, seal, catalog
    <2>2. QED BY <1>1, <2>1
<1>12. QED BY <1>1, <1>2, <1>3, <1>4, <1>5, <1>6, <1>7, <1>8, <1>9, <1>10, <1>11 DEF Next, callStep

\* What calls add stays until the first permit, and nothing but a marked attempt loses an object.
LEMMA ObjectsStay ==
    ASSUME SubmissionInvariant, [Next]_vars, NEW k \in Keys
    PROVE  /\ collection.fence = 0 => attempt[k].objects \subseteq attempt'[k].objects
           /\ collection.fence > 0 => attempt'[k].objects \subseteq attempt[k].objects
           /\ collection.fence = 0 => attempt'[k].marker = attempt[k].marker
           /\ attempt[k].marker = "whole" => attempt'[k].marker = "whole"
           /\ \/ attempt[k].objects \subseteq attempt'[k].objects
              \/ collection'.fence > 0 /\ attempt[k].marker = "whole"
           /\ \/ attempt'[k].objects = {} \/ attempt[k].objects # {}
              \/ \E u \in Calls : writer[u] = "active" /\ call[u].key = k
<1>0. TypeOK /\ collection.fence \in Nat
    BY DEF SubmissionInvariant, TypeOK, CollectionRecord
<1>1. CASE UNCHANGED attempt
    BY <1>1
<1>2. CASE attempt'[k] = attempt[k]
    BY <1>2
<1>3. CASE UNCHANGED catalog /\ Adds(k, attempt'[k])
    BY <1>0, <1>3 DEF Adds, catalog
<1>4. CASE UNCHANGED catalog /\ Marked(k, attempt'[k])
    BY <1>0, <1>4 DEF Marked, catalog
<1>5. CASE UNCHANGED catalog /\ Erases(k, attempt'[k])
    BY <1>0, <1>5 DEF Erases, catalog
<1>6. QED BY <1>1, <1>2, <1>3, <1>4, <1>5, AttemptMoves

\* Objects that a step leaves have a writer record, old or of the call that adds them.
LEMMA OwnersStep == ASSUME SubmissionInvariant, [Next]_vars PROVE Owners'
<1> SUFFICES ASSUME NEW k \in Keys, attempt'[k].objects # {}
             PROVE  \E u \in Calls : writer'[u] # "none" /\ call'[u].key = k
    BY DEF Owners
<1>1. PICK u \in Calls : writer[u] # "none" /\ call[u].key = k
    BY ObjectsStay DEF SubmissionInvariant, Owners
<1>2. writer'[u] # "none" /\ call'[u].key = call[u].key
    BY <1>1, CatalogGrows
<1>3. QED BY <1>1, <1>2

\* A collector erases an attempt only after its marker is whole, and markers are never unmade.
LEMMA MarksStep == ASSUME SubmissionInvariant, [Next]_vars PROVE Marks'
<1>0. TypeOK /\ Marks /\ collection.fence \in Nat /\ collection'.fence \in Nat
    BY TypeStep DEF SubmissionInvariant, TypeOK, CollectionRecord
<1>1. collection'.fence = 0 => \A k \in Keys : attempt'[k].marker = "none"
    <2>1. collection'.fence = 0 => collection.fence = 0
        BY <1>0, CatalogGrows
    <2>2. QED BY <1>0, <2>1, ObjectsStay DEF Marks
<1>2. ASSUME NEW c \in Collectors, collector'[c].step \in Busy PROVE collector'[c].row \in allRows'
    <2>1. collector'[c].row \in allRows
        BY <1>0, <1>2, CollectorMoves DEF CollectorMove, Marks, Busy
    <2>2. QED BY <2>1, RowsStay
<1>3. ASSUME NEW c \in Collectors, collector'[c].step = "erase" PROVE attempt'[rowKey(c)'].marker = "whole"
    <2>1. collector'[c].row = collector[c].row /\ collector[c].row \in allRows
        BY <1>0, <1>3, CollectorMoves DEF CollectorMove, Marks, Busy
    <2>2. rowKey(c)' = rowKey(c)
        BY <2>1, RowsStay DEF rowKey
    <2>3. CASE attempt'[rowKey(c)].marker = "whole"
        BY <2>2, <2>3
    <2>4. CASE collector'[c] = collector[c]
        <3>1. attempt[rowKey(c)].marker = "whole"
            BY <1>0, <1>3, <2>4 DEF Marks
        <3>2. rowKey(c) \in Keys
            BY <1>0, <2>1, RowFacts DEF Rows, rowKey
        <3>3. QED BY <2>2, <3>1, <3>2, ObjectsStay
    <2>5. QED BY <1>3, <2>3, <2>4, CollectorMoves DEF CollectorMove
<1>4. QED BY <1>1, <1>2, <1>3 DEF Marks

\* What the seal verified is still there when it commits, and nothing takes it away from a sealed submission.
LEMMA SealingStep == ASSUME SubmissionInvariant, [Next]_vars PROVE Sealing'
<1>0. /\ TypeOK /\ TypeOK' /\ Phases /\ Sealing /\ collection.fence \in Nat /\ collection'.fence \in Nat
      /\ submission \in SubmissionRecord /\ sealer \in SealRecord
    BY TypeStep DEF SubmissionInvariant, TypeOK, CollectionRecord
<1>1. collection'.fence = 0 => collection.fence = 0
    BY <1>0, CatalogGrows
<1>2. collection.fence = 0 => \A k \in Keys : "bytes" \in attempt[k].objects => "bytes" \in attempt'[k].objects
    BY ObjectsStay
<1>3. sealer.selected \subseteq Keys /\ submission.selected \subseteq Keys /\ sealer.left \subseteq Keys
    BY <1>0 DEF SealRecord, SubmissionRecord
<1>4. CASE /\ UNCHANGED sealer
           /\ submission'.state = "sealed" => submission.state = "sealed" /\ submission'.selected = submission.selected
    <2>1. submission.state = "sealed" => collection.fence = 0
        BY <1>0 DEF Phases
    <2>2. QED BY <1>0, <1>1, <1>2, <1>3, <1>4, <2>1 DEF Sealing
<1>5. ASSUME NEW selected \in SUBSET Keys, seal(selected) PROVE Sealing'
    <2>1. /\ sealer'.step = "verify" /\ sealer'.selected = selected /\ sealer'.left = selected
          /\ submission.state = "uploading" /\ UNCHANGED submission
        BY <1>5 DEF seal, catalog
    <2>2. QED BY <2>1 DEF Sealing
<1>6. CASE verifySelected
    <2>1. UNCHANGED <<submission, attempt, collection>> /\ sealer.step = "verify"
        BY <1>6 DEF verifySelected, catalog, bytes
    <2>2. CASE sealer.left = {} /\ sealer' = [sealer EXCEPT !.step = "seal", !.seen = submission.version]
        <3>1. sealer'.left = {} /\ sealer'.selected = sealer.selected
            BY <1>0, <2>2 DEF SealRecord
        <3>2. QED BY <1>0, <2>1, <2>2, <3>1 DEF Sealing
    <2>3. CASE sealer' = NoSeal
        BY <1>0, <2>1, <2>3 DEF Sealing, NoSeal
    <2>4. ASSUME NEW k \in sealer.left, "bytes" \in attempt[k].objects, sealer' = [sealer EXCEPT !.left = sealer.left \ {k}]
          PROVE  Sealing'
        <3>1. /\ sealer'.left = sealer.left \ {k} /\ sealer'.selected = sealer.selected /\ sealer'.step = "verify"
            BY <1>0, <2>1, <2>4 DEF SealRecord
        <3>2. QED BY <1>0, <2>1, <2>4, <3>1 DEF Sealing
    <2>5. QED BY <1>6, <2>2, <2>3, <2>4 DEF verifySelected
<1>7. CASE sealSubmission
    <2>1. sealer' = NoSeal /\ UNCHANGED <<attempt, collection>> /\ sealer.step = "seal"
        BY <1>7 DEF sealSubmission, bytes
    <2>2. CASE writableSubmission(sealer.seen)
        <3>1. collection.fence = 0
            BY <1>0, <2>2 DEF writableSubmission, Phases
        <3>2. submission'.selected = sealer.selected
            BY <1>0, <1>7, <2>2 DEF sealSubmission, SubmissionRecord
        <3>3. QED BY <1>0, <2>1, <3>1, <3>2 DEF Sealing, NoSeal
    <2>3. CASE UNCHANGED submission
        BY <1>0, <2>1, <2>3 DEF Sealing, NoSeal
    <2>4. QED BY <1>7, <2>2, <2>3 DEF sealSubmission
<1>8. CASE createSubmission \/ submissionLapses \/ claimFinalization \/ runEnds \/ expireSubmission \/ permitLapses
    BY <1>0, <1>4, <1>8 DEF createSubmission, submissionLapses, claimFinalization, runEnds, expireSubmission, permitLapses,
                            SubmissionRecord
<1>9. ASSUME NEW u \in Calls,
             callStep(u) \/ callFails(u) \/ callDies(u) \/ landsLate(u) \/ \E k \in Keys : writeFile(u, k)
      PROVE  Sealing'
    <2>1. CASE registerUploadReceipt(u)
        <3>1. UNCHANGED sealer /\ (UNCHANGED submission \/ submission' = [submission EXCEPT !.version = @ + 1])
            BY <2>1 DEF registerUploadReceipt
        <3>2. submission'.state = submission.state /\ submission'.selected = submission.selected
            BY <1>0, <3>1 DEF SubmissionRecord
        <3>3. QED BY <1>4, <3>1, <3>2
    <2>2. CASE ~registerUploadReceipt(u)
        <3>1. UNCHANGED <<sealer, submission>>
            BY <1>9, <2>2 DEF callStep, callFails, callDies, landsLate, writeFile, beginSubmissionWrite, stageAttempt,
                 publishAttempt, putIntent, uploadBytes, putReceipt, required, finishSubmissionWrite,
                 replayReceipt, verifyReceipt, readCollectionMarker, catalog
        <3>2. QED BY <1>4, <3>1
    <2>3. QED BY <2>1, <2>2
<1>10. ASSUME NEW c \in Collectors, claimSubmissionCollection(c) PROVE Sealing'
    <2>1. UNCHANGED sealer /\ submission'.state = "expired"
        BY <1>0, <1>10 DEF claimSubmissionCollection, SubmissionRecord
    <2>2. QED BY <1>4, <2>1
<1>11. ASSUME NEW c \in Collectors, collectorStep(c) \/ collectorRestarts(c) PROVE Sealing'
    <2>1. UNCHANGED <<sealer, submission>>
        BY <1>11 DEF collectorStep, collectorRestarts, listSubmissionCollectionAttempts, readMarker, createMarker,
                     fillMarker, putMarker, eraseLocal, eraseObjects, removeStaging,
                     recordSubmissionCollectionProgress, completeSubmissionCollection, catalog
    <2>2. QED BY <1>4, <2>1
<1>12. CASE UNCHANGED vars
    BY <1>4, <1>12 DEF vars, catalog
<1>13. QED BY <1>5, <1>6, <1>7, <1>8, <1>9, <1>10, <1>11, <1>12 DEF Next

\* The collection record changes only by a collector's command, or when the permit lapses.
LEMMA CollectionMoves ==
    ASSUME [Next]_vars
    PROVE  \/ UNCHANGED collection \/ permitLapses
           \/ \E c \in Collectors : \/ claimSubmissionCollection(c) \/ recordSubmissionCollectionProgress(c)
                                    \/ completeSubmissionCollection(c)
<1>1. ASSUME NEW u \in Calls,
             callStep(u) \/ callFails(u) \/ callDies(u) \/ landsLate(u) \/ \E k \in Keys : writeFile(u, k)
      PROVE  UNCHANGED collection
    BY <1>1 DEF callStep, callFails, callDies, landsLate, writeFile, beginSubmissionWrite, stageAttempt,
                publishAttempt, putIntent, uploadBytes, putReceipt, required, registerUploadReceipt,
                finishSubmissionWrite, replayReceipt, verifyReceipt, readCollectionMarker, catalog
<1>2. ASSUME NEW c \in Collectors,
             \/ listSubmissionCollectionAttempts(c) \/ readMarker(c) \/ createMarker(c) \/ fillMarker(c)
             \/ putMarker(c) \/ eraseLocal(c) \/ eraseObjects(c) \/ removeStaging(c) \/ collectorRestarts(c)
      PROVE  UNCHANGED collection
    BY <1>2 DEF listSubmissionCollectionAttempts, readMarker, createMarker, fillMarker, putMarker, eraseLocal,
                eraseObjects, removeStaging, collectorRestarts, catalog
<1>3. CASE \/ createSubmission \/ submissionLapses \/ claimFinalization \/ runEnds \/ expireSubmission
           \/ verifySelected \/ sealSubmission \/ UNCHANGED vars \/ \E selected \in SUBSET Keys : seal(selected)
    <2>1. UNCHANGED collection
        BY <1>3 DEF createSubmission, submissionLapses, claimFinalization, runEnds, expireSubmission, verifySelected,
                    sealSubmission, seal, vars, catalog
    <2>2. QED BY <2>1
<1>4. QED BY <1>1, <1>2, <1>3 DEF Next, collectorStep

\* The cursor passes a row when its collector has erased it, and completion finds every row passed;
\* under a permit nothing is added.
LEMMA ErasedStep == ASSUME SubmissionInvariant, [Next]_vars PROVE Erased'
<1>0. /\ TypeOK /\ TypeOK' /\ Phases /\ Phases' /\ Erased /\ Rows /\ Rows' /\ collection \in CollectionRecord
      /\ collection.fence \in Nat /\ collection'.fence \in Nat /\ collection.cursor \in Nat
    BY TypeStep, PhasesStep, RowFacts, NextRowFacts DEF SubmissionInvariant, TypeOK, CollectionRecord
<1>1. \A r \in allRows : collection.fence > 0 /\ attempt[keyOfRow(r)].objects = {} => attempt'[keyOfRow(r)'].objects = {}
    <2>1. \A k \in Keys : collection.fence > 0 /\ attempt[k].objects = {} => attempt'[k].objects = {}
        BY ObjectsStay
    <2>2. QED BY <1>0, <2>1, RowsStay DEF Rows
<1>2. \/ collection'.cursor = collection.cursor
      \/ \E c \in Collectors :
            /\ collector[c].step = "record" /\ collection'.cursor = collector[c].row
            /\ first(collector[c].row, rowsAfter(collection.cursor))
    <2>1. ASSUME NEW c \in Collectors, recordSubmissionCollectionProgress(c)
          PROVE  \/ collection'.cursor = collection.cursor
                 \/ /\ collector[c].step = "record" /\ collection'.cursor = collector[c].row
                    /\ first(collector[c].row, rowsAfter(collection.cursor))
        <3>1. collector[c].row \in Nat
            BY <1>0 DEF TypeOK, CollectorRecord
        <3>2. CASE UNCHANGED collection
            BY <3>2
        <3>3. CASE acknowledges(collector[c].row) /\ collection' = [collection EXCEPT !.cursor =
                            IF collector[c].row > collection.cursor THEN collector[c].row ELSE collection.cursor]
            <4>1. collection'.cursor = IF collector[c].row > collection.cursor THEN collector[c].row ELSE collection.cursor
                BY <1>0, <3>3 DEF CollectionRecord
            <4>2. QED BY <1>0, <2>1, <3>1, <3>3, <4>1 DEF acknowledges, recordSubmissionCollectionProgress, in
        <3>4. QED BY <2>1, <3>2, <3>3 DEF recordSubmissionCollectionProgress
    <2>2. ASSUME NEW c \in Collectors, completeSubmissionCollection(c) \/ claimSubmissionCollection(c)
          PROVE  collection'.cursor = collection.cursor
        BY <1>0, <2>2 DEF completeSubmissionCollection, claimSubmissionCollection, CollectionRecord
    <2>3. CASE permitLapses
        BY <1>0, <2>3 DEF permitLapses, CollectionRecord
    <2>4. QED BY <2>1, <2>2, <2>3, CollectionMoves
<1>3. ASSUME NEW r \in allRows', r <= collection'.cursor PROVE attempt'[keyOfRow(r)'].objects = {}
    <2>1. r \in Nat \ {0}
        BY <1>0 DEF Rows
    <2>2. collection.fence > 0
        BY <1>0, <1>2, <1>3, <2>1 DEF Phases
    <2>3. r \in allRows
        BY <2>2, RowsStay
    <2>4. attempt[keyOfRow(r)].objects = {}
        <3>1. CASE r <= collection.cursor
            BY <1>0, <2>3, <3>1 DEF Erased
        <3>2. CASE ~(r <= collection.cursor)
            <4>1. PICK c \in Collectors : /\ collector[c].step = "record" /\ collection'.cursor = collector[c].row
                                          /\ first(collector[c].row, rowsAfter(collection.cursor))
                BY <1>2, <1>3, <3>2
            <4>2. r \in rowsAfter(collection.cursor)
                BY <1>0, <2>1, <2>3, <3>2 DEF Rows
            <4>3. collector[c].row \in Nat
                BY <1>0 DEF TypeOK, CollectorRecord
            <4>4. r = collector[c].row
                BY <1>3, <2>1, <4>1, <4>2, <4>3 DEF first
            <4>5. QED BY <1>0, <4>1, <4>4 DEF Erased, rowKey
        <3>3. QED BY <3>1, <3>2
    <2>5. QED BY <1>1, <2>2, <2>3, <2>4
<1>4. ASSUME NEW c \in Collectors, collector'[c].step \in {"staging", "record"}
      PROVE  attempt'[rowKey(c)'].objects = {}
    <2>1. collector'[c].row = collector[c].row /\ collector[c].step \in Busy
        BY <1>4, CollectorMoves DEF CollectorMove, Busy
    <2>2. collector[c].row \in allRows /\ collection.fence > 0
        BY <1>0, <2>1 DEF SubmissionInvariant, Marks, Phases, Busy
    <2>3. rowKey(c)' = rowKey(c)
        BY <2>1, <2>2, RowsStay DEF rowKey
    <2>4. CASE attempt'[rowKey(c)].objects = {}
        BY <2>3, <2>4
    <2>5. CASE collector'[c] = collector[c]
        BY <1>0, <1>1, <1>4, <2>2, <2>5 DEF Erased, rowKey
    <2>6. QED BY <1>4, <2>4, <2>5, CollectorMoves DEF CollectorMove
<1>5. ASSUME collection'.collected, NEW k \in Keys PROVE attempt'[k].objects = {}
    <2>1. CASE collection.collected
        <3>1. collection.fence > 0 /\ attempt[k].objects = {}
            BY <1>0, <2>1 DEF Phases, Erased
        <3>2. QED BY <3>1, ObjectsStay
    <2>2. ASSUME NEW c \in Collectors, completeSubmissionCollection(c), ~collection.collected
          PROVE  attempt'[k].objects = {}
        <3>1. rowsAfter(collection.cursor) = {} /\ UNCHANGED attempt
            BY <1>0, <1>5, <2>2 DEF completeSubmissionCollection, CollectionRecord, bytes
        <3>2. \A r \in allRows : attempt[keyOfRow(r)].objects = {}
            BY <1>0, <3>1 DEF Rows, Erased
        <3>3. \A u \in Calls : writer[u] # "none" => attempt[call[u].key].objects = {}
            <4>1. \A u \in Calls : writer[u] # "none" => MaxKeys + u \in allRows /\ keyOfRow(MaxKeys + u) = call[u].key
                BY <1>0 DEF Rows
            <4>2. QED BY <3>2, <4>1
        <3>4. QED BY <3>1, <3>3 DEF SubmissionInvariant, Owners
    <2>3. CASE collection'.collected = collection.collected
        BY <1>5, <2>1, <2>3
    <2>4. ASSUME NEW c \in Collectors, recordSubmissionCollectionProgress(c) \/ claimSubmissionCollection(c)
          PROVE  collection'.collected = collection.collected
        BY <1>0, <2>4 DEF recordSubmissionCollectionProgress, claimSubmissionCollection, CollectionRecord
    <2>5. CASE permitLapses
        BY <1>0, <2>3, <2>5 DEF permitLapses, CollectionRecord
    <2>6. QED BY <2>1, <2>2, <2>3, <2>4, <2>5, CollectionMoves
<1>6. QED BY <1>3, <1>4, <1>5 DEF Erased

\* A deployment has one kind of store.
LEMMA StoreStays == ASSUME [Next]_vars PROVE UNCHANGED store
BY DEF Next, vars, createSubmission, submissionLapses, claimFinalization, runEnds, expireSubmission, verifySelected,
       sealSubmission, permitLapses, seal, callStep, callFails, callDies, landsLate, writeFile, beginSubmissionWrite,
       stageAttempt, publishAttempt, putIntent, uploadBytes, putReceipt, required, registerUploadReceipt,
       finishSubmissionWrite, replayReceipt, verifyReceipt, readCollectionMarker, claimSubmissionCollection, collectorStep,
       collectorRestarts, listSubmissionCollectionAttempts, readMarker, createMarker, fillMarker, putMarker, eraseLocal,
       eraseObjects, removeStaging, recordSubmissionCollectionProgress, completeSubmissionCollection

\* A step keeps what holds of a call and its writer record when it changes neither.
LEMMA WriterStays ==
    ASSUME SubmissionInvariant, [Next]_vars, NEW v \in Calls,
           call'[v] = call[v], late'[v] = late[v], writer'[v] = writer[v], v \in staging' => v \in staging
    PROVE  WriterOf(v)'
<1>1. WriterOf(v) /\ Phases /\ call[v].key \in Keys /\ collection.fence \in Nat
    BY DEF SubmissionInvariant, Writers, TypeOK, CallRecord, CollectionRecord
<1>2. call[v].step \in {"receipt", "required", "register"} => "bytes" \in attempt'[call[v].key].objects
    <2>1. call[v].step \in {"receipt", "required", "register"} => collection.fence = 0
        BY <1>1 DEF WriterOf, Writing, Phases
    <2>2. QED BY <1>1, <2>1, ObjectsStay DEF WriterOf
<1>3. QED BY <1>1, <1>2, StoreStays DEF WriterOf

\* The record of a call's writer opens before the call stores anything and closes after it can store no more.
LEMMA WritersStep == ASSUME SubmissionInvariant, [Next]_vars PROVE Writers'
<1> SUFFICES ASSUME NEW v \in Calls PROVE WriterOf(v)'
    BY DEF Writers
<1>0. TypeOK /\ WriterOf(v) /\ call[v].key \in Keys
    BY DEF SubmissionInvariant, Writers, TypeOK, CallRecord
<1>1. CASE UNCHANGED <<call, late, writer, staging>>
    BY <1>1, WriterStays
<1>2. ASSUME NEW u \in Calls, beginSubmissionWrite(u) PROVE WriterOf(v)'
    <2>1. CASE u # v
        BY <1>0, <1>2, <2>1, MoveEffect, WriterStays DEF beginSubmissionWrite, TypeOK, bytes
    <2>2. CASE u = v
        <3>1. /\ late'[v] = {} /\ v \notin staging'
              /\ \/ writer'[v] = "active" /\ call'[v].step = "store"
                 \/ writer'[v] = writer[v] /\ call'[v].step = "over"
            BY <1>0, <1>2, <2>2, MoveEffect DEF beginSubmissionWrite, WriterOf, at, TypeOK, bytes
        <3>2. QED BY <1>0, <3>1 DEF WriterOf, Writing
    <2>3. QED BY <2>1, <2>2
<1>3. ASSUME NEW u \in Calls, finishSubmissionWrite(u) PROVE WriterOf(v)'
    <2>1. CASE u # v
        BY <1>0, <1>3, <2>1, MoveEffect, WriterStays DEF finishSubmissionWrite, TypeOK, bytes
    <2>2. CASE u = v
        <3>1. /\ UNCHANGED late /\ v \notin staging' /\ call'[v].step = "over"
              /\ late[v] # {} => writer'[v] = writer[v] /\ writer[v] = "active"
            BY <1>0, <1>3, <2>2, MoveEffect DEF finishSubmissionWrite, WriterOf, at, TypeOK, bytes
        <3>2. QED BY <3>1 DEF WriterOf, Writing
    <2>3. QED BY <2>1, <2>2
<1>4. ASSUME NEW u \in Calls, required(u) \/ registerUploadReceipt(u) PROVE WriterOf(v)'
    <2>1. UNCHANGED <<late, staging, writer, attempt>>
        BY <1>4 DEF required, registerUploadReceipt, catalog, bytes
    <2>2. CASE u # v
        <3>1. call'[v] = call[v]
            BY <1>0, <1>4, <2>2 DEF required, registerUploadReceipt, TypeOK
        <3>2. QED BY <2>1, <3>1, WriterStays
    <2>3. CASE u = v
        <3>1. /\ call[v].step \in {"required", "register"} /\ call'[v].step \in {"required", "register", "finish"}
              /\ call'[v].key = call[v].key
            <4>1. CASE required(u)
                BY <1>0, <2>3, <4>1 DEF required, at, TypeOK, CallRecord
            <4>2. CASE registerUploadReceipt(u)
                BY <1>0, <2>3, <4>2 DEF registerUploadReceipt, at, TypeOK, CallRecord
            <4>3. QED BY <1>4, <4>1, <4>2
        <3>2. QED BY <1>0, <2>1, <3>1 DEF WriterOf, Writing
    <2>4. QED BY <2>2, <2>3
<1>5. ASSUME NEW u \in Calls, callFails(u) \/ callDies(u) PROVE WriterOf(v)'
    <2>1. UNCHANGED <<late, writer>>
        BY <1>5 DEF callFails, callDies, catalog, bytes
    <2>2. CASE u # v
        BY <1>0, <1>5, <2>1, <2>2, MoveEffect, WriterStays DEF callFails, callDies, bytes
    <2>3. CASE u = v /\ callFails(u)
        <3>1. call'[v].step = "finish" /\ late[v] = {} /\ writer[v] = "active" /\ v \notin staging'
            BY <1>0, <2>3, MoveEffect DEF callFails, WriterOf, Writing
        <3>2. QED BY <2>1, <3>1 DEF WriterOf, Writing
    <2>4. CASE u = v /\ callDies(u)
        <3>1. call'[v].step = "over" /\ UNCHANGED staging
            BY <1>0, <2>4, MoveEffect DEF callDies, bytes
        <3>2. QED BY <1>0, <2>1, <3>1, StoreStays DEF WriterOf, Writing
    <2>5. QED BY <1>5, <2>2, <2>3, <2>4
<1>6. ASSUME NEW u \in Calls, replayReceipt(u) \/ verifyReceipt(u) \/ readCollectionMarker(u) PROVE WriterOf(v)'
    <2>1. UNCHANGED <<late, writer, staging>>
        BY <1>6 DEF replayReceipt, verifyReceipt, readCollectionMarker, catalog, bytes
    <2>2. /\ call[u].step \in {"replay", "verify", "marker"} /\ call'[u].step \in {"verify", "marker", "over"}
          /\ u # v => call'[v] = call[v]
        BY <1>0, <1>6, MoveEffect DEF replayReceipt, verifyReceipt, readCollectionMarker, at
    <2>3. CASE u # v
        BY <2>1, <2>2, <2>3, WriterStays
    <2>4. CASE u = v
        BY <1>0, <2>1, <2>2, <2>4 DEF WriterOf, Writing
    <2>5. QED BY <2>3, <2>4
<1>7. ASSUME NEW u \in Calls, NEW k \in Keys, writeFile(u, k) PROVE WriterOf(v)'
    <2>1. UNCHANGED <<late, writer, staging>>
        BY <1>7 DEF writeFile, catalog, bytes
    <2>2. CASE u # v
        <3>1. call'[v] = call[v]
            BY <1>0, <1>7, <2>2 DEF writeFile, TypeOK
        <3>2. QED BY <2>1, <3>1, WriterStays
    <2>3. CASE u = v
        <3>1. call[v].step = "idle" /\ call'[v].step \in {"replay", "begin"}
            BY <1>0, <1>7, <2>3 DEF writeFile, at, TypeOK, CallRecord
        <3>2. QED BY <1>0, <2>1, <3>1 DEF WriterOf, Writing
    <2>4. QED BY <2>2, <2>3
<1>8. ASSUME NEW u \in Calls, stageAttempt(u) \/ publishAttempt(u) PROVE WriterOf(v)'
    <2>1. UNCHANGED <<late, writer>>
        BY <1>8 DEF stageAttempt, publishAttempt, catalog
    <2>2. CASE u # v
        BY <1>0, <1>8, <2>1, <2>2, MoveEffect, WriterStays DEF stageAttempt, publishAttempt
    <2>3. CASE u = v /\ stageAttempt(u)
        <3>1. /\ writer[v] = "active" /\ late[v] = {} /\ UNCHANGED attempt /\ call'[v].key = call[v].key
              /\ \/ call'[v].step = "publish"
                 \/ /\ call'[v].step = "required" /\ v \notin staging'
                    /\ "bytes" \in attempt[call[v].key].objects
            BY <1>0, <2>3, MoveEffect DEF stageAttempt, WriterOf, Writing, at, complete
        <3>2. store' = "local"
            BY <2>3 DEF stageAttempt
        <3>3. QED BY <2>1, <3>1, <3>2 DEF WriterOf, Writing
    <2>4. CASE u = v /\ publishAttempt(u)
        <3>1. writer[v] = "active" /\ late[v] = {} /\ v \notin staging' /\ call'[v].key = call[v].key
            BY <1>0, <2>4, MoveEffect DEF publishAttempt, WriterOf, Writing, at
        <3>2. \/ call'[v].step = "finish"
              \/ call'[v].step = "required" /\ "bytes" \in attempt'[call[v].key].objects
            BY <1>0, <2>4, MoveEffect DEF publishAttempt, complete, TypeOK, AttemptRecord
        <3>3. QED BY <2>1, <3>1, <3>2 DEF WriterOf, Writing
    <2>5. QED BY <1>8, <2>2, <2>3, <2>4
<1>9. ASSUME NEW u \in Calls, putIntent(u) \/ uploadBytes(u) \/ putReceipt(u) PROVE WriterOf(v)'
    <2>1. UNCHANGED <<writer, staging>>
        BY <1>9 DEF putIntent, uploadBytes, putReceipt, catalog
    <2>2. \/ goto(u, "publish") /\ UNCHANGED <<attempt, late>>
          \/ goto(u, "required") /\ UNCHANGED <<attempt, late>> /\ "bytes" \in attempt[call[u].key].objects
          \/ put(u, "intent", "publish") \/ put(u, "bytes", "receipt")
          \/ put(u, "receipt", "required") /\ "bytes" \in attempt[call[u].key].objects
        BY <1>9 DEF putIntent, uploadBytes, putReceipt, complete, at, SubmissionInvariant, Writers, WriterOf
    <2>3. {"publish", "required", "receipt"} \subseteq CallSteps /\ {"intent", "bytes", "receipt"} \subseteq Objects
        BY DEF CallSteps, Objects
    <2>4. CASE u # v
        <3>1. call'[v] = call[v] /\ late'[v] = late[v]
            <4>1. CASE UNCHANGED <<attempt, late>> /\ (goto(u, "publish") \/ goto(u, "required"))
                BY <1>0, <2>4, <4>1, MoveEffect
            <4>2. CASE put(u, "intent", "publish") \/ put(u, "bytes", "receipt") \/ put(u, "receipt", "required")
                BY <1>0, <2>3, <2>4, <4>2, PutEffect
            <4>3. QED BY <2>2, <4>1, <4>2
        <3>2. QED BY <2>1, <3>1, WriterStays
    <2>5. CASE u = v
        <3>1. /\ writer[v] = "active" /\ late[v] = {} /\ v \notin staging
            BY <1>0, <1>9, <2>5 DEF putIntent, uploadBytes, putReceipt, at, WriterOf, Writing
        <3>2. call'[v].key = call[v].key
            BY <1>0, <2>2, <2>3, <2>5, MoveEffect, PutEffect
        <3>3. CASE goto(u, "publish") /\ UNCHANGED <<attempt, late>>
            <4>1. call'[v].step = "publish"
                BY <1>0, <2>5, <3>3, MoveEffect
            <4>2. QED BY <2>1, <3>1, <3>2, <3>3, <4>1 DEF WriterOf, Writing
        <3>4. CASE put(u, "intent", "publish")
            <4>1. (call'[v].step = "publish" /\ UNCHANGED late) \/ (call'[v].step = "finish" /\ call'[v].uncertain)
                BY <1>0, <2>3, <2>5, <3>4, PutEffect
            <4>2. QED BY <2>1, <3>1, <3>2, <4>1 DEF WriterOf, Writing
        <3>5. CASE goto(u, "required") /\ UNCHANGED <<attempt, late>> /\ "bytes" \in attempt[call[u].key].objects
            <4>1. call'[v].step = "required"
                BY <1>0, <2>5, <3>5, MoveEffect
            <4>2. QED BY <2>1, <2>5, <3>1, <3>2, <3>5, <4>1 DEF WriterOf, Writing
        <3>6. CASE put(u, "bytes", "receipt")
            <4>1. \/ /\ UNCHANGED late /\ call'[v].step = "receipt"
                     /\ "bytes" \in attempt'[call[v].key].objects
                  \/ call'[v].step = "finish" /\ call'[v].uncertain
                <5>1. \/ /\ UNCHANGED late /\ call'[u].step = "receipt"
                         /\ attempt' = [attempt EXCEPT ![call[u].key] =
                                          [@ EXCEPT !.objects = attempt[call[u].key].objects \cup {"bytes"}]]
                      \/ call'[u].step = "finish" /\ call'[u].uncertain
                    BY <1>0, <2>3, <3>6, PutEffect
                <5>2. QED BY <1>0, <2>5, <5>1 DEF TypeOK, AttemptRecord
            <4>2. QED BY <2>1, <3>1, <3>2, <4>1 DEF WriterOf, Writing
        <3>7. CASE put(u, "receipt", "required") /\ "bytes" \in attempt[call[u].key].objects
            <4>1. \/ /\ UNCHANGED late /\ call'[v].step = "required"
                     /\ "bytes" \in attempt'[call[v].key].objects
                  \/ call'[v].step = "finish" /\ call'[v].uncertain
                <5>1. \/ /\ UNCHANGED late /\ call'[u].step = "required"
                         /\ attempt' = [attempt EXCEPT ![call[u].key] =
                                          [@ EXCEPT !.objects = attempt[call[u].key].objects \cup {"receipt"}]]
                      \/ call'[u].step = "finish" /\ call'[u].uncertain
                    BY <1>0, <2>3, <3>7, PutEffect
                <5>2. QED BY <1>0, <2>5, <3>7, <5>1 DEF TypeOK, AttemptRecord
            <4>2. QED BY <2>1, <3>1, <3>2, <4>1 DEF WriterOf, Writing
        <3>8. QED BY <2>2, <3>3, <3>4, <3>5, <3>6, <3>7
    <2>6. QED BY <2>4, <2>5
<1>10. ASSUME NEW u \in Calls, landsLate(u) PROVE WriterOf(v)'
    <2>1. UNCHANGED <<writer, staging, call>> /\ \A w \in Calls : w # u => late'[w] = late[w]
        BY <1>0, <1>10 DEF landsLate, catalog, TypeOK
    <2>2. CASE u # v
        BY <2>1, <2>2, WriterStays
    <2>3. CASE u = v
        <3>1. /\ late'[v] = {}
              /\ "bytes" \in attempt[call[v].key].objects => "bytes" \in attempt'[call[v].key].objects
            BY <1>0, <1>10, <2>3 DEF landsLate, TypeOK, AttemptRecord
        <3>2. QED BY <1>0, <2>1, <3>1, StoreStays DEF WriterOf
    <2>4. QED BY <2>2, <2>3
<1>11. ASSUME NEW c \in Collectors, claimSubmissionCollection(c) \/ collectorStep(c) \/ collectorRestarts(c)
       PROVE  UNCHANGED <<call, late, writer>> /\ staging' \subseteq staging
    BY <1>11 DEF claimSubmissionCollection, collectorStep, collectorRestarts, listSubmissionCollectionAttempts, readMarker,
                 createMarker, fillMarker, putMarker, eraseLocal, eraseObjects, removeStaging,
                 recordSubmissionCollectionProgress, completeSubmissionCollection, catalog, bytes
<1>12. CASE \/ createSubmission \/ submissionLapses \/ claimFinalization \/ runEnds \/ expireSubmission
            \/ verifySelected \/ sealSubmission \/ permitLapses \/ UNCHANGED vars
            \/ \E selected \in SUBSET Keys : seal(selected)
    <2>1. UNCHANGED <<call, late, writer, staging>>
        BY <1>12 DEF createSubmission, submissionLapses, claimFinalization, runEnds, expireSubmission, verifySelected,
                     sealSubmission, permitLapses, seal, vars, catalog, bytes
    <2>2. QED BY <1>1, <2>1
<1>13. ASSUME NEW c \in Collectors, claimSubmissionCollection(c) \/ collectorStep(c) \/ collectorRestarts(c)
       PROVE  WriterOf(v)'
    BY <1>11, <1>13, WriterStays
<1>14. QED BY <1>2, <1>3, <1>4, <1>5, <1>6, <1>7, <1>8, <1>9, <1>10, <1>12, <1>13 DEF Next, callStep

\* A replay that misses the bytes of a registered upload finds the marker, or the acknowledged cursor.
LEMMA ReplaysStep == ASSUME SubmissionInvariant, [Next]_vars PROVE Replays'
<1>0. /\ TypeOK /\ TypeOK' /\ Phases /\ Replays /\ receipts \subseteq Keys /\ \A u \in Calls : call[u].key \in Keys
      /\ collection.fence \in Nat /\ collection'.fence \in Nat
    BY TypeStep DEF SubmissionInvariant, TypeOK, CallRecord, CollectionRecord
<1>1. \A k \in Keys : collection.fence > 0 /\ attempt[k].marker = "whole" =>
        collection'.fence > 0 /\ attempt'[k].marker = "whole"
    BY CatalogGrows, ObjectsStay
<1>2. \A k \in Keys : "bytes" \in attempt[k].objects =>
        "bytes" \in attempt'[k].objects \/ (collection'.fence > 0 /\ attempt'[k].marker = "whole")
    BY ObjectsStay
<1>3. ASSUME NEW k \in receipts'
      PROVE  "bytes" \in attempt'[k].objects \/ (collection'.fence > 0 /\ attempt'[k].marker = "whole")
    <2>1. CASE k \in receipts
        BY <1>0, <1>1, <1>2, <2>1 DEF Replays
    <2>2. CASE k \notin receipts
        <3>1. PICK u \in Calls : registerUploadReceipt(u)
            <4>1. ASSUME NEW u \in Calls, callStep(u) \/ callFails(u) \/ callDies(u) \/ landsLate(u), ~registerUploadReceipt(u)
                  PROVE  UNCHANGED receipts
                BY <4>1 DEF callStep, callFails, callDies, landsLate, beginSubmissionWrite, stageAttempt,
                    publishAttempt, putIntent, uploadBytes, putReceipt, required,
                    finishSubmissionWrite, replayReceipt, verifyReceipt, readCollectionMarker, catalog
            <4>2. ASSUME NEW u \in Calls, NEW j \in Keys, writeFile(u, j) PROVE UNCHANGED receipts
                BY <4>2 DEF writeFile, catalog
            <4>3. ASSUME NEW c \in Collectors, claimSubmissionCollection(c) \/ collectorStep(c) \/ collectorRestarts(c)
                  PROVE  UNCHANGED receipts
                BY <4>3 DEF claimSubmissionCollection, collectorStep, collectorRestarts, listSubmissionCollectionAttempts,
                    readMarker, createMarker, fillMarker, putMarker, eraseLocal, eraseObjects, removeStaging,
                    recordSubmissionCollectionProgress, completeSubmissionCollection, catalog
            <4>4. CASE \/ createSubmission \/ submissionLapses \/ claimFinalization \/ runEnds \/ expireSubmission
                       \/ verifySelected \/ sealSubmission \/ permitLapses \/ UNCHANGED vars
                       \/ \E selected \in SUBSET Keys : seal(selected)
                <5>1. UNCHANGED receipts
                    BY <4>4 DEF createSubmission, submissionLapses, claimFinalization, runEnds, expireSubmission,
                        verifySelected, sealSubmission, permitLapses, seal, vars, catalog
                <5>2. QED BY <2>2, <5>1
            <4>5. QED BY <2>2, <4>1, <4>2, <4>3, <4>4 DEF Next
        <3>2. k = call[u].key /\ call[u].step = "register" /\ UNCHANGED attempt
            BY <2>2, <3>1 DEF registerUploadReceipt, at, bytes
        <3>3. QED BY <3>2 DEF SubmissionInvariant, Writers, WriterOf
    <2>3. QED BY <2>1, <2>2
<1>4. ASSUME NEW v \in Calls
      PROVE  /\ call'[v].step \in {"replay", "verify"} => call'[v].key \in receipts'
             /\ call'[v].step = "marker" => collection'.fence > 0 /\ attempt'[call'[v].key].marker = "whole"
             /\ call'[v].answer # "missing"
    <2> DEFINE Answered == /\ call'[v].step \in {"replay", "verify"} => call'[v].key \in receipts'
                           /\ call'[v].step = "marker" => collection'.fence > 0 /\ attempt'[call'[v].key].marker = "whole"
                           /\ call'[v].answer # "missing"
    <2>0. /\ call[v].answer # "missing" /\ receipts \subseteq receipts'
          /\ call[v].step \in {"replay", "verify"} => call[v].key \in receipts
          /\ call[v].step = "marker" => collection.fence > 0 /\ attempt[call[v].key].marker = "whole"
        BY <1>0, CatalogGrows DEF Replays, ReplayIsAnswered
    <2>1. CASE call'[v] = call[v]
        BY <1>0, <1>1, <2>0, <2>1
    <2>2. CASE call'[v].answer = call[v].answer /\ call'[v].step \notin {"replay", "verify", "marker"}
        BY <2>0, <2>2
    <2>3. CASE returns(v, "none")
        BY <1>0, <2>3, MoveEffect
    <2>4. ASSUME NEW k \in Keys, writeFile(v, k) PROVE Answered
        <3>1. PICK step : call' = [call EXCEPT ![v] = [@ EXCEPT !.key = k, !.step = step]]
                          /\ step = IF k \in receipts THEN "replay" ELSE "begin"
            BY <2>4 DEF writeFile
        <3>2. call'[v].key = k /\ call'[v].step = step /\ call'[v].answer = call[v].answer
            BY <1>0, <3>1 DEF TypeOK, CallRecord
        <3>3. QED BY <2>0, <3>1, <3>2
    <2>5. CASE beginSubmissionWrite(v) \/ stageAttempt(v) \/ publishAttempt(v) \/ callFails(v)
        <3>1. returns(v, "none") \/ goto(v, "store") \/ goto(v, "publish") \/ goto(v, "required") \/ goto(v, "finish")
            BY <2>5 DEF beginSubmissionWrite, stageAttempt, publishAttempt, callFails
        <3>2. QED BY <1>0, <2>2, <2>3, <3>1, MoveEffect
    <2>6. CASE putIntent(v) \/ uploadBytes(v) \/ putReceipt(v)
        <3>1. \/ goto(v, "publish") \/ goto(v, "required")
              \/ put(v, "intent", "publish") \/ put(v, "bytes", "receipt") \/ put(v, "receipt", "required")
            BY <2>6 DEF putIntent, uploadBytes, putReceipt
        <3>2. CASE goto(v, "publish") \/ goto(v, "required")
            BY <1>0, <2>2, <3>2, MoveEffect
        <3>3. CASE put(v, "intent", "publish") \/ put(v, "bytes", "receipt") \/ put(v, "receipt", "required")
            <4>1. {"publish", "required", "receipt"} \subseteq CallSteps /\ {"intent", "bytes", "receipt"} \subseteq Objects
                BY DEF CallSteps, Objects
            <4>2. call'[v].answer = call[v].answer /\ call'[v].step \in {"publish", "receipt", "required", "finish"}
                BY <1>0, <3>3, <4>1, PutEffect
            <4>3. QED BY <2>2, <4>2
        <3>4. QED BY <3>1, <3>2, <3>3
    <2>7. CASE required(v) \/ registerUploadReceipt(v)
        <3>1. CASE required(v)
            BY <1>0, <2>2, <3>1 DEF required, TypeOK, CallRecord
        <3>2. CASE registerUploadReceipt(v)
            BY <1>0, <2>2, <3>2 DEF registerUploadReceipt, TypeOK, CallRecord
        <3>3. QED BY <2>7, <3>1, <3>2
    <2>8. CASE finishSubmissionWrite(v) \/ callDies(v)
        BY <2>3, <2>8 DEF finishSubmissionWrite, callDies
    <2>9. CASE landsLate(v)
        BY <2>1, <2>9 DEF landsLate
    <2>10. CASE replayReceipt(v)
        <3>1. CASE goto(v, "verify")
            BY <1>0, <2>0, <2>10, <3>1, MoveEffect DEF replayReceipt, at
        <3>2. QED BY <2>3, <2>10, <3>1 DEF replayReceipt
    <2>11. CASE verifyReceipt(v)
        <3>1. CASE goto(v, "marker") /\ "bytes" \notin attempt[call[v].key].objects
            <4>1. call[v].key \in receipts
                BY <2>0, <2>11 DEF verifyReceipt, at
            <4>2. collection.fence > 0 /\ attempt[call[v].key].marker = "whole"
                BY <1>0, <3>1, <4>1 DEF Replays
            <4>3. call'[v].step = "marker" /\ call'[v].key = call[v].key /\ call'[v].answer = call[v].answer
                BY <1>0, <3>1, MoveEffect
            <4>4. QED BY <1>0, <1>1, <2>0, <4>2, <4>3
        <3>2. QED BY <2>3, <2>11, <3>1 DEF verifyReceipt
    <2>12. CASE readCollectionMarker(v)
        <3>1. collection.fence > 0 /\ attempt[call[v].key].marker = "whole"
            BY <2>0, <2>12 DEF readCollectionMarker, at
        <3>2. isUploadReceiptRetired(call[v].key, attempt[call[v].key].marker = "whole")
            BY <1>0, <3>1 DEF isUploadReceiptRetired, Phases
        <3>3. QED BY <2>3, <2>12, <3>2 DEF readCollectionMarker
    <2>13. ASSUME NEW u \in Calls, u # v,
                  callStep(u) \/ callFails(u) \/ callDies(u) \/ landsLate(u) \/ \E k \in Keys : writeFile(u, k)
           PROVE  call'[v] = call[v]
        <3>1. CASE required(u) \/ registerUploadReceipt(u) \/ landsLate(u) \/ \E k \in Keys : writeFile(u, k)
            BY <1>0, <2>13, <3>1 DEF required, registerUploadReceipt, landsLate, writeFile, TypeOK
        <3>2. CASE \/ beginSubmissionWrite(u) \/ stageAttempt(u) \/ publishAttempt(u) \/ finishSubmissionWrite(u)
                   \/ replayReceipt(u) \/ verifyReceipt(u) \/ readCollectionMarker(u) \/ callFails(u) \/ callDies(u)
            BY <1>0, <2>13, <3>2, MoveEffect DEF beginSubmissionWrite, stageAttempt, publishAttempt, finishSubmissionWrite,
                 replayReceipt, verifyReceipt, readCollectionMarker, callFails, callDies
        <3>3. CASE putIntent(u) \/ uploadBytes(u) \/ putReceipt(u)
            <4>1. \/ goto(u, "publish") \/ goto(u, "required")
                  \/ put(u, "intent", "publish") \/ put(u, "bytes", "receipt") \/ put(u, "receipt", "required")
                BY <3>3 DEF putIntent, uploadBytes, putReceipt
            <4>2. CASE goto(u, "publish") \/ goto(u, "required")
                BY <1>0, <2>13, <4>2, MoveEffect
            <4>3. CASE put(u, "intent", "publish") \/ put(u, "bytes", "receipt") \/ put(u, "receipt", "required")
                BY <1>0, <2>13, <4>3 DEF put, TypeOK
            <4>4. QED BY <4>1, <4>2, <4>3
        <3>4. QED BY <2>13, <3>1, <3>2, <3>3 DEF callStep
    <2>14. ASSUME NEW c \in Collectors, claimSubmissionCollection(c) \/ collectorStep(c) \/ collectorRestarts(c)
           PROVE  UNCHANGED call
        BY <2>14 DEF claimSubmissionCollection, collectorStep, collectorRestarts, listSubmissionCollectionAttempts,
                     readMarker, createMarker, fillMarker, putMarker, eraseLocal, eraseObjects, removeStaging,
                     recordSubmissionCollectionProgress, completeSubmissionCollection
    <2>15. CASE \/ createSubmission \/ submissionLapses \/ claimFinalization \/ runEnds \/ expireSubmission
                \/ verifySelected \/ sealSubmission \/ permitLapses \/ UNCHANGED vars
                \/ \E selected \in SUBSET Keys : seal(selected)
        <3>1. UNCHANGED call
            BY <2>15 DEF createSubmission, submissionLapses, claimFinalization, runEnds, expireSubmission,
                        verifySelected, sealSubmission, permitLapses, seal, vars
        <3>2. QED BY <2>1, <3>1
    <2>16. ASSUME NEW u \in Calls, u = v,
                  callStep(u) \/ callFails(u) \/ callDies(u) \/ landsLate(u) \/ \E k \in Keys : writeFile(u, k)
           PROVE  Answered
        BY <2>4, <2>5, <2>6, <2>7, <2>8, <2>9, <2>10, <2>11, <2>12, <2>16 DEF callStep
    <2>17. ASSUME NEW u \in Calls,
                  callStep(u) \/ callFails(u) \/ callDies(u) \/ landsLate(u) \/ \E k \in Keys : writeFile(u, k)
           PROVE  Answered
        BY <2>1, <2>13, <2>16, <2>17
    <2>18. QED BY <2>1, <2>14, <2>15, <2>17 DEF Next
<1>5. QED BY <1>3, <1>4 DEF Replays, ReplayIsAnswered

\* Every step keeps the invariant.
LEMMA InvariantStep == ASSUME SubmissionInvariant, [Next]_vars PROVE SubmissionInvariant'
<1>1. TypeOK'
    BY TypeStep DEF SubmissionInvariant
<1>2. QED BY <1>1, PhasesStep, WritersStep, OwnersStep, MarksStep, SealingStep, ErasedStep, ReplaysStep
          DEF SubmissionInvariant

\* The invariant holds initially and every step keeps it.
THEOREM InvariantHolds == Spec => []SubmissionInvariant
<1>1. QED BY InvariantInit, InvariantStep, PTL DEF Spec

-----------------------------------------------------------------------------
(* What the project states of a submission *)

\* Neither expiry, nor a collector that started earlier, nor a late claim removes or marks the
\* selected bytes of a sealed submission or of the source of a running finalization.
THEOREM SourceStored == Spec => []SourceIsStored
<1>1. SubmissionInvariant => SourceIsStored
    <2> SUFFICES ASSUME SubmissionInvariant, submission.state = "sealed" PROVE SourceIsStored
        BY DEF SubmissionInvariant, Phases, SourceIsStored
    <2>1. collection.fence = 0 /\ submission.selected \subseteq Keys
        BY DEF SubmissionInvariant, Phases, TypeOK, CollectionRecord, SubmissionRecord
    <2>2. QED BY <2>1 DEF SubmissionInvariant, Sealing, Marks, SourceIsStored
<1>2. QED BY <1>1, InvariantHolds, PTL

\* A repeated upload that succeeded is answered with its receipt at every moment of the deletion of its bytes.
THEOREM ReplayAnswered == Spec => []ReplayIsAnswered
<1>1. SubmissionInvariant => ReplayIsAnswered
    BY DEF SubmissionInvariant, Replays
<1>2. QED BY <1>1, InvariantHolds, PTL

\* What is recorded as collected is gone, and nothing of the submission can be stored or arrive any more.
THEOREM CollectedErased == Spec => []CollectedIsErased
<1>1. SubmissionInvariant => CollectedIsErased
    <2> SUFFICES ASSUME SubmissionInvariant, collection.collected PROVE CollectedIsErased
        BY DEF CollectedIsErased
    <2>1. collection.fence > 0
        BY DEF SubmissionInvariant, Phases, TypeOK, CollectionRecord
    <2>2. \A u \in Calls : writer[u] # "active"
        BY <2>1 DEF SubmissionInvariant, Phases
    <2>3. \A u \in Calls : u \notin staging /\ late[u] = {} /\ call[u].step \notin Writing
        BY <2>2 DEF SubmissionInvariant, Writers, WriterOf
    <2>4. staging = {}
        BY <2>3 DEF SubmissionInvariant, TypeOK
    <2>5. QED BY <2>3, <2>4 DEF SubmissionInvariant, Erased, CollectedIsErased, Writing
<1>2. QED BY <1>1, InvariantHolds, PTL
=============================================================================
