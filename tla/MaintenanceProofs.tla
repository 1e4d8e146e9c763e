-------------------------- MODULE MaintenanceProofs --------------------------
(***************************************************************************)
(* Proofs about the passes of the maintenance tick: the delivery of an     *)
(* event (Outbox), the collection of a candidate (CandidateCollection) and *)
(* the scan that finds what to collect (CollectionScan), for any           *)
(* subscriptions, processes, targets and jobs and for any bounds.          *)
(***************************************************************************)
EXTENDS Outbox, CandidateCollection, CollectionScan, FiniteSetTheorems, WellFoundedInduction, TLAPS

-----------------------------------------------------------------------------
(* Outbox: type correctness *)

\* An idle sender is well typed.
LEMMA IdleType == IdleWorker \in SenderRecord
BY DEF IdleWorker, SenderRecord

\* A claim keeps the types.
LEMMA TypeClaim ==
    ASSUME OutboxTypeOK, NEW w \in Workers, claimOutbox(w) PROVE OutboxTypeOK'
<1>1. {w} \in SUBSET Workers /\ {} \in SUBSET Workers
    OBVIOUS
<1>2. event' \in EventRecord
    BY <1>1 DEF OutboxTypeOK, EventRecord, claimOutbox
<1>3. recipients' \in SUBSET Subscriptions
    BY DEF OutboxTypeOK, claimOutbox, recipientsAtClaim, subscriptions
<1>4. [IdleWorker EXCEPT !.step = "list"] \in SenderRecord
    BY DEF IdleWorker, SenderRecord
<1>5. /\ sender' \in [Workers -> SenderRecord]
      /\ \A u \in Workers : sender'[u].step = "record" => sender'[u].recipient \in Subscriptions
    <2>1. CASE UNCHANGED sender
        BY <2>1 DEF OutboxTypeOK
    <2>2. CASE sender' = [sender EXCEPT ![w] = [IdleWorker EXCEPT !.step = "list"]]
        BY <1>4, <2>2 DEF OutboxTypeOK, IdleWorker
    <2>3. QED BY <2>1, <2>2 DEF claimOutbox
<1>6. QED BY <1>2, <1>3, <1>5 DEF OutboxTypeOK, claimOutbox

\* Listing a batch keeps the types.
LEMMA TypeList ==
    ASSUME OutboxTypeOK, NEW w \in Workers, listDueOutboxRecipients(w) PROVE OutboxTypeOK'
<1>1. PICK batch \in SUBSET dueRecipients :
        sender' = [sender EXCEPT ![w] =
                     [@ EXCEPT !.step = IF batch = {} THEN "release" ELSE "deliver", !.todo = batch]]
    BY DEF listDueOutboxRecipients
<1>2. batch \in SUBSET Subscriptions
    BY DEF OutboxTypeOK, dueRecipients
<1>3. PICK step \in {"release", "deliver"} :
        sender' = [sender EXCEPT ![w] = [@ EXCEPT !.step = step, !.todo = batch]]
    BY <1>1
<1>4. [sender[w] EXCEPT !.step = step, !.todo = batch] \in SenderRecord
    BY <1>2 DEF OutboxTypeOK, SenderRecord
<1>5. sender' \in [Workers -> SenderRecord]
    BY <1>3, <1>4 DEF OutboxTypeOK
<1>6. \A u \in Workers : sender'[u].step = "record" => sender'[u].recipient \in Subscriptions
    BY <1>3, <1>4 DEF OutboxTypeOK, SenderRecord
<1>7. QED BY <1>5, <1>6 DEF OutboxTypeOK, listDueOutboxRecipients

\* An answer keeps the types of the workers.
LEMMA TypeAnswered ==
    ASSUME OutboxTypeOK, NEW w \in Workers, NEW s \in Subscriptions,
           NEW a \in {"accepted", "refused"}, answered(w, s, a)
    PROVE  /\ sender' \in [Workers -> SenderRecord]
           /\ \A u \in Workers : sender'[u].step = "record" => sender'[u].recipient \in Subscriptions
<1>1. sender' = [sender EXCEPT ![w] = [@ EXCEPT !.step = "record", !.todo = sender[w].todo \ {s},
                                                 !.recipient = s, !.answer = a]]
    BY DEF answered
<1>2. sender[w].todo \ {s} \in SUBSET Subscriptions
    BY DEF OutboxTypeOK, SenderRecord
<1>3. [sender[w] EXCEPT !.step = "record", !.todo = sender[w].todo \ {s}, !.recipient = s, !.answer = a]
        \in SenderRecord
    BY <1>2 DEF OutboxTypeOK, SenderRecord
<1>4. sender' \in [Workers -> SenderRecord]
    BY <1>1, <1>3 DEF OutboxTypeOK
<1>5. \A u \in Workers : sender'[u].step = "record" => sender'[u].recipient \in Subscriptions
    BY <1>1, <1>3 DEF OutboxTypeOK, SenderRecord
<1>6. QED BY <1>4, <1>5

\* A delivery keeps the types.
LEMMA TypeDeliver ==
    ASSUME OutboxTypeOK, NEW w \in Workers, deliver(w) PROVE OutboxTypeOK'
<1>1. PICK s \in sender[w].todo :
        /\ \/ UNCHANGED received
           \/ received' = [received EXCEPT ![s] = @ + 1]
        /\ answered(w, s, "accepted") \/ answered(w, s, "refused")
    BY DEF deliver
<1>2. s \in Subscriptions
    BY DEF OutboxTypeOK, SenderRecord
<1>3. received' \in [Subscriptions -> Nat]
    BY <1>1, <1>2 DEF OutboxTypeOK
<1>4. /\ sender' \in [Workers -> SenderRecord]
      /\ \A u \in Workers : sender'[u].step = "record" => sender'[u].recipient \in Subscriptions
    BY <1>1, <1>2, TypeAnswered
<1>5. QED BY <1>3, <1>4 DEF OutboxTypeOK, deliver

\* Giving up keeps the types of the workers.
LEMMA TypeGiveUp ==
    ASSUME OutboxTypeOK, NEW w \in Workers, giveUp(w)
    PROVE  /\ sender' \in [Workers -> SenderRecord]
           /\ \A u \in Workers : sender'[u].step = "record" => sender'[u].recipient \in Subscriptions
BY IdleType DEF OutboxTypeOK, giveUp, IdleWorker

\* Recording an answer keeps the types.
LEMMA TypeRecord ==
    ASSUME OutboxTypeOK, NEW w \in Workers, recordDelivery(w) PROVE OutboxTypeOK'
<1>1. sender[w].recipient \in Subscriptions
    BY DEF OutboxTypeOK, recordDelivery
<1>2. newReceipt(w) \in ReceiptRecord
    <2>1. receipt[sender[w].recipient].attempts \in 0 .. MaxAttempts
        BY <1>1 DEF OutboxTypeOK, ReceiptRecord
    <2>2. attemptsAfter(sender[w].recipient) \in 0 .. MaxAttempts
        BY <2>1, BoundAssumption DEF attemptsAfter
    <2>3. QED BY <2>2 DEF newReceipt, ReceiptRecord
<1>3. receipt' \in [Subscriptions -> ReceiptRecord]
    BY <1>1, <1>2 DEF OutboxTypeOK, recordDelivery
<1>4. event' \in EventRecord
    <2>1. deliveryStateAfter(w) \in {"complete", "running", "failed"}
        BY DEF deliveryStateAfter
    <2>2. {w} \in SUBSET Workers
        OBVIOUS
    <2>3. QED BY <2>1, <2>2 DEF OutboxTypeOK, EventRecord, recordDelivery
<1>5. /\ sender' \in [Workers -> SenderRecord]
      /\ \A u \in Workers : sender'[u].step = "record" => sender'[u].recipient \in Subscriptions
    <2>1. CASE giveUp(w)
        BY <2>1, TypeGiveUp
    <2>2. CASE sender' = [sender EXCEPT ![w] =
                            [@ EXCEPT !.step = IF sender[w].todo = {} THEN "release" ELSE "deliver",
                                      !.recipient = Nobody, !.answer = "none"]]
        <3>1. PICK step \in {"release", "deliver"} :
                sender' = [sender EXCEPT ![w] = [@ EXCEPT !.step = step, !.recipient = Nobody,
                                                          !.answer = "none"]]
            BY <2>2
        <3>2. [sender[w] EXCEPT !.step = step, !.recipient = Nobody, !.answer = "none"] \in SenderRecord
            BY DEF OutboxTypeOK, SenderRecord
        <3>3. sender' \in [Workers -> SenderRecord]
            BY <3>1, <3>2 DEF OutboxTypeOK
        <3>4. \A u \in Workers : sender'[u].step = "record" => sender'[u].recipient \in Subscriptions
            BY <3>1, <3>2 DEF OutboxTypeOK, SenderRecord
        <3>5. QED BY <3>3, <3>4
    <2>3. QED BY <2>1, <2>2 DEF recordDelivery
<1>6. triedBefore' \in [Subscriptions -> SUBSET Subscriptions]
    <2>1. \A s \in Subscriptions : triedBefore[s] \subseteq Subscriptions
        BY DEF OutboxTypeOK
    <2>2. triedLast(sender[w].recipient) \in [Subscriptions -> SUBSET Subscriptions]
        BY <2>1 DEF triedLast
    <2>3. QED BY <2>2 DEF recordDelivery
<1>7. QED BY <1>3, <1>4, <1>5, <1>6 DEF OutboxTypeOK, recordDelivery

\* Releasing the claim keeps the types.
LEMMA TypeRelease ==
    ASSUME OutboxTypeOK, NEW w \in Workers, releaseOutboxClaim(w) PROVE OutboxTypeOK'
<1>1. {w} \in SUBSET Workers
    OBVIOUS
<1>2. event' \in EventRecord
    BY <1>1 DEF OutboxTypeOK, EventRecord, releaseOutboxClaim
<1>3. giveUp(w)
    BY DEF releaseOutboxClaim
<1>4. QED BY <1>2, <1>3, TypeGiveUp DEF OutboxTypeOK, releaseOutboxClaim

\* A lapse is counted only below the bound.
LEMMA LapsesStayBounded ==
    ASSUME OutboxTypeOK, UNCHANGED lapses \/ (lapses < MaxLapses /\ lapses' = lapses + 1)
    PROVE  lapses' \in 0 .. MaxLapses
<1>1. lapses \in 0 .. MaxLapses
    BY DEF OutboxTypeOK
<1>2. QED BY <1>1, BoundAssumption

\* Every step keeps the types.
LEMMA OutboxTypeNext == OutboxTypeOK /\ [OutboxNext]_outboxVars => OutboxTypeOK'
<1> SUFFICES ASSUME OutboxTypeOK, [OutboxNext]_outboxVars PROVE OutboxTypeOK'
    OBVIOUS
<1>1. CASE \E s \in Subscriptions : registerSubscription(s) \/ deleteWebhook(s)
    BY <1>1 DEF OutboxTypeOK, registerSubscription, deleteWebhook
<1>2. ASSUME NEW s \in Subscriptions, retryElapses(s) PROVE OutboxTypeOK'
    <2>1. receipt' \in [Subscriptions -> ReceiptRecord]
        BY <1>2 DEF OutboxTypeOK, retryElapses, ReceiptRecord
    <2>2. event' \in EventRecord
        BY <1>2 DEF OutboxTypeOK, retryElapses, EventRecord
    <2>3. QED BY <1>2, <2>1, <2>2 DEF OutboxTypeOK, retryElapses
<1>3. ASSUME NEW w \in Workers, claimOutbox(w) PROVE OutboxTypeOK'
    BY <1>3, TypeClaim
<1>4. ASSUME NEW w \in Workers, listDueOutboxRecipients(w) PROVE OutboxTypeOK'
    BY <1>4, TypeList
<1>5. ASSUME NEW w \in Workers, deliver(w) PROVE OutboxTypeOK'
    BY <1>5, TypeDeliver
<1>6. ASSUME NEW w \in Workers, recordDelivery(w) PROVE OutboxTypeOK'
    BY <1>6, TypeRecord
<1>7. ASSUME NEW w \in Workers, releaseOutboxClaim(w) PROVE OutboxTypeOK'
    BY <1>7, TypeRelease
<1>8. ASSUME NEW w \in Workers, staleClaim(w) \/ crash(w) PROVE OutboxTypeOK'
    <2>1. giveUp(w)
        BY <1>8 DEF staleClaim, crash
    <2>2. UNCHANGED <<subscription, event, recipients, receipt, triedBefore, received>>
        BY <1>8 DEF staleClaim, crash
    <2>3. UNCHANGED lapses \/ (lapses < MaxLapses /\ lapses' = lapses + 1)
        BY <1>8 DEF staleClaim, crash
    <2>4. lapses' \in 0 .. MaxLapses
        BY <2>3, LapsesStayBounded
    <2>5. QED BY <2>1, <2>2, <2>4, TypeGiveUp DEF OutboxTypeOK
<1>9. CASE eventClaimLapses
    <2>1. UNCHANGED lapses \/ (lapses < MaxLapses /\ lapses' = lapses + 1)
        BY <1>9 DEF eventClaimLapses
    <2>2. lapses' \in 0 .. MaxLapses
        BY <2>1, LapsesStayBounded
    <2>3. event' \in EventRecord
        BY <1>9 DEF OutboxTypeOK, eventClaimLapses, EventRecord
    <2>4. UNCHANGED <<subscription, recipients, receipt, triedBefore, received, sender>>
        BY <1>9 DEF eventClaimLapses
    <2>5. QED BY <2>2, <2>3, <2>4 DEF OutboxTypeOK
<1>10. CASE UNCHANGED outboxVars
    BY <1>10 DEF OutboxTypeOK, outboxVars
<1>11. QED
    BY <1>1, <1>2, <1>3, <1>4, <1>5, <1>6, <1>7, <1>8, <1>9, <1>10 DEF OutboxNext, outboxPass

\* The initial states are well typed.
LEMMA OutboxTypeInit == OutboxInit => OutboxTypeOK
BY BoundAssumption DEF OutboxInit, OutboxTypeOK, EventRecord, NewEvent, ReceiptRecord, NoReceipt, SenderRecord, IdleWorker

\* Every reachable state of the outbox is well typed.
THEOREM OutboxTypes == OutboxSpec => []OutboxTypeOK
BY OutboxTypeInit, OutboxTypeNext, PTL DEF OutboxSpec

-----------------------------------------------------------------------------
(* Outbox: completion *)

\* What makes CompleteMeansDelivered inductive: recipients are frozen before any
\* process works, processes work on frozen recipients only, and an acceptance
\* they bring was really received.
DeliveryInv ==
    /\ CompleteMeansDelivered
    /\ event.frozen = "no" => recipients = {}
    /\ \A w \in Workers : sender[w].step # "idle" =>
         event.frozen = "yes" /\ sender[w].todo \subseteq recipients
    /\ \A w \in Workers : sender[w].step = "record" =>
         /\ sender[w].recipient \in recipients
         /\ sender[w].answer = "accepted" => received[sender[w].recipient] > 0

\* A claim preserves the completion invariant: it freezes the recipients when
\* nobody works yet, and an empty set is complete at once.
LEMMA DeliveryClaim ==
    ASSUME OutboxTypeOK, DeliveryInv, NEW w \in Workers, claimOutbox(w) PROVE DeliveryInv'
<1>1. event.frozen \in {"no", "yes"} /\ recipients \subseteq Subscriptions
    BY DEF OutboxTypeOK, EventRecord
<1>2. \A s \in Subscriptions : receipt[s].delivered \in {"no", "yes"}
    BY DEF OutboxTypeOK, ReceiptRecord
<1>3. /\ event'.frozen = "yes" /\ recipients' = recipientsAtClaim
      /\ receipt' = receipt /\ received' = received
      /\ event'.deliveryState = IF recipientsAtClaim = {} THEN "complete" ELSE "running"
    BY DEF claimOutbox, OutboxTypeOK, EventRecord
<1>4. event.deliveryState # "complete"
    BY DEF claimOutbox, claimable
<1>5. recipients \subseteq recipients'
    BY <1>1, <1>3 DEF DeliveryInv, recipientsAtClaim
<1>6. remaining' = {} <=> recipientsAtClaim = {}
    <2>1. CASE event.frozen = "yes"
        <3>1. remaining' = remaining /\ remaining # {} /\ recipientsAtClaim = recipients
            BY <1>3, <1>4, <2>1 DEF DeliveryInv, CompleteMeansDelivered, remaining, recipientsAtClaim
        <3>2. QED BY <3>1 DEF remaining
    <2>2. CASE event.frozen = "no"
        <3>1. \A s \in Subscriptions : receipt[s].delivered = "no"
            BY <1>2, <2>2 DEF DeliveryInv, CompleteMeansDelivered
        <3>2. recipientsAtClaim \subseteq Subscriptions
            BY <1>1 DEF recipientsAtClaim, subscriptions
        <3>3. remaining' = recipientsAtClaim
            BY <1>3, <3>1, <3>2 DEF remaining
        <3>4. QED BY <3>3
    <2>3. QED BY <1>1, <2>1, <2>2
<1>7. CompleteMeansDelivered'
    BY <1>3, <1>5, <1>6 DEF DeliveryInv, CompleteMeansDelivered
<1>8. \A u \in Workers : \/ sender'[u] = sender[u]
                         \/ sender'[u].step = "list" /\ sender'[u].todo = {}
    <2>1. sender' = sender \/ sender' = [sender EXCEPT ![w] =
            [IdleWorker EXCEPT !.step = "list"]]
        BY DEF claimOutbox
    <2>2. QED BY <2>1 DEF OutboxTypeOK, IdleWorker
<1>9. QED BY <1>3, <1>5, <1>7, <1>8 DEF DeliveryInv

\* A step that leaves event, recipients and receipts alone and only adds to what
\* endpoints received keeps the completion part.
LEMMA DeliveryQuiet ==
    ASSUME OutboxTypeOK, DeliveryInv, UNCHANGED <<event, recipients, receipt>>,
           received' \in [Subscriptions -> Nat],
           \A s \in Subscriptions : received'[s] >= received[s]
    PROVE  CompleteMeansDelivered'
<1>1. \A s \in Subscriptions : received[s] \in Nat /\ received'[s] \in Nat
    BY DEF OutboxTypeOK
<1>2. remaining' = remaining
    BY DEF remaining
<1>3. QED BY <1>1, <1>2 DEF DeliveryInv, CompleteMeansDelivered

\* Listing a batch preserves the completion invariant.
LEMMA DeliveryList ==
    ASSUME OutboxTypeOK, DeliveryInv, NEW w \in Workers, listDueOutboxRecipients(w) PROVE DeliveryInv'
<1>1. UNCHANGED <<event, recipients, receipt, received>>
    BY DEF listDueOutboxRecipients
<1>2. CompleteMeansDelivered'
    BY <1>1 DEF DeliveryInv, CompleteMeansDelivered, remaining
<1>3. PICK batch \in SUBSET dueRecipients, step \in {"release", "deliver"} :
        sender' = [sender EXCEPT ![w] = [@ EXCEPT !.step = step, !.todo = batch]]
    BY DEF listDueOutboxRecipients
<1>4. batch \subseteq recipients
    BY DEF dueRecipients
<1>5. \A u \in Workers : \/ sender'[u] = sender[u]
                         \/ u = w /\ sender'[u].step = step /\ sender'[u].todo = batch
    BY <1>3 DEF OutboxTypeOK, SenderRecord
<1>6. sender[w].step # "idle"
    BY DEF listDueOutboxRecipients
<1>7. QED BY <1>1, <1>2, <1>4, <1>5, <1>6 DEF DeliveryInv

\* A delivery preserves the completion invariant.
LEMMA DeliveryDeliver ==
    ASSUME OutboxTypeOK, DeliveryInv, NEW w \in Workers, deliver(w) PROVE DeliveryInv'
<1>1. PICK s \in sender[w].todo :
        \/ received' = [received EXCEPT ![s] = @ + 1] /\ answered(w, s, "accepted")
        \/ /\ UNCHANGED received \/ received' = [received EXCEPT ![s] = @ + 1]
           /\ answered(w, s, "refused")
    BY DEF deliver
<1>2. s \in Subscriptions /\ s \in recipients /\ event.frozen = "yes"
    BY DEF OutboxTypeOK, SenderRecord, DeliveryInv, deliver
<1>3. \A x \in Subscriptions : received[x] \in Nat
    BY DEF OutboxTypeOK
<1>4. \A x \in Subscriptions : received'[x] >= received[x] /\ received'[x] \in Nat
    BY <1>1, <1>2, <1>3 DEF OutboxTypeOK
<1>5. CompleteMeansDelivered'
    <2>1. received' \in [Subscriptions -> Nat]
        BY <1>1, <1>2 DEF OutboxTypeOK
    <2>2. UNCHANGED <<event, recipients, receipt>>
        BY DEF deliver
    <2>3. QED BY <2>1, <2>2, <1>4, DeliveryQuiet
<1>6. \A u \in Workers : \/ sender'[u] = sender[u]
                         \/ /\ u = w /\ sender'[u].recipient = s
                            /\ sender'[u].todo \subseteq sender[w].todo
                            /\ sender'[u].answer = "accepted" => received'[s] > 0
    <2>1. received[s] + 1 > 0
        BY <1>2, <1>3
    <2>2. CASE received' = [received EXCEPT ![s] = @ + 1] /\ answered(w, s, "accepted")
        BY <1>2, <2>1, <2>2 DEF OutboxTypeOK, SenderRecord, answered
    <2>3. CASE answered(w, s, "refused")
        BY <2>3 DEF OutboxTypeOK, SenderRecord, answered
    <2>4. QED BY <1>1, <2>2, <2>3
<1>7. sender[w].step # "idle" /\ sender[w].todo \subseteq recipients
    BY DEF deliver, DeliveryInv
<1>8. event' = event /\ recipients' = recipients
    BY DEF deliver
<1>9. \A u \in Workers : sender'[u].step # "idle" =>
         event'.frozen = "yes" /\ sender'[u].todo \subseteq recipients'
    BY <1>2, <1>6, <1>7, <1>8 DEF DeliveryInv
<1>10. \A u \in Workers : sender'[u].step = "record" =>
         /\ sender'[u].recipient \in recipients'
         /\ sender'[u].answer = "accepted" => received'[sender'[u].recipient] > 0
    <2> TAKE u \in Workers
    <2>1. CASE sender'[u] = sender[u]
        <3>1. sender[u].step = "record" => sender[u].recipient \in Subscriptions
            BY DEF OutboxTypeOK
        <3>2. QED BY <2>1, <3>1, <1>3, <1>4, <1>8 DEF DeliveryInv
    <2>2. CASE sender'[u] # sender[u]
        BY <2>2, <1>6, <1>2, <1>8
    <2>3. QED BY <2>1, <2>2
<1>11. QED BY <1>5, <1>8, <1>9, <1>10 DEF DeliveryInv

\* A process that stops working keeps what DeliveryInv says of the workers.
LEMMA DeliveryGiveUp ==
    ASSUME OutboxTypeOK, DeliveryInv, NEW w \in Workers, giveUp(w),
           event'.frozen = event.frozen, UNCHANGED <<recipients, received>>, CompleteMeansDelivered'
    PROVE  DeliveryInv'
<1>1. \A u \in Workers : sender'[u] = sender[u] \/ sender'[u].step = "idle"
    BY DEF OutboxTypeOK, giveUp, IdleWorker
<1>2. QED BY <1>1 DEF DeliveryInv

\* Recording an answer preserves the completion invariant: the event completes
\* with the last recipient that was owed it, and on no other answer.
LEMMA DeliveryRecord ==
    ASSUME OutboxTypeOK, DeliveryInv, NEW w \in Workers, recordDelivery(w) PROVE DeliveryInv'
<1> DEFINE r == sender[w].recipient
<1>1. /\ r \in recipients /\ recipients \subseteq Subscriptions /\ event.frozen = "yes"
      /\ sender[w].answer = "accepted" => received[r] > 0
      /\ sender[w].todo \subseteq recipients
    BY DEF recordDelivery, DeliveryInv, OutboxTypeOK
<1>2. recipients' = recipients /\ received' = received
    BY DEF recordDelivery
<1>3. event'.frozen = event.frozen /\ event'.deliveryState = deliveryStateAfter(w)
    BY DEF recordDelivery, OutboxTypeOK, EventRecord
<1>4. \A s \in Subscriptions :
        receipt'[s].delivered = IF s = r THEN IF successful(w) THEN "yes" ELSE "no"
                                ELSE receipt[s].delivered
    BY DEF recordDelivery, OutboxTypeOK, newReceipt
<1>5. \A s \in Subscriptions : receipt[s].delivered \in {"no", "yes"}
    BY DEF OutboxTypeOK, ReceiptRecord
<1>6. remaining' = remainingAfter(w)
    <2>1. remaining' = {s \in recipients : receipt'[s].delivered = "no"}
        BY <1>2 DEF remaining
    <2>2. successful(w) <=> receipt[r].delivered = "yes" \/ sender[w].answer = "accepted"
        BY DEF successful
    <2>3. \A s \in recipients : receipt'[s].delivered = "no" <=> s \in remainingAfter(w)
        BY <1>1, <1>4, <1>5, <2>2 DEF remainingAfter, remaining
    <2>4. remainingAfter(w) \subseteq recipients
        BY DEF remainingAfter, remaining
    <2>5. QED BY <2>1, <2>3, <2>4
<1>7. CompleteMeansDelivered'
    <2>1. event'.deliveryState = "complete" <=> remaining' = {}
        BY <1>3, <1>6 DEF deliveryStateAfter
    <2>2. \A s \in Subscriptions : receipt'[s].delivered = "yes" => received'[s] > 0 /\ s \in recipients'
        BY <1>1, <1>2, <1>4 DEF DeliveryInv, CompleteMeansDelivered, successful
    <2>3. QED BY <1>1, <1>3, <2>1, <2>2 DEF CompleteMeansDelivered
<1>8. CASE giveUp(w)
    BY <1>2, <1>3, <1>7, <1>8, DeliveryGiveUp
<1>9. CASE ~giveUp(w)
    <2>1. PICK step \in {"release", "deliver"} :
            sender' = [sender EXCEPT ![w] = [@ EXCEPT !.step = step, !.recipient = Nobody,
                                                      !.answer = "none"]]
        BY <1>9 DEF recordDelivery
    <2>2. \A u \in Workers : \/ sender'[u] = sender[u]
                             \/ sender'[u].step = step /\ sender'[u].todo = sender[w].todo
        BY <2>1 DEF OutboxTypeOK, SenderRecord
    <2>3. QED BY <1>1, <1>2, <1>3, <1>7, <2>2 DEF DeliveryInv
<1>10. QED BY <1>8, <1>9

\* Releasing a claim preserves the completion invariant.
LEMMA DeliveryRelease ==
    ASSUME OutboxTypeOK, DeliveryInv, NEW w \in Workers, releaseOutboxClaim(w) PROVE DeliveryInv'
<1>1. /\ event.deliveryState = "running" /\ event'.deliveryState = "pending"
      /\ event'.frozen = event.frozen
    BY DEF releaseOutboxClaim, ownsClaim, OutboxTypeOK, EventRecord
<1>2. giveUp(w) /\ UNCHANGED <<recipients, receipt, received>>
    BY DEF releaseOutboxClaim
<1>3. CompleteMeansDelivered'
    BY <1>1, <1>2 DEF DeliveryInv, CompleteMeansDelivered, remaining
<1>4. QED BY <1>1, <1>2, <1>3, DeliveryGiveUp

\* A lapsing claim or an elapsed retry delay preserves the completion invariant.
LEMMA DeliveryDeadlines ==
    ASSUME OutboxTypeOK, DeliveryInv, eventClaimLapses \/ \E s \in Subscriptions : retryElapses(s)
    PROVE  DeliveryInv'
<1>1. /\ event'.frozen = event.frozen /\ event'.deliveryState = event.deliveryState
      /\ UNCHANGED <<recipients, received, sender>>
    BY DEF eventClaimLapses, retryElapses, OutboxTypeOK, EventRecord
<1>2. \A s \in Subscriptions : receipt'[s].delivered = receipt[s].delivered
    BY DEF eventClaimLapses, retryElapses, OutboxTypeOK, ReceiptRecord
<1>3. remaining' = remaining
    BY <1>1, <1>2 DEF remaining, OutboxTypeOK
<1>4. CompleteMeansDelivered'
    BY <1>1, <1>2, <1>3 DEF DeliveryInv, CompleteMeansDelivered
<1>5. QED BY <1>1, <1>4 DEF DeliveryInv

\* Every step preserves the completion invariant.
LEMMA DeliveryNext == OutboxTypeOK /\ DeliveryInv /\ [OutboxNext]_outboxVars => DeliveryInv'
<1> SUFFICES ASSUME OutboxTypeOK, DeliveryInv, [OutboxNext]_outboxVars PROVE DeliveryInv'
    OBVIOUS
<1>1. CASE UNCHANGED <<event, recipients, receipt, received, sender>>
    BY <1>1 DEF DeliveryInv, CompleteMeansDelivered, remaining
<1>2. CASE \E s \in Subscriptions : registerSubscription(s) \/ deleteWebhook(s)
    BY <1>1, <1>2 DEF registerSubscription, deleteWebhook
<1>3. CASE eventClaimLapses \/ \E s \in Subscriptions : retryElapses(s)
    BY <1>3, DeliveryDeadlines
<1>4. ASSUME NEW w \in Workers, claimOutbox(w) PROVE DeliveryInv'
    BY <1>4, DeliveryClaim
<1>5. ASSUME NEW w \in Workers, listDueOutboxRecipients(w) PROVE DeliveryInv'
    BY <1>5, DeliveryList
<1>6. ASSUME NEW w \in Workers, deliver(w) PROVE DeliveryInv'
    BY <1>6, DeliveryDeliver
<1>7. ASSUME NEW w \in Workers, recordDelivery(w) PROVE DeliveryInv'
    BY <1>7, DeliveryRecord
<1>8. ASSUME NEW w \in Workers, releaseOutboxClaim(w) PROVE DeliveryInv'
    BY <1>8, DeliveryRelease
<1>9. ASSUME NEW w \in Workers, staleClaim(w) \/ crash(w) PROVE DeliveryInv'
    <2>1. giveUp(w) /\ UNCHANGED <<event, recipients, receipt, received>>
        BY <1>9 DEF staleClaim, crash
    <2>2. CompleteMeansDelivered'
        BY <2>1 DEF DeliveryInv, CompleteMeansDelivered, remaining
    <2>3. QED BY <2>1, <2>2, DeliveryGiveUp
<1>10. QED
    BY <1>1, <1>2, <1>3, <1>4, <1>5, <1>6, <1>7, <1>8, <1>9 DEF OutboxNext, outboxPass, outboxVars

\* The completion invariant holds initially: nothing is frozen, sent or recorded.
LEMMA DeliveryInit == OutboxInit => DeliveryInv
BY DEF OutboxInit, DeliveryInv, CompleteMeansDelivered, NewEvent, NoReceipt, IdleWorker

\* The outbox completes an event exactly when every frozen recipient has accepted
\* it, for any number of recipients and of processes that lose their claims.
THEOREM CompletionIsSound == OutboxSpec => []CompleteMeansDelivered
<1>1. OutboxInit => OutboxTypeOK /\ DeliveryInv
    BY OutboxTypeInit, DeliveryInit
<1>2. (OutboxTypeOK /\ DeliveryInv) /\ [OutboxNext]_outboxVars => (OutboxTypeOK /\ DeliveryInv)'
    BY OutboxTypeNext, DeliveryNext
<1>3. DeliveryInv => CompleteMeansDelivered
    BY DEF DeliveryInv
<1>4. QED BY <1>1, <1>2, <1>3, PTL DEF OutboxSpec

-----------------------------------------------------------------------------
(* Outbox: no redelivery under a claim *)

\* What makes NoRedeliveryUnderClaim inductive: processes work on an event with frozen recipients,
\* and a process has taken what it delivers out of its batch.
ClaimInv ==
    /\ NoRedeliveryUnderClaim
    /\ \A w \in Workers : sender[w].step # "idle" => event.frozen = "yes" /\ recipients # {}
    /\ \A w \in Workers : sender[w].step = "record" => sender[w].recipient \notin sender[w].todo

\* What ClaimInv says of one process that works.
Holds(w) ==
    /\ event.frozen = "yes" /\ recipients # {}
    /\ event.holder = w =>
         /\ w \in event.versionKnownTo
         /\ \A s \in sender[w].todo \cup {sender[w].recipient} : s \in Subscriptions => receipt[s].delivered = "no"
    /\ sender[w].step = "record" => sender[w].recipient \notin sender[w].todo

\* ClaimInv, process by process.
LEMMA ClaimInvForm == ClaimInv <=> \A w \in Workers : sender[w].step # "idle" => Holds(w)
BY DEF ClaimInv, Holds, NoRedeliveryUnderClaim

\* The same of the next state.
LEMMA NextClaimInvForm == ClaimInv' <=> \A w \in Workers : sender'[w].step # "idle" => Holds(w)'
BY DEF ClaimInv, Holds, NoRedeliveryUnderClaim

\* A process that does not hold the claim keeps what holds of it, whatever the event goes through.
LEMMA HoldsBehind ==
    ASSUME NEW u \in Workers, Holds(u), sender'[u] = sender[u], UNCHANGED recipients,
           event'.frozen = "yes", event'.holder # u
    PROVE  Holds(u)'
BY DEF Holds

\* A claim takes the event from whoever held it; an event whose recipients are frozen and not served is
\* never completed under the process that serves them.
LEMMA ClaimClaim ==
    ASSUME OutboxTypeOK, DeliveryInv, ClaimInv, NEW w \in Workers, claimOutbox(w) PROVE ClaimInv'
<1>1. \A u \in Workers : sender[u].step # "idle" => Holds(u)
    BY ClaimInvForm
<1>2. CASE recipientsAtClaim = {}
    <2>1. \A u \in Workers : sender[u].step = "idle"
        BY <1>1, <1>2 DEF Holds, recipientsAtClaim
    <2>2. UNCHANGED sender
        BY <1>2 DEF claimOutbox
    <2>3. QED BY <2>1, <2>2, NextClaimInvForm
<1>3. CASE recipientsAtClaim # {}
    <2>1. event'.holder = w /\ event'.frozen = "yes" /\ w \in event'.versionKnownTo
        <3>1. event' = [event EXCEPT !.deliveryState = "running", !.versionKnownTo = {w}, !.holder = w,
                                     !.claim = "live", !.frozen = "yes"]
            BY <1>3 DEF claimOutbox
        <3>2. QED BY <3>1 DEF OutboxTypeOK, EventRecord
    <2>2. /\ sender'[w].step = "list" /\ sender'[w].todo = {} /\ sender'[w].recipient = Nobody
          /\ \A u \in Workers : u # w => sender'[u] = sender[u]
        BY <1>3 DEF claimOutbox, OutboxTypeOK, IdleWorker
    <2>3. Holds(w)'
        BY <1>3, <2>1, <2>2, SubscriptionAssumption DEF Holds, claimOutbox
    <2>4. ASSUME NEW u \in Workers, u # w, sender[u].step # "idle" PROVE Holds(u)'
        <3>1. Holds(u)
            BY <1>1, <2>4
        <3>2. UNCHANGED recipients
            BY <3>1 DEF claimOutbox, recipientsAtClaim, Holds
        <3>3. QED BY <2>1, <2>2, <2>4, <3>1, <3>2, HoldsBehind
    <2>5. QED BY <2>2, <2>3, <2>4, NextClaimInvForm
<1>4. QED BY <1>2, <1>3

\* A process that lists, delivers or stops changes nothing that others rely on.
LEMMA ClaimQuiet ==
    ASSUME ClaimInv, NEW w \in Workers, UNCHANGED <<event, recipients, receipt>>,
           \A u \in Workers : u # w => sender'[u] = sender[u],
           sender'[w].step = "idle" \/ Holds(w)'
    PROVE  ClaimInv'
<1>1. ASSUME NEW u \in Workers, u # w, sender'[u].step # "idle" PROVE Holds(u)'
    <2>1. Holds(u)
        BY <1>1, ClaimInvForm
    <2>2. QED BY <1>1, <2>1 DEF Holds
<1>2. QED BY <1>1, NextClaimInvForm

\* A batch holds only recipients without a success on record.
LEMMA ClaimList ==
    ASSUME OutboxTypeOK, ClaimInv, NEW w \in Workers, listDueOutboxRecipients(w) PROVE ClaimInv'
<1>1. PICK batch \in SUBSET dueRecipients, step \in {"release", "deliver"} :
        sender' = [sender EXCEPT ![w] = [@ EXCEPT !.step = step, !.todo = batch]]
    BY DEF listDueOutboxRecipients
<1>2. /\ sender'[w].step = step /\ sender'[w].todo = batch /\ sender'[w].recipient = sender[w].recipient
      /\ \A u \in Workers : u # w => sender'[u] = sender[u]
    BY <1>1 DEF OutboxTypeOK, SenderRecord
<1>3. \A s \in batch : receipt[s].delivered = "no"
    BY DEF dueRecipients
<1>4. sender[w].step = "list" /\ UNCHANGED <<event, recipients, receipt>>
    BY DEF listDueOutboxRecipients
<1>5. Holds(w)
    BY <1>4, ClaimInvForm
<1>6. Holds(w)'
    BY <1>2, <1>3, <1>4, <1>5 DEF Holds
<1>7. QED BY <1>2, <1>4, <1>6, ClaimQuiet

\* A process delivers to a recipient of its batch, which leaves the batch.
LEMMA ClaimDeliver ==
    ASSUME OutboxTypeOK, ClaimInv, NEW w \in Workers, deliver(w) PROVE ClaimInv'
<1>1. PICK s \in sender[w].todo, a \in {"accepted", "refused"} : answered(w, s, a)
    BY DEF deliver
<1>2. /\ sender'[w].step = "record" /\ sender'[w].todo = sender[w].todo \ {s} /\ sender'[w].recipient = s
      /\ \A u \in Workers : u # w => sender'[u] = sender[u]
    BY <1>1 DEF answered, OutboxTypeOK, SenderRecord
<1>3. sender[w].step = "deliver" /\ UNCHANGED <<event, recipients, receipt>>
    BY DEF deliver
<1>4. Holds(w)
    BY <1>3, ClaimInvForm
<1>5. Holds(w)'
    BY <1>2, <1>3, <1>4 DEF Holds
<1>6. QED BY <1>2, <1>3, <1>5, ClaimQuiet

\* A process that stops working leaves the claim to the others.
LEMMA ClaimGiveUp ==
    ASSUME OutboxTypeOK, ClaimInv, NEW w \in Workers, giveUp(w), UNCHANGED <<event, recipients, receipt>> PROVE ClaimInv'
<1>1. sender'[w].step = "idle" /\ \A u \in Workers : u # w => sender'[u] = sender[u]
    BY DEF giveUp, IdleWorker, OutboxTypeOK
<1>2. QED BY <1>1, ClaimQuiet

\* The owner's record and release move the version for the owner alone: nobody else holds the claim.
LEMMA ClaimOwner ==
    ASSUME OutboxTypeOK, ClaimInv, NEW w \in Workers, recordDelivery(w) \/ releaseOutboxClaim(w) PROVE ClaimInv'
<1>1. /\ event'.holder = w /\ w \in event'.versionKnownTo /\ UNCHANGED recipients /\ event'.frozen = event.frozen
      /\ sender[w].step # "idle" /\ event.holder = w
    <2>1. event.holder = w /\ sender[w].step # "idle" /\ UNCHANGED recipients
        BY DEF recordDelivery, releaseOutboxClaim, ownsClaim
    <2>2. event'.holder = event.holder /\ event'.versionKnownTo = {w} /\ event'.frozen = event.frozen
        BY DEF recordDelivery, releaseOutboxClaim, OutboxTypeOK, EventRecord
    <2>3. QED BY <2>1, <2>2
<1>2. Holds(w)
    BY <1>1, ClaimInvForm
<1>3. \/ giveUp(w)
      \/ /\ recordDelivery(w)
         /\ \E step \in {"release", "deliver"} :
              sender' = [sender EXCEPT ![w] = [@ EXCEPT !.step = step, !.recipient = Nobody, !.answer = "none"]]
    BY DEF recordDelivery, releaseOutboxClaim
<1>4. /\ \A u \in Workers : u # w => sender'[u] = sender[u]
      /\ \/ sender'[w].step = "idle"
         \/ /\ recordDelivery(w) /\ sender'[w].step \in {"release", "deliver"}
            /\ sender'[w].recipient = Nobody /\ sender'[w].todo = sender[w].todo
    <2>1. CASE giveUp(w)
        BY <2>1 DEF giveUp, IdleWorker, OutboxTypeOK
    <2>2. ASSUME NEW step \in {"release", "deliver"},
                 sender' = [sender EXCEPT ![w] = [@ EXCEPT !.step = step, !.recipient = Nobody, !.answer = "none"]]
          PROVE  /\ \A u \in Workers : u # w => sender'[u] = sender[u]
                 /\ sender'[w].step = step /\ sender'[w].recipient = Nobody /\ sender'[w].todo = sender[w].todo
        BY <2>2 DEF OutboxTypeOK, SenderRecord
    <2>3. QED BY <1>3, <2>1, <2>2
<1>5. ASSUME sender'[w].step # "idle" PROVE Holds(w)'
    <2>1. recordDelivery(w)
        BY <1>4, <1>5
    <2>2. \A s \in Subscriptions : s # sender[w].recipient => receipt'[s] = receipt[s]
        BY <2>1 DEF recordDelivery, OutboxTypeOK
    <2>3. sender[w].recipient \notin sender[w].todo
        BY <1>2, <2>1 DEF recordDelivery, Holds
    <2>4. \A s \in sender[w].todo : s \in Subscriptions => receipt'[s].delivered = "no"
        BY <1>1, <1>2, <2>2, <2>3 DEF Holds
    <2>5. QED BY <1>1, <1>2, <1>4, <1>5, <2>4, SubscriptionAssumption DEF Holds
<1>6. ASSUME NEW u \in Workers, u # w, sender'[u].step # "idle" PROVE Holds(u)'
    <2>1. sender'[u] = sender[u] /\ Holds(u)
        BY <1>4, <1>6, ClaimInvForm
    <2>2. event'.frozen = "yes"
        BY <1>1, <1>2 DEF Holds
    <2>3. QED BY <1>1, <1>6, <2>1, <2>2, HoldsBehind
<1>7. QED BY <1>5, <1>6, NextClaimInvForm

\* Every step preserves the claim invariant.
LEMMA ClaimNext == OutboxTypeOK /\ DeliveryInv /\ ClaimInv /\ [OutboxNext]_outboxVars => ClaimInv'
<1> SUFFICES ASSUME OutboxTypeOK, DeliveryInv, ClaimInv, [OutboxNext]_outboxVars PROVE ClaimInv'
    OBVIOUS
<1>1. CASE UNCHANGED outboxVars \/ \E s \in Subscriptions : registerSubscription(s) \/ deleteWebhook(s)
    BY <1>1 DEF outboxVars, registerSubscription, deleteWebhook, ClaimInv, NoRedeliveryUnderClaim
<1>2. CASE eventClaimLapses \/ \E s \in Subscriptions : retryElapses(s)
    <2>1. /\ event'.frozen = event.frozen /\ event'.holder = event.holder
          /\ event'.versionKnownTo = event.versionKnownTo /\ UNCHANGED <<recipients, sender>>
        BY <1>2 DEF eventClaimLapses, retryElapses, OutboxTypeOK, EventRecord
    <2>2. \A s \in Subscriptions : receipt'[s].delivered = receipt[s].delivered
        BY <1>2 DEF eventClaimLapses, retryElapses, OutboxTypeOK, ReceiptRecord
    <2>3. QED BY <2>1, <2>2 DEF ClaimInv, NoRedeliveryUnderClaim
<1>3. ASSUME NEW w \in Workers, claimOutbox(w) PROVE ClaimInv'
    BY <1>3, ClaimClaim
<1>4. ASSUME NEW w \in Workers, listDueOutboxRecipients(w) PROVE ClaimInv'
    BY <1>4, ClaimList
<1>5. ASSUME NEW w \in Workers, deliver(w) PROVE ClaimInv'
    BY <1>5, ClaimDeliver
<1>6. ASSUME NEW w \in Workers, recordDelivery(w) \/ releaseOutboxClaim(w) PROVE ClaimInv'
    BY <1>6, ClaimOwner
<1>7. ASSUME NEW w \in Workers, staleClaim(w) \/ crash(w) PROVE ClaimInv'
    BY <1>7, ClaimGiveUp DEF staleClaim, crash
<1>8. QED BY <1>1, <1>2, <1>3, <1>4, <1>5, <1>6, <1>7 DEF OutboxNext, outboxPass

\* A process that still owns the claim never sends the event to a recipient whose success is on record, and
\* nothing but its own calls moved the version, for any number of processes, recipients and claims.
THEOREM RedeliveryExcluded == OutboxSpec => []NoRedeliveryUnderClaim
<1>1. OutboxInit => OutboxTypeOK /\ DeliveryInv /\ ClaimInv
    <2>1. OutboxInit => ClaimInv
        BY DEF OutboxInit, ClaimInv, NoRedeliveryUnderClaim, IdleWorker
    <2>2. QED BY <2>1, OutboxTypeInit, DeliveryInit
<1>2. (OutboxTypeOK /\ DeliveryInv /\ ClaimInv) /\ [OutboxNext]_outboxVars => (OutboxTypeOK /\ DeliveryInv /\ ClaimInv)'
    BY OutboxTypeNext, DeliveryNext, ClaimNext
<1>3. ClaimInv => NoRedeliveryUnderClaim
    BY DEF ClaimInv
<1>4. QED BY <1>1, <1>2, <1>3, PTL DEF OutboxSpec

-----------------------------------------------------------------------------
(* CandidateCollection: type correctness *)

\* A worker that goes on stays well typed.
LEMMA TypeProceed ==
    ASSUME TypeOK, NEW f \in Claims, NEW found \in {"none", "object"},
           NEW step \in {"none", "inspect", "verify", "begin", "write", "orphan", "finish", "record",
                         "accept", "reconcile"},
           proceed(f, step, found)
    PROVE  worker' \in [Claims -> WorkerRecord]
<1>1. worker' = [worker EXCEPT ![f] = [worker[f] EXCEPT !.step = step, !.found = found]]
    BY DEF proceed, TypeOK
<1>2. [worker[f] EXCEPT !.step = step, !.found = found] \in WorkerRecord
    BY DEF TypeOK, WorkerRecord
<1>3. QED BY <1>1, <1>2 DEF TypeOK

\* A collector that goes on or stops stays well typed.
LEMMA TypeGoto ==
    ASSUME TypeOK, NEW p \in Processes,
           NEW step \in {"idle", "enter", "lookup", "fresh", "verify", "mark", "join", "remove",
                         "retire", "complete"},
           goto(p, step) \/ stale(p)
    PROVE  collector' \in [Processes -> CollectorRecord]
<1>1. NoCollector \in CollectorRecord
    BY DEF NoCollector, CollectorRecord
<1>2. [collector[p] EXCEPT !.step = step] \in CollectorRecord
    BY DEF TypeOK, CollectorRecord
<1>3. QED BY <1>1, <1>2 DEF TypeOK, goto, stale

\* Worker steps keep the types.
LEMMA TypeWorker ==
    ASSUME TypeOK, NEW f \in Claims, workerStep(f) \/ interrupted(f) \/ orphanCommits(f)
    PROVE  TypeOK'
<1>1. CASE inspectCandidate(f) \/ verifyCandidate(f) \/ interrupted(f)
    <2>1. worker' \in [Claims -> WorkerRecord]
        BY <1>1, TypeProceed DEF inspectCandidate, verifyCandidate, interrupted
    <2>2. QED BY <1>1, <2>1 DEF TypeOK, inspectCandidate, verifyCandidate, interrupted
<1>2. CASE beginCandidateWrite(f)
    <2>1. worker' \in [Claims -> WorkerRecord]
        BY <1>2, TypeProceed DEF beginCandidateWrite
    <2>2. QED BY <1>2, <2>1 DEF TypeOK, beginCandidateWrite
<1>3. CASE prepareOwned(f) \/ orphanCommits(f)
    <2>1. worker' \in [Claims -> WorkerRecord]
        BY <1>3, TypeProceed DEF prepareOwned, orphanCommits
    <2>2. git' \in GitRecord
        BY <1>3 DEF TypeOK, GitRecord, prepareOwned, orphanCommits, createRefs
    <2>3. QED BY <1>3, <2>1, <2>2 DEF TypeOK, prepareOwned, orphanCommits
<1>4. CASE finishCandidateWrite(f)
    <2>1. worker[f].found \in {"none", "object"}
        BY DEF TypeOK, WorkerRecord
    <2>2. worker' \in [Claims -> WorkerRecord]
        BY <1>4, <2>1, TypeProceed DEF finishCandidateWrite
    <2>3. QED BY <1>4, <2>2 DEF TypeOK, finishCandidateWrite
<1>5. CASE recordPreparedRevision(f)
    <2>1. worker' \in [Claims -> WorkerRecord]
        BY <1>5, TypeProceed DEF recordPreparedRevision
    <2>2. candidate' \in CandidateRecord
        BY <1>5 DEF TypeOK, CandidateRecord, recordPreparedRevision
    <2>3. QED BY <1>5, <2>1, <2>2 DEF TypeOK, recordPreparedRevision
<1>6. CASE acceptRevision(f) \/ reconcile(f)
    <2>1. worker' \in [Claims -> WorkerRecord]
        BY <1>6, TypeProceed DEF acceptRevision, reconcile
    <2>2. operation' \in OperationRecord /\ operation'.fence = operation.fence
        BY <1>6 DEF TypeOK, OperationRecord, acceptRevision, reconcile
    <2>3. QED BY <1>6, <2>1, <2>2 DEF TypeOK, acceptRevision, reconcile
<1>7. QED BY <1>1, <1>2, <1>3, <1>4, <1>5, <1>6 DEF workerStep

\* A recovery claim keeps the types.
LEMMA TypeRecovery == ASSUME TypeOK, NEW p \in Processes, claimRecovery(p) PROVE TypeOK'
<1>1. operation.fence + 1 \in Claims /\ operation.fence + 1 \in Nat
    BY CollectionBounds DEF TypeOK, Claims, claimRecovery
<1>2. operation' \in OperationRecord /\ operation'.fence \in Claims
    BY <1>1 DEF TypeOK, OperationRecord, claimRecovery
<1>3. [step |-> "inspect", process |-> p, found |-> "none"] \in WorkerRecord
    BY DEF WorkerRecord
<1>4. worker' \in [Claims -> WorkerRecord]
    BY <1>1, <1>3 DEF TypeOK, claimRecovery
<1>5. QED BY <1>2, <1>4 DEF TypeOK, claimRecovery

\* A collection claim keeps the types.
LEMMA TypeCollectionClaim ==
    ASSUME TypeOK, NEW p \in Processes, claimCandidateCollection(p) PROVE TypeOK'
<1>1. candidate.fence \in Nat /\ candidate.fence + 1 \in Nat
      /\ candidate.kind \in {"partial", "prepared"} /\ kindOfPermit \in {"partial", "prepared"}
    BY DEF TypeOK, CandidateRecord, kindOfPermit
<1>2. \A n \in Nat, k \in {"partial", "prepared"} :
        [step |-> "enter", fence |-> n, kind |-> k, seen |-> "none"] \in CollectorRecord
    BY DEF CollectorRecord
<1>3. collector' \in [Processes -> CollectorRecord]
    <2>1. PICK n \in Nat, k \in {"partial", "prepared"} :
            collector' = [collector EXCEPT ![p] = [step |-> "enter", fence |-> n, kind |-> k,
                                                   seen |-> "none"]]
        BY <1>1 DEF claimCandidateCollection
    <2>2. [step |-> "enter", fence |-> n, kind |-> k, seen |-> "none"] \in CollectorRecord
        BY <1>2
    <2>3. QED BY <2>1, <2>2 DEF TypeOK
<1>4. candidate' \in CandidateRecord
    BY <1>1 DEF TypeOK, CandidateRecord, claimCandidateCollection
<1>5. QED BY <1>3, <1>4 DEF TypeOK, claimCandidateCollection

\* Collector steps keep the types.
LEMMA TypeCollector == ASSUME TypeOK, NEW p \in Processes, collectorStep(p) PROVE TypeOK'
<1>1. CASE deleteCollectible(p) \/ lookupTombstone(p) \/ joinTombstone(p)
           \/ verifyCollectionPermit(p) \/ removeCollectedRefs(p)
    <2>1. collector' \in [Processes -> CollectorRecord]
        BY <1>1, TypeGoto DEF deleteCollectible, lookupTombstone, joinTombstone,
                              verifyCollectionPermit, removeCollectedRefs
    <2>2. UNCHANGED <<alive, operation, candidate, writer, git, worker>>
        BY <1>1 DEF deleteCollectible, lookupTombstone, joinTombstone,
                    verifyCollectionPermit, removeCollectedRefs
    <2>3. QED BY <2>1, <2>2 DEF TypeOK
<1>2. CASE readReferences(p)
    <2>1. git.refs \in {"none", "object"}
        BY DEF TypeOK, GitRecord
    <2>2. [collector[p] EXCEPT !.step = "verify", !.seen = git.refs] \in CollectorRecord
        BY <2>1 DEF TypeOK, CollectorRecord
    <2>3. CASE stale(p)
        <3>1. collector' \in [Processes -> CollectorRecord]
            BY <2>3, TypeGoto
        <3>2. QED BY <1>2, <3>1 DEF TypeOK, readReferences
    <2>4. CASE ~stale(p)
        <3>1. collector' = [collector EXCEPT ![p] =
                              [collector[p] EXCEPT !.step = "verify", !.seen = git.refs]]
            BY <1>2, <2>4 DEF TypeOK, readReferences
        <3>2. QED BY <1>2, <2>2, <3>1 DEF TypeOK, readReferences
    <2>5. QED BY <2>3, <2>4
<1>3. CASE createTombstone(p) \/ deleteRefs(p)
    <2>1. collector' \in [Processes -> CollectorRecord]
        BY <1>3, TypeGoto DEF createTombstone, deleteRefs
    <2>2. collector[p].kind \in {"partial", "prepared"} /\ collector[p].seen \in {"none", "object"}
        BY DEF TypeOK, CollectorRecord
    <2>3. git' \in GitRecord
        BY <1>3, <2>2 DEF TypeOK, GitRecord, createTombstone, deleteRefs
    <2>4. QED BY <1>3, <2>1, <2>3 DEF TypeOK, createTombstone, deleteRefs
<1>4. CASE completeCandidateCollection(p)
    <2>1. collector' \in [Processes -> CollectorRecord]
        BY <1>4, TypeGoto DEF completeCandidateCollection
    <2>2. candidate' \in CandidateRecord
        BY <1>4 DEF TypeOK, CandidateRecord, completeCandidateCollection
    <2>3. QED BY <1>4, <2>1, <2>2 DEF TypeOK, completeCandidateCollection
<1>5. QED BY <1>1, <1>2, <1>3, <1>4 DEF collectorStep

\* What a process's death does to a worker: nothing, or it is gone, or its git
\* child is left behind.
LEMMA DeathEffect ==
    ASSUME TypeOK, NEW p \in Processes, dies(p), NEW f \in Claims
    PROVE  \/ worker'[f] = worker[f]
           \/ /\ worker'[f] = [worker[f] EXCEPT !.step = "orphan"]
              /\ worker[f].step = "write"
           \/ worker'[f] = [worker[f] EXCEPT !.step = "none"]
BY DEF dies, TypeOK, WorkerRecord

\* A death keeps the types.
LEMMA TypeDies == ASSUME TypeOK, NEW p \in Processes, dies(p) PROVE TypeOK'
<1>1. collector' \in [Processes -> CollectorRecord]
    BY TypeGoto DEF dies
<1>2. \A f \in Claims : worker'[f] \in WorkerRecord
    <2> TAKE f \in Claims
    <2>1. /\ [worker[f] EXCEPT !.step = "orphan"] \in WorkerRecord
          /\ [worker[f] EXCEPT !.step = "none"] \in WorkerRecord /\ worker[f] \in WorkerRecord
        BY DEF TypeOK, WorkerRecord
    <2>2. QED BY <2>1, DeathEffect
<1>3. worker' \in [Claims -> WorkerRecord]
    BY <1>2 DEF dies
<1>4. QED BY <1>1, <1>3 DEF dies, TypeOK

\* Every step keeps the types.
LEMMA TypeNext == TypeOK /\ [Next]_vars => TypeOK'
<1> SUFFICES ASSUME TypeOK, [Next]_vars PROVE TypeOK'
    OBVIOUS
<1>1. CASE claimLapses
    BY <1>1 DEF TypeOK, OperationRecord, claimLapses
<1>2. CASE permitLapses
    BY <1>2 DEF TypeOK, CandidateRecord, permitLapses
<1>3. CASE UNCHANGED vars
    BY <1>3 DEF TypeOK, vars
<1>4. QED BY <1>1, <1>2, <1>3, TypeWorker, TypeRecovery, TypeCollectionClaim, TypeCollector, TypeDies
          DEF Next

\* The initial states are well typed.
LEMMA TypeInit == Init => TypeOK
BY CollectionBounds DEF Init, TypeOK, OperationRecord, CandidateRecord, GitRecord, WorkerRecord,
   CollectorRecord, NoCollector, Claims

\* Every reachable state of the collection protocol is well typed.
THEOREM CandidateTypes == Spec => []TypeOK
BY TypeInit, TypeNext, PTL DEF Spec

-----------------------------------------------------------------------------
(* CandidateCollection: the inductive invariant *)

\* The candidate's bytes were stored: they are there, or a tombstone says why not.
Stored == git.refs = "object" \/ git.tombstone # "none"

\* A collection mark was put on a decided, unaccepted candidate without writers.
Marked ==
    candidate.fence > 0 =>
        /\ operation.state # "processing" /\ operation.revision = "none"
        /\ \A f \in Claims : writer[f] # "active"

\* Permits and tombstones exist only under the mark.
UnderMark == candidate.permit = "live" \/ git.tombstone # "none" => candidate.fence > 0

\* A worker that stores bytes, or left a git child that does, is on record.
WritersHeld ==
    \A f \in Claims : worker[f].step \in {"write", "orphan", "finish"} => writer[f] = "active"

\* Whoever believes that the candidate is stored is right.
Durable ==
    /\ candidate.prepared = "yes" => Stored
    /\ \A f \in Claims :
         worker[f].step \in {"verify", "record"} \/ worker[f].found = "object" => Stored
    /\ operation.revision = "accepted" => candidate.prepared = "yes"

\* A tombstone that names no references was put where there were none.
Buried == git.tombstone # "none" /\ git.buried = "none" => git.refs = "none"

\* Collectors work under the mark, and believe what is so.
Collecting ==
    \A p \in Processes :
        /\ collector[p].step # "idle" => candidate.fence > 0
        /\ collector[p].step \in {"join", "remove", "retire", "complete"} => git.tombstone # "none"
        /\ collector[p].step = "complete" => git.refs = "none"

IInv == Marked /\ UnderMark /\ WritersHeld /\ Durable /\ Buried /\ Collecting /\ CollectedIsGone

-----------------------------------------------------------------------------
(* CandidateCollection: what a step does to each part of the state *)

\* A worker that goes on is the only one that changes.
LEMMA ProceedEffect ==
    ASSUME TypeOK, NEW f \in Claims, NEW step, NEW found, proceed(f, step, found)
    PROVE  /\ worker'[f].step = step /\ worker'[f].found = found
           /\ \A g \in Claims : g # f => worker'[g] = worker[g]
BY DEF TypeOK, WorkerRecord, proceed

\* A collector that goes on is the only one that changes.
LEMMA GotoEffect ==
    ASSUME TypeOK, NEW p \in Processes, NEW step, goto(p, step)
    PROVE  /\ collector'[p].step = step
           /\ \A q \in Processes : q # p => collector'[q] = collector[q]
BY DEF TypeOK, CollectorRecord, goto

\* A collector that gives up is idle.
LEMMA StaleEffect ==
    ASSUME TypeOK, NEW p \in Processes, stale(p)
    PROVE  /\ collector'[p].step = "idle"
           /\ \A q \in Processes : q # p => collector'[q] = collector[q]
BY DEF TypeOK, CollectorRecord, stale, NoCollector

\* The worker of a dead process has stopped, or left a git child; what it found stays.
LEMMA DeathKeeps ==
    ASSUME TypeOK, NEW p \in Processes, dies(p), NEW f \in Claims
    PROVE  /\ \/ worker'[f].step = worker[f].step
              \/ worker'[f].step = "orphan" /\ worker[f].step = "write"
              \/ worker'[f].step = "none"
           /\ worker'[f].found = worker[f].found
<1>1. worker[f] \in WorkerRecord
    BY DEF TypeOK
<1>2. CASE worker'[f] = [worker[f] EXCEPT !.step = "orphan"] /\ worker[f].step = "write"
    BY <1>1, <1>2 DEF WorkerRecord
<1>3. CASE worker'[f] = [worker[f] EXCEPT !.step = "none"]
    BY <1>1, <1>3 DEF WorkerRecord
<1>4. QED BY <1>2, <1>3, DeathEffect

\* The mark is for ever: a permit's fence never goes down.
LEMMA FenceGrows == TypeOK /\ [Next]_vars => candidate'.fence >= candidate.fence
<1> SUFFICES ASSUME TypeOK, [Next]_vars PROVE candidate'.fence >= candidate.fence
    OBVIOUS
<1>1. candidate.fence \in Nat
    BY DEF TypeOK, CandidateRecord
<1>2. ASSUME NEW f \in Claims, recordPreparedRevision(f) PROVE candidate'.fence >= candidate.fence
    BY <1>1, <1>2 DEF TypeOK, CandidateRecord, recordPreparedRevision
<1>3. ASSUME NEW p \in Processes, claimCandidateCollection(p) \/ completeCandidateCollection(p)
      PROVE  candidate'.fence >= candidate.fence
    <2>1. candidate'.fence \in {candidate.fence, candidate.fence + 1}
        <3>1. CASE completeCandidateCollection(p)
            BY <3>1 DEF TypeOK, CandidateRecord, completeCandidateCollection
        <3>2. CASE claimCandidateCollection(p)
            BY <3>2 DEF TypeOK, CandidateRecord, claimCandidateCollection
        <3>3. QED BY <1>3, <3>1, <3>2
    <2>2. QED BY <1>1, <2>1
<1>4. CASE permitLapses
    BY <1>1, <1>4 DEF TypeOK, CandidateRecord, permitLapses
<1>5. CASE UNCHANGED candidate
    BY <1>1, <1>5
<1>6. QED
    BY <1>2, <1>3, <1>4, <1>5 DEF Next, vars, workerStep, collectorStep, inspectCandidate,
       verifyCandidate, beginCandidateWrite, prepareOwned, finishCandidateWrite, acceptRevision,
       reconcile, interrupted, orphanCommits, claimRecovery, deleteCollectible, lookupTombstone,
       joinTombstone, readReferences, verifyCollectionPermit, createTombstone, removeCollectedRefs,
       deleteRefs, dies, claimLapses

\* The three ways in which the repository changes: a writer creates the references
\* where there is no tombstone, a collector sets the tombstone on what it read, or
\* deletes the references.
LEMMA GitEffect ==
    ASSUME TypeOK, [Next]_vars
    PROVE  \/ UNCHANGED git
           \/ createRefs /\ \E f \in Claims : worker[f].step \in {"write", "orphan"}
           \/ \E p \in Processes :
                /\ collector[p].step = "mark" /\ git.tombstone = "none"
                /\ git.refs = collector[p].seen
                /\ git' = [git EXCEPT !.tombstone = collector[p].kind, !.buried = collector[p].seen]
           \/ \E p \in Processes :
                collector[p].step = "retire" /\ git' = [git EXCEPT !.refs = "none"]
<1>1. ASSUME NEW f \in Claims, prepareOwned(f) \/ orphanCommits(f)
      PROVE  UNCHANGED git \/ (createRefs /\ worker[f].step \in {"write", "orphan"})
    BY <1>1 DEF prepareOwned, orphanCommits, working
<1>2. ASSUME NEW p \in Processes, createTombstone(p)
      PROVE  \/ UNCHANGED git
             \/ /\ collector[p].step = "mark" /\ git.tombstone = "none"
                /\ git.refs = collector[p].seen
                /\ git' = [git EXCEPT !.tombstone = collector[p].kind, !.buried = collector[p].seen]
    BY <1>2 DEF createTombstone, at
<1>3. ASSUME NEW p \in Processes, deleteRefs(p)
      PROVE  UNCHANGED git \/ (collector[p].step = "retire" /\ git' = [git EXCEPT !.refs = "none"])
    BY <1>3 DEF deleteRefs, at
<1>4. \/ UNCHANGED git
      \/ \E f \in Claims : prepareOwned(f) \/ orphanCommits(f)
      \/ \E p \in Processes : createTombstone(p) \/ deleteRefs(p)
    BY DEF Next, vars, workerStep, collectorStep, inspectCandidate, verifyCandidate,
       beginCandidateWrite, finishCandidateWrite, recordPreparedRevision, acceptRevision, reconcile,
       interrupted, claimRecovery, claimCandidateCollection, completeCandidateCollection,
       deleteCollectible, lookupTombstone, joinTombstone, readReferences, verifyCollectionPermit,
       removeCollectedRefs, dies, claimLapses, permitLapses
<1>5. QED BY <1>1, <1>2, <1>3, <1>4

\* What the repository keeps: bytes once stored stay accounted for, a tombstone is
\* never replaced, and what was removed under it does not come back.
LEMMA GitKeeps ==
    ASSUME TypeOK, IInv, [Next]_vars
    PROVE  /\ Stored => Stored'
           /\ git.tombstone # "none" => git'.tombstone = git.tombstone /\ git'.buried = git.buried
           /\ git.tombstone # "none" /\ git.refs = "none" => git'.refs = "none"
           /\ git.refs = "object" /\ git'.refs = "none" => git.tombstone # "none"
           /\ candidate.fence > 0 => git'.refs \in {git.refs, "none"}
           /\ git'.tombstone # "none" => git.tombstone # "none" \/ candidate.fence > 0
           /\ Buried'
<1>1. git \in GitRecord
    BY DEF TypeOK
<1>2. CASE UNCHANGED git
    BY <1>1, <1>2 DEF IInv, GitRecord, Stored, Buried
<1>3. ASSUME createRefs, NEW f \in Claims, worker[f].step \in {"write", "orphan"}
      PROVE  /\ git.tombstone = "none" /\ git' = [git EXCEPT !.refs = "object"]
             /\ ~(candidate.fence > 0)
    BY <1>3 DEF createRefs, IInv, Marked, WritersHeld
<1>4. CASE createRefs /\ \E f \in Claims : worker[f].step \in {"write", "orphan"}
    BY <1>1, <1>3, <1>4 DEF GitRecord, Stored, Buried
<1>5. ASSUME NEW p \in Processes, collector[p].step = "mark", git.tombstone = "none",
             git.refs = collector[p].seen,
             git' = [git EXCEPT !.tombstone = collector[p].kind, !.buried = collector[p].seen]
      PROVE  /\ git'.refs = git.refs /\ git'.buried = git.refs /\ git'.tombstone # "none"
             /\ git.tombstone = "none" /\ candidate.fence > 0
    <2>1. collector[p].kind # "none"
        BY DEF TypeOK, CollectorRecord
    <2>2. candidate.fence > 0
        BY <1>5 DEF IInv, Collecting
    <2>3. QED BY <1>1, <1>5, <2>1, <2>2 DEF GitRecord
<1>6. ASSUME NEW p \in Processes, collector[p].step = "retire", git' = [git EXCEPT !.refs = "none"]
      PROVE  /\ git'.refs = "none" /\ git'.buried = git.buried /\ git'.tombstone = git.tombstone
             /\ git.tombstone # "none"
    BY <1>1, <1>6 DEF GitRecord, IInv, Collecting
<1>7. git.refs \in {"none", "object"}
    BY <1>1 DEF GitRecord
<1>8. QED BY <1>2, <1>4, <1>5, <1>6, <1>7, GitEffect DEF Stored, Buried

-----------------------------------------------------------------------------
(* CandidateCollection: each part of the invariant is kept *)

\* Writers are recorded before they write and until they have finished.
LEMMA WritersHeldNext == ASSUME TypeOK, IInv, [Next]_vars PROVE WritersHeld'
<1> USE DEF WritersHeld
<1>1. WritersHeld
    BY DEF IInv
<1>2. ASSUME NEW f \in Claims,
             inspectCandidate(f) \/ verifyCandidate(f) \/ recordPreparedRevision(f)
             \/ acceptRevision(f) \/ reconcile(f) \/ interrupted(f) \/ orphanCommits(f)
      PROVE  WritersHeld'
    <2>1. /\ worker'[f].step \notin {"write", "orphan", "finish"}
          /\ \A g \in Claims : g # f => worker'[g] = worker[g]
        BY <1>2, ProceedEffect DEF inspectCandidate, verifyCandidate, recordPreparedRevision,
           acceptRevision, reconcile, interrupted, orphanCommits
    <2>2. UNCHANGED writer
        BY <1>2 DEF inspectCandidate, verifyCandidate, recordPreparedRevision, acceptRevision,
           reconcile, interrupted, orphanCommits
    <2>3. QED BY <1>1, <2>1, <2>2
<1>3. ASSUME NEW f \in Claims, beginCandidateWrite(f) PROVE WritersHeld'
    <2>1. \A g \in Claims : g # f => worker'[g] = worker[g] /\ writer'[g] = writer[g]
        BY <1>3, ProceedEffect DEF beginCandidateWrite, TypeOK
    <2>2. \/ worker'[f].step = "write" /\ writer'[f] = "active"
          \/ worker'[f].step = "reconcile"
        BY <1>3, ProceedEffect DEF beginCandidateWrite, TypeOK
    <2>3. QED BY <1>1, <2>1, <2>2
<1>4. ASSUME NEW f \in Claims, prepareOwned(f) PROVE WritersHeld'
    <2>1. worker[f].step = "write" /\ UNCHANGED writer
        BY <1>4 DEF prepareOwned, working
    <2>2. \A g \in Claims : g # f => worker'[g] = worker[g]
        BY <1>4, ProceedEffect DEF prepareOwned
    <2>3. QED BY <1>1, <2>1, <2>2
<1>5. ASSUME NEW f \in Claims, finishCandidateWrite(f) PROVE WritersHeld'
    <2>1. \A g \in Claims : g # f => worker'[g] = worker[g] /\ writer'[g] = writer[g]
        BY <1>5, ProceedEffect DEF finishCandidateWrite, TypeOK
    <2>2. worker'[f].step \in {"record", "reconcile"}
        BY <1>5, ProceedEffect DEF finishCandidateWrite
    <2>3. QED BY <1>1, <2>1, <2>2
<1>6. ASSUME NEW p \in Processes, claimRecovery(p) PROVE WritersHeld'
    <2>1. \A g \in Claims : worker'[g] = worker[g] \/ worker'[g].step = "inspect"
        BY <1>6 DEF claimRecovery, TypeOK
    <2>2. UNCHANGED writer
        BY <1>6 DEF claimRecovery
    <2>3. QED BY <1>1, <2>1, <2>2
<1>7. ASSUME NEW p \in Processes, dies(p) PROVE WritersHeld'
    <2>1. UNCHANGED writer
        BY <1>7 DEF dies
    <2>2. QED BY <1>1, <1>7, <2>1, DeathKeeps
<1>8. CASE UNCHANGED <<worker, writer>>
    BY <1>1, <1>8
<1>9. QED
    BY <1>2, <1>3, <1>4, <1>5, <1>6, <1>7, <1>8 DEF Next, vars, workerStep, collectorStep,
       deleteCollectible, lookupTombstone, joinTombstone, readReferences, verifyCollectionPermit,
       createTombstone, removeCollectedRefs, deleteRefs, completeCandidateCollection,
       claimCandidateCollection, claimLapses, permitLapses

\* A marked candidate stays decided and without writers, and the first mark is put
\* on one that is.
LEMMA MarkedNext == ASSUME TypeOK, IInv, [Next]_vars PROVE Marked'
<1> USE DEF Marked
<1>1. Marked
    BY DEF IInv
<1>2. ASSUME NEW p \in Processes, claimCandidateCollection(p) PROVE Marked'
    <2>1. collectable /\ UNCHANGED <<operation, writer>>
        BY <1>2 DEF claimCandidateCollection
    <2>2. QED BY <2>1 DEF collectable, activeWriters
<1>3. ASSUME NEW f \in Claims, beginCandidateWrite(f) PROVE Marked'
    <2>1. UNCHANGED <<operation, candidate>>
        BY <1>3 DEF beginCandidateWrite
    <2>2. UNCHANGED writer \/ candidate.fence = 0
        BY <1>3 DEF beginCandidateWrite, mayWrite
    <2>3. QED BY <1>1, <2>1, <2>2
<1>4. ASSUME NEW f \in Claims, finishCandidateWrite(f) PROVE Marked'
    <2>1. \A g \in Claims : writer'[g] = writer[g] \/ writer'[g] = "finished"
        BY <1>4 DEF finishCandidateWrite, TypeOK
    <2>2. UNCHANGED <<operation, candidate>>
        BY <1>4 DEF finishCandidateWrite
    <2>3. QED BY <1>1, <2>1, <2>2
<1>5. ASSUME NEW f \in Claims, acceptRevision(f) \/ reconcile(f) PROVE Marked'
    <2>1. UNCHANGED <<writer, candidate>>
        BY <1>5 DEF acceptRevision, reconcile
    <2>2. UNCHANGED operation \/ operation.state = "processing"
        BY <1>5 DEF acceptRevision, reconcile, processing
    <2>3. QED BY <1>1, <2>1, <2>2
<1>6. CASE claimLapses \/ \E p \in Processes : claimRecovery(p)
    <2>1. UNCHANGED <<writer, candidate>> /\ operation.state = "processing"
        BY <1>6 DEF claimLapses, claimRecovery
    <2>2. QED BY <1>1, <2>1
<1>7. ASSUME UNCHANGED <<operation, writer>>,
             UNCHANGED candidate \/ permitLapses
             \/ (\E f \in Claims : recordPreparedRevision(f))
             \/ (\E p \in Processes : completeCandidateCollection(p))
      PROVE  Marked'
    <2>1. candidate'.fence = candidate.fence
        BY <1>7 DEF permitLapses, recordPreparedRevision, completeCandidateCollection, TypeOK,
           CandidateRecord
    <2>2. QED BY <1>1, <1>7, <2>1
<1>8. QED
    BY <1>2, <1>3, <1>4, <1>5, <1>6, <1>7 DEF Next, vars, workerStep, collectorStep,
       inspectCandidate, verifyCandidate, prepareOwned, interrupted, orphanCommits,
       recordPreparedRevision, deleteCollectible, lookupTombstone, joinTombstone, readReferences,
       verifyCollectionPermit, createTombstone, removeCollectedRefs, deleteRefs,
       completeCandidateCollection, permitLapses, dies

\* A permit becomes live only when its fence is taken, a tombstone only under one.
LEMMA UnderMarkNext == ASSUME TypeOK, IInv, [Next]_vars PROVE UnderMark'
<1>1. candidate.fence \in Nat /\ candidate'.fence \in Nat /\ candidate'.fence >= candidate.fence
    BY FenceGrows, TypeNext DEF TypeOK, CandidateRecord
<1>2. UnderMark
    BY DEF IInv
<1>3. git'.tombstone # "none" => candidate'.fence > 0
    BY <1>1, <1>2, GitKeeps DEF UnderMark
<1>4. candidate'.permit = "live" => candidate'.fence > 0
    <2>1. ASSUME NEW p \in Processes, claimCandidateCollection(p)
          PROVE  candidate'.permit = "live" => candidate'.fence > 0
        <3>1. CASE UNCHANGED candidate
            BY <1>1, <1>2, <3>1 DEF UnderMark
        <3>2. CASE ~UNCHANGED candidate
            <4>1. candidate'.fence = candidate.fence + 1
                BY <2>1, <3>2 DEF claimCandidateCollection, TypeOK, CandidateRecord
            <4>2. QED BY <1>1, <4>1
        <3>3. QED BY <3>1, <3>2
    <2>2. \/ candidate'.permit \in {candidate.permit, "expired"}
          \/ \E p \in Processes : claimCandidateCollection(p)
        <3>1. ASSUME NEW f \in Claims, recordPreparedRevision(f)
              PROVE  candidate'.permit = candidate.permit
            BY <3>1 DEF recordPreparedRevision, TypeOK, CandidateRecord
        <3>2. ASSUME NEW p \in Processes, completeCandidateCollection(p)
              PROVE  candidate'.permit = candidate.permit
            BY <3>2 DEF completeCandidateCollection, TypeOK, CandidateRecord
        <3>3. CASE permitLapses
            BY <3>3 DEF permitLapses, TypeOK, CandidateRecord
        <3>4. CASE UNCHANGED candidate
            BY <3>4
        <3>5. QED
            BY <3>1, <3>2, <3>3, <3>4 DEF Next, vars, workerStep, collectorStep, inspectCandidate,
               verifyCandidate, beginCandidateWrite, prepareOwned, finishCandidateWrite,
               acceptRevision, reconcile, interrupted, orphanCommits, claimRecovery,
               deleteCollectible, lookupTombstone, joinTombstone, readReferences,
               verifyCollectionPermit, createTombstone, removeCollectedRefs, deleteRefs, dies,
               claimLapses
    <2>3. QED BY <1>1, <1>2, <2>1, <2>2 DEF UnderMark
<1>5. QED BY <1>3, <1>4 DEF UnderMark
\* Whoever finds or records the candidate finds it stored.
LEMMA DurableNext == ASSUME TypeOK, IInv, [Next]_vars PROVE Durable'
<1> DEFINE believes(f) == worker[f].step \in {"verify", "record"} \/ worker[f].found = "object"
<1>1. /\ candidate.prepared = "yes" => Stored
      /\ \A f \in Claims : believes(f) => Stored
      /\ operation.revision = "accepted" => candidate.prepared = "yes"
    BY DEF IInv, Durable
<1>2. Stored => Stored'
    BY GitKeeps
<1>3. \A f \in Claims : believes(f)' => Stored'
    <2>1. ASSUME NEW f \in Claims, inspectCandidate(f), believes(f)' PROVE Stored'
        <3>1. git.tombstone = "none" /\ git.refs = "object"
            BY <2>1, ProceedEffect DEF inspectCandidate
        <3>2. QED BY <1>2, <3>1 DEF Stored
    <2>2. ASSUME NEW f \in Claims, believes(f)',
                 verifyCandidate(f) \/ finishCandidateWrite(f) \/ recordPreparedRevision(f)
          PROVE  Stored'
        <3>1. CASE verifyCandidate(f) \/ recordPreparedRevision(f)
            BY <1>1, <1>2, <3>1 DEF verifyCandidate, recordPreparedRevision, working
        <3>2. CASE finishCandidateWrite(f)
            <4>1. worker[f].found = "object"
                BY <2>2, <3>2, ProceedEffect DEF finishCandidateWrite
            <4>2. QED BY <1>1, <1>2, <4>1
        <3>3. QED BY <2>2, <3>1, <3>2
    <2>3. ASSUME NEW f \in Claims, prepareOwned(f), believes(f)' PROVE Stored'
        <3>1. createRefs
            BY <2>3, ProceedEffect DEF prepareOwned
        <3>2. git'.refs = "object"
            BY <3>1 DEF createRefs, TypeOK, GitRecord
        <3>3. QED BY <3>2 DEF Stored
    <2>4. ASSUME NEW f \in Claims,
                 beginCandidateWrite(f) \/ acceptRevision(f) \/ reconcile(f) \/ interrupted(f)
                 \/ orphanCommits(f)
          PROVE  ~believes(f)'
        <3>1. worker'[f].step \notin {"verify", "record"} /\ worker'[f].found = "none"
            BY <2>4, ProceedEffect DEF beginCandidateWrite, acceptRevision, reconcile, interrupted,
               orphanCommits
        <3>2. QED BY <3>1
    <2>5. ASSUME NEW f \in Claims, workerStep(f) \/ interrupted(f) \/ orphanCommits(f),
                 NEW g \in Claims, g # f
          PROVE  worker'[g] = worker[g]
        BY <2>5, ProceedEffect DEF workerStep, interrupted, orphanCommits, inspectCandidate,
           verifyCandidate, beginCandidateWrite, prepareOwned, finishCandidateWrite,
           recordPreparedRevision, acceptRevision, reconcile
    <2>6. ASSUME NEW f \in Claims, workerStep(f) \/ interrupted(f) \/ orphanCommits(f),
                 NEW g \in Claims, believes(g)'
          PROVE  Stored'
        <3>1. CASE g # f
            <4>1. believes(g)
                BY <2>5, <2>6, <3>1
            <4>2. QED BY <1>1, <1>2, <4>1
        <3>2. CASE g = f
            BY <2>1, <2>2, <2>3, <2>4, <2>6, <3>2 DEF workerStep
        <3>3. QED BY <3>1, <3>2
    <2>7. ASSUME NEW p \in Processes, claimRecovery(p), NEW g \in Claims, believes(g)'
          PROVE  Stored'
        <3>1. \/ worker'[g] = worker[g]
              \/ worker'[g] = [step |-> "inspect", process |-> p, found |-> "none"]
            BY <2>7 DEF claimRecovery, TypeOK
        <3>2. QED BY <1>1, <1>2, <2>7, <3>1
    <2>8. ASSUME NEW p \in Processes, dies(p), NEW g \in Claims, believes(g)' PROVE Stored'
        <3>1. believes(g)
            BY <2>8, DeathKeeps
        <3>2. QED BY <1>1, <1>2, <3>1
    <2>9. CASE UNCHANGED worker
        BY <1>1, <1>2, <2>9
    <2>10. QED
        BY <2>6, <2>7, <2>8, <2>9 DEF Next, vars, collectorStep, deleteCollectible,
           lookupTombstone, joinTombstone, readReferences, verifyCollectionPermit, createTombstone,
           removeCollectedRefs, deleteRefs, completeCandidateCollection, claimCandidateCollection,
           claimLapses, permitLapses
<1>4. \/ candidate'.prepared = candidate.prepared
      \/ candidate'.prepared = "yes" /\ \E f \in Claims : worker[f].step = "record"
    <2>1. ASSUME NEW f \in Claims, recordPreparedRevision(f)
          PROVE  /\ worker[f].step = "record"
                 /\ candidate'.prepared = candidate.prepared \/ candidate'.prepared = "yes"
        BY <2>1 DEF recordPreparedRevision, working, TypeOK, CandidateRecord
    <2>2. ASSUME NEW p \in Processes, completeCandidateCollection(p)
          PROVE  candidate'.prepared = candidate.prepared
        BY <2>2 DEF completeCandidateCollection, TypeOK, CandidateRecord
    <2>3. ASSUME NEW p \in Processes, claimCandidateCollection(p)
          PROVE  candidate'.prepared = candidate.prepared
        BY <2>3 DEF claimCandidateCollection, TypeOK, CandidateRecord
    <2>4. CASE permitLapses
        BY <2>4 DEF permitLapses, TypeOK, CandidateRecord
    <2>5. CASE UNCHANGED candidate
        BY <2>5
    <2>6. QED
        BY <2>1, <2>2, <2>3, <2>4, <2>5 DEF Next, vars, workerStep, collectorStep, inspectCandidate,
           verifyCandidate, beginCandidateWrite, prepareOwned, finishCandidateWrite,
           acceptRevision, reconcile, interrupted, orphanCommits, claimRecovery,
           deleteCollectible, lookupTombstone, joinTombstone, readReferences,
           verifyCollectionPermit, createTombstone, removeCollectedRefs, deleteRefs, dies,
           claimLapses
<1>5. operation'.revision = operation.revision \/ candidate.prepared = "yes"
    <2>1. ASSUME NEW f \in Claims, acceptRevision(f)
          PROVE  operation'.revision = operation.revision \/ candidate.prepared = "yes"
        BY <2>1 DEF acceptRevision
    <2>2. ASSUME NEW f \in Claims, reconcile(f) PROVE operation'.revision = operation.revision
        BY <2>2 DEF reconcile, TypeOK, OperationRecord
    <2>3. ASSUME NEW p \in Processes, claimRecovery(p)
          PROVE  operation'.revision = operation.revision
        BY <2>3 DEF claimRecovery, TypeOK, OperationRecord
    <2>4. CASE claimLapses
        BY <2>4 DEF claimLapses, TypeOK, OperationRecord
    <2>5. CASE UNCHANGED operation
        BY <2>5
    <2>6. QED
        BY <2>1, <2>2, <2>3, <2>4, <2>5 DEF Next, vars, workerStep, collectorStep, inspectCandidate,
           verifyCandidate, beginCandidateWrite, prepareOwned, finishCandidateWrite,
           recordPreparedRevision, interrupted, orphanCommits, claimCandidateCollection,
           deleteCollectible, lookupTombstone, joinTombstone, readReferences,
           verifyCollectionPermit, createTombstone, removeCollectedRefs, deleteRefs, dies,
           completeCandidateCollection, permitLapses
<1>6. candidate'.prepared = "yes" => Stored'
    BY <1>1, <1>2, <1>4
<1>7. operation'.revision = "accepted" => candidate'.prepared = "yes"
    BY <1>1, <1>4, <1>5
<1>8. QED BY <1>3, <1>6, <1>7 DEF Durable
\* What a collector concludes from its own steps stays so whatever the others do.
LEMMA CollectingNext == ASSUME TypeOK, IInv, [Next]_vars PROVE Collecting'
<1> DEFINE late == {"join", "remove", "retire", "complete"}
           right(p) == /\ collector[p].step # "idle" => candidate.fence > 0
                       /\ collector[p].step \in late => git.tombstone # "none"
                       /\ collector[p].step = "complete" => git.refs = "none"
<1>1. \A q \in Processes : right(q)
    BY DEF IInv, Collecting
<1>2. /\ candidate.fence > 0 => candidate'.fence > 0
      /\ git.tombstone # "none" => git'.tombstone # "none"
      /\ git.tombstone # "none" /\ git.refs = "none" => git'.refs = "none"
    <2>1. candidate.fence \in Nat /\ candidate'.fence \in Nat
        BY TypeNext DEF TypeOK, CandidateRecord
    <2>2. QED BY <2>1, FenceGrows, GitKeeps
<1>3. ASSUME NEW q \in Processes, collector'[q] = collector[q] PROVE right(q)'
    BY <1>1, <1>2, <1>3
<1>4. ASSUME NEW p \in Processes, collectorStep(p) \/ dies(p)
      PROVE  /\ \A q \in Processes : q # p => collector'[q] = collector[q]
             /\ right(p)'
    <2>1. CASE stale(p)
        BY <2>1, StaleEffect
    <2>2. CASE deleteCollectible(p) /\ ~stale(p)
        <3>1. goto(p, "lookup") /\ collector[p].step # "idle"
            BY <2>2 DEF deleteCollectible, at
        <3>2. QED BY <1>1, <1>2, <3>1, GotoEffect
    <2>3. CASE lookupTombstone(p) /\ ~stale(p)
        <3>1. /\ collector[p].step # "idle"
              /\ goto(p, "fresh") \/ (goto(p, "join") /\ git.tombstone # "none")
            BY <2>3 DEF lookupTombstone, at
        <3>2. QED BY <1>1, <1>2, <3>1, GotoEffect
    <2>4. CASE joinTombstone(p) /\ ~stale(p)
        <3>1. /\ collector[p].step = "join"
              /\ goto(p, "remove") \/ (goto(p, "complete") /\ git.buried # "object")
            BY <2>4 DEF joinTombstone, at
        <3>2. git.tombstone # "none" /\ (git.buried # "object" => git.refs = "none")
            BY <1>1, <3>1 DEF IInv, Buried, TypeOK, GitRecord
        <3>3. QED BY <1>1, <1>2, <3>1, <3>2, GotoEffect
    <2>5. CASE readReferences(p) /\ ~stale(p)
        <3>1. /\ collector[p].step # "idle"
              /\ collector' = [collector EXCEPT ![p] =
                                 [collector[p] EXCEPT !.step = "verify", !.seen = git.refs]]
            BY <2>5 DEF readReferences, at
        <3>2. collector'[p].step = "verify" /\ \A q \in Processes : q # p => collector'[q] = collector[q]
            BY <3>1 DEF TypeOK, CollectorRecord
        <3>3. QED BY <1>1, <1>2, <3>1, <3>2
    <2>6. CASE verifyCollectionPermit(p) /\ ~stale(p)
        <3>1. goto(p, "mark") /\ collector[p].step # "idle"
            BY <2>6 DEF verifyCollectionPermit, at
        <3>2. QED BY <1>1, <1>2, <3>1, GotoEffect
    <2>7. CASE createTombstone(p) /\ ~stale(p)
        <3>1. CASE git.tombstone = "none" /\ git.refs = collector[p].seen
            <4>1. /\ collector[p].step # "idle"
                  /\ git' = [git EXCEPT !.tombstone = collector[p].kind, !.buried = collector[p].seen]
                  /\ goto(p, IF collector[p].seen = "object" THEN "remove" ELSE "complete")
                BY <2>7, <3>1 DEF createTombstone, at
            <4>2. git'.tombstone # "none" /\ git'.refs = collector[p].seen
                BY <3>1, <4>1 DEF TypeOK, GitRecord, CollectorRecord
            <4>3. collector[p].seen \in {"none", "object"}
                BY DEF TypeOK, CollectorRecord
            <4>4. QED BY <1>1, <1>2, <4>1, <4>2, <4>3, GotoEffect
        <3>2. CASE ~(git.tombstone = "none" /\ git.refs = collector[p].seen)
            <4>1. goto(p, "lookup") /\ collector[p].step # "idle"
                BY <2>7, <3>2 DEF createTombstone, at
            <4>2. QED BY <1>1, <1>2, <4>1, GotoEffect
        <3>3. QED BY <3>1, <3>2
    <2>8. CASE removeCollectedRefs(p) /\ ~stale(p)
        <3>1. /\ collector[p].step = "remove"
              /\ goto(p, "retire") \/ (goto(p, "complete") /\ git.refs = "none")
            BY <2>8 DEF removeCollectedRefs, at
        <3>2. QED BY <1>1, <1>2, <3>1, GotoEffect
    <2>9. CASE deleteRefs(p) /\ ~stale(p)
        <3>1. /\ collector[p].step = "retire"
              /\ goto(p, "remove") \/ (goto(p, "complete") /\ git' = [git EXCEPT !.refs = "none"])
            BY <2>9 DEF deleteRefs, at
        <3>2. git' = [git EXCEPT !.refs = "none"] => git'.refs = "none"
            BY DEF TypeOK, GitRecord
        <3>3. QED BY <1>1, <1>2, <3>1, <3>2, GotoEffect
    <2>10. QED
        BY <1>4, <2>1, <2>2, <2>3, <2>4, <2>5, <2>6, <2>7, <2>8, <2>9
           DEF collectorStep, completeCandidateCollection, dies
<1>5. ASSUME NEW p \in Processes, claimCandidateCollection(p)
      PROVE  /\ \A q \in Processes : q # p => collector'[q] = collector[q]
             /\ right(p)'
    <2>1. /\ collector'[p].step = "enter"
          /\ \A q \in Processes : q # p => collector'[q] = collector[q]
        BY <1>5 DEF claimCandidateCollection, TypeOK
    <2>2. candidate'.fence > 0
        <3>1. candidate.fence \in Nat
            BY DEF TypeOK, CandidateRecord
        <3>2. CASE candidate.permit = "live" /\ UNCHANGED candidate
            BY <3>2 DEF IInv, UnderMark
        <3>3. CASE candidate' = [candidate EXCEPT !.fence = @ + 1, !.permit = "live",
                                                  !.kind = kindOfPermit]
            <4>1. candidate'.fence = candidate.fence + 1
                BY <3>3 DEF TypeOK, CandidateRecord
            <4>2. QED BY <3>1, <4>1
        <3>4. QED BY <1>5, <3>2, <3>3 DEF claimCandidateCollection
    <2>3. QED BY <2>1, <2>2
<1>6. ASSUME UNCHANGED collector PROVE \A q \in Processes : right(q)'
    BY <1>3, <1>6
<1>7. \/ UNCHANGED collector
      \/ \E p \in Processes : collectorStep(p) \/ dies(p) \/ claimCandidateCollection(p)
    BY DEF Next, vars, workerStep, inspectCandidate, verifyCandidate, beginCandidateWrite,
       prepareOwned, finishCandidateWrite, recordPreparedRevision, acceptRevision, reconcile,
       interrupted, orphanCommits, claimRecovery, claimLapses, permitLapses
<1>8. \A q \in Processes : right(q)'
    BY <1>3, <1>4, <1>5, <1>6, <1>7
<1>9. QED BY <1>8 DEF Collecting

\* Only a collector that has seen the references go records the collection.
LEMMA GoneNext == ASSUME TypeOK, IInv, [Next]_vars PROVE CollectedIsGone'
<1>1. git.tombstone # "none" /\ git.refs = "none" => git'.tombstone # "none" /\ git'.refs = "none"
    BY GitKeeps
<1>2. ASSUME NEW p \in Processes, completeCandidateCollection(p) PROVE CollectedIsGone'
    <2>1. git.tombstone # "none" /\ git.refs = "none"
        BY <1>2 DEF IInv, Collecting, completeCandidateCollection, at
    <2>2. QED BY <1>1, <2>1 DEF CollectedIsGone
<1>3. ASSUME candidate'.collected = candidate.collected PROVE CollectedIsGone'
    BY <1>1, <1>3 DEF IInv, CollectedIsGone
<1>4. ASSUME NEW f \in Claims, recordPreparedRevision(f)
      PROVE  candidate'.collected = candidate.collected
    BY <1>4 DEF recordPreparedRevision, TypeOK, CandidateRecord
<1>5. ASSUME NEW p \in Processes, claimCandidateCollection(p)
      PROVE  candidate'.collected = candidate.collected
    BY <1>5 DEF claimCandidateCollection, TypeOK, CandidateRecord
<1>6. ASSUME permitLapses PROVE candidate'.collected = candidate.collected
    BY <1>6 DEF permitLapses, TypeOK, CandidateRecord
<1>7. QED
    BY <1>2, <1>3, <1>4, <1>5, <1>6 DEF Next, vars, workerStep, collectorStep, inspectCandidate,
       verifyCandidate, beginCandidateWrite, prepareOwned, finishCandidateWrite, acceptRevision,
       reconcile, interrupted, orphanCommits, claimRecovery, deleteCollectible, lookupTombstone,
       joinTombstone, readReferences, verifyCollectionPermit, createTombstone,
       removeCollectedRefs, deleteRefs, dies, claimLapses

-----------------------------------------------------------------------------
(* CandidateCollection: the results *)

\* The invariant holds initially.
LEMMA IInvInit == Init => IInv
<1> SUFFICES ASSUME Init PROVE IInv
    OBVIOUS
<1>1. PICK p \in Processes :
        /\ operation = [state |-> "processing", fence |-> 1, claim |-> "live", owner |-> p,
                        revision |-> "none"]
        /\ candidate = [prepared |-> "no", fence |-> 0, permit |-> "expired", kind |-> "partial",
                        collected |-> "no"]
        /\ git = [refs |-> "none", tombstone |-> "none", buried |-> "none"]
        /\ worker = [f \in Claims |-> [step |-> IF f = 1 THEN "inspect" ELSE "none", process |-> p,
                                       found |-> "none"]]
        /\ collector = [q \in Processes |-> NoCollector]
    BY DEF Init
<1>2. WritersHeld /\ Durable
    BY <1>1 DEF WritersHeld, Durable
<1>3. Marked /\ UnderMark /\ Buried /\ CollectedIsGone
    BY <1>1 DEF Marked, UnderMark, Buried, CollectedIsGone
<1>4. Collecting
    BY <1>1 DEF Collecting, NoCollector
<1>5. QED BY <1>2, <1>3, <1>4 DEF IInv

\* Every reachable state satisfies the invariant.
LEMMA IInvHolds == Spec => [](TypeOK /\ IInv)
<1>1. TypeOK /\ IInv /\ [Next]_vars => (TypeOK /\ IInv)'
    BY TypeNext, MarkedNext, UnderMarkNext, WritersHeldNext, DurableNext, GitKeeps, CollectingNext,
       GoneNext DEF IInv
<1>2. QED BY <1>1, TypeInit, IInvInit, PTL DEF Spec

\* Accepted content is never collected: the references of an accepted candidate
\* are there and carry neither tombstone nor permit.
THEOREM AcceptedRetained == Spec => []AcceptedIsRetained
<1>1. TypeOK /\ IInv => AcceptedIsRetained
    <2> SUFFICES ASSUME TypeOK, IInv, operation.revision = "accepted"
                 PROVE  git.refs = "object" /\ git.tombstone = "none" /\ candidate.fence = 0
        BY DEF AcceptedIsRetained
    <2>1. candidate.fence \in Nat /\ candidate.fence = 0
        BY DEF TypeOK, CandidateRecord, IInv, Marked
    <2>2. git.tombstone = "none"
        BY <2>1 DEF IInv, UnderMark
    <2>3. QED BY <2>1, <2>2 DEF IInv, Durable, Stored
<1>2. QED BY <1>1, IInvHolds, PTL

\* A candidate recorded as collected has no references and has a tombstone.
THEOREM CollectedGone == Spec => []CollectedIsGone
<1>1. IInv => CollectedIsGone
    BY DEF IInv
<1>2. QED BY <1>1, IInvHolds, PTL

\* Under a collection mark or a tombstone, no writer and no git child of a dead
\* process can still store the candidate.
THEOREM WritersStopped == Spec => []MarkMeansStopped
<1>1. TypeOK /\ IInv => MarkMeansStopped
    BY DEF MarkMeansStopped, IInv, UnderMark, Marked, WritersHeld
<1>2. QED BY <1>1, IInvHolds, PTL

\* A collection mark is for ever: under it nothing is recorded, accepted or written
\* again, the tombstone is never replaced, and references go only after it.
THEOREM RetirementFinal == Spec => RetirementIsFinal
<1> DEFINE Final ==
          /\ candidate.fence > 0 =>
               /\ candidate'.fence >= candidate.fence /\ candidate'.prepared = candidate.prepared
               /\ operation'.revision = operation.revision
               /\ git'.refs \in {git.refs, "none"} /\ writer' = writer
          /\ git.tombstone # "none" => git'.tombstone = git.tombstone /\ git'.buried = git.buried
          /\ git.refs = "object" /\ git'.refs = "none" => git.tombstone # "none"
<1>1. ASSUME TypeOK, IInv, [Next]_vars PROVE Final
    <2>1. candidate.fence > 0 => candidate'.prepared = candidate.prepared
        <3>1. ASSUME NEW f \in Claims, recordPreparedRevision(f), candidate.fence > 0
              PROVE  UNCHANGED candidate
            BY <3>1 DEF recordPreparedRevision
        <3>2. ASSUME NEW p \in Processes, claimCandidateCollection(p)
              PROVE  candidate'.prepared = candidate.prepared
            BY <1>1, <3>2 DEF claimCandidateCollection, TypeOK, CandidateRecord
        <3>3. ASSUME NEW p \in Processes, completeCandidateCollection(p)
              PROVE  candidate'.prepared = candidate.prepared
            BY <1>1, <3>3 DEF completeCandidateCollection, TypeOK, CandidateRecord
        <3>4. ASSUME permitLapses PROVE candidate'.prepared = candidate.prepared
            BY <1>1, <3>4 DEF permitLapses, TypeOK, CandidateRecord
        <3>5. QED
            BY <1>1, <3>1, <3>2, <3>3, <3>4 DEF Next, vars, workerStep, collectorStep,
               inspectCandidate, verifyCandidate, beginCandidateWrite, prepareOwned,
               finishCandidateWrite, acceptRevision, reconcile, interrupted, orphanCommits,
               claimRecovery, deleteCollectible, lookupTombstone, joinTombstone, readReferences,
               verifyCollectionPermit, createTombstone, removeCollectedRefs, deleteRefs, dies,
               claimLapses
    <2>2. candidate.fence > 0 => UNCHANGED operation
        <3>1. candidate.fence > 0 => operation.state # "processing"
            BY <1>1 DEF IInv, Marked
        <3>2. UNCHANGED operation \/ operation.state = "processing"
            BY <1>1 DEF Next, vars, workerStep, collectorStep, inspectCandidate, verifyCandidate,
               beginCandidateWrite, prepareOwned, finishCandidateWrite, recordPreparedRevision,
               acceptRevision, processing, reconcile, interrupted, orphanCommits, claimRecovery,
               claimCandidateCollection, deleteCollectible, lookupTombstone, joinTombstone,
               readReferences, verifyCollectionPermit, createTombstone, removeCollectedRefs,
               deleteRefs, completeCandidateCollection, dies, claimLapses, permitLapses
        <3>3. QED BY <3>1, <3>2
    <2>3. candidate.fence > 0 => UNCHANGED writer
        <3>1. ASSUME NEW f \in Claims, beginCandidateWrite(f), candidate.fence > 0
              PROVE  UNCHANGED writer
            BY <3>1 DEF beginCandidateWrite, mayWrite
        <3>2. ASSUME NEW f \in Claims, finishCandidateWrite(f), candidate.fence > 0
              PROVE  FALSE
            BY <1>1, <3>2 DEF finishCandidateWrite, working, IInv, WritersHeld, Marked
        <3>3. QED
            BY <1>1, <3>1, <3>2 DEF Next, vars, workerStep, collectorStep, inspectCandidate,
               verifyCandidate, prepareOwned, recordPreparedRevision, acceptRevision, reconcile,
               interrupted, orphanCommits, claimRecovery, claimCandidateCollection,
               deleteCollectible, lookupTombstone, joinTombstone, readReferences,
               verifyCollectionPermit, createTombstone, removeCollectedRefs, deleteRefs,
               completeCandidateCollection, dies, claimLapses, permitLapses
    <2>4. QED BY <1>1, <2>1, <2>2, <2>3, FenceGrows, GitKeeps
<1>2. TypeOK /\ IInv /\ [Next]_vars => [Final]_vars
    BY <1>1
<1>3. QED BY <1>2, IInvHolds, PTL DEF Spec, RetirementIsFinal
-----------------------------------------------------------------------------
(* CollectionScan: a complete job has nothing left *)

\* What the scan keeps: every job has a record with a state, and a complete job no target that is left.
CompleteInv ==
    /\ DOMAIN job = Jobs
    /\ \A j \in Jobs : "state" \in DOMAIN job[j]
    /\ CompleteMeansCollected

\* A nonempty set of targets has a first one.
LEMMA FirstTarget == ASSUME NEW S \in SUBSET Nat, S # {} PROVE \E t \in S : \A u \in S : ~(u < t)
<1> DEFINE R == {ss \in Nat \X Nat : ss[1] < ss[2]}
<1>1. IsWellFoundedOn(R, Nat)
    BY NatLessThanWellFounded DEF OpToRel
<1>2. PICK t \in S : \A u \in S : <<u, t>> \notin R
    <2> HIDE DEF R
    <2> QED BY <1>1, WFMin
<1>3. \A u \in S : u < t => <<u, t>> \in R
    OBVIOUS
<1> QED BY <1>2, <1>3

\* A page of one target from the start of a job is empty only when nothing of the job is left.
LEMMA EmptyPageMeansNothingLeft ==
    ASSUME NEW j \in Jobs, getCleanupTargets(j, 1, 0) = {} PROVE remainingTargets(j) = {}
<1> SUFFICES ASSUME remainingTargets(j) # {} PROVE FALSE
    OBVIOUS
<1> DEFINE later == {t \in remainingTargets(j) : t > 0}
<1>1. remainingTargets(j) \subseteq Nat \ {0}
    BY ScanAssumption DEF remainingTargets
<1>2. later = remainingTargets(j) /\ later \in SUBSET Nat
    BY <1>1
<1>3. PICK t \in later : \A u \in later : ~(u < t)
    <2> HIDE DEF later
    <2> QED BY <1>2, FirstTarget
<1>4. {u \in later : u < t} = {}
    BY <1>3
<1>5. Cardinality({u \in later : u < t}) < 1
    BY <1>4, FS_EmptySet
<1>6. t \in getCleanupTargets(j, 1, 0)
    BY <1>3, <1>5 DEF getCleanupTargets
<1> QED BY <1>6

\* Collecting more leaves a job no target that it had not.
LEMMA CollectedKeeps ==
    ASSUME CompleteInv, collected \subseteq collected', DOMAIN job' = Jobs, \A j \in Jobs : "state" \in DOMAIN job'[j],
           \A j \in Jobs : job'[j].state = "complete" => job[j].state = "complete" \/ remainingTargets(j) = {}
    PROVE  CompleteInv'
<1>1. \A j \in Jobs : remainingTargets(j)' \subseteq remainingTargets(j)
    BY DEF remainingTargets
<1> QED BY <1>1 DEF CompleteInv, CompleteMeansCollected

\* A step that changes one job to a record that is not complete, or that is complete with nothing left, keeps it.
LEMMA JobChanges ==
    ASSUME CompleteInv, NEW STATE i, NEW STATE r, job' = [job EXCEPT ![i] = r], collected' = collected,
           i \in Jobs => "state" \in DOMAIN r,
           i \in Jobs /\ r.state = "complete" => job[i].state = "complete" \/ remainingTargets(i) = {}
    PROVE  CompleteInv'
<1>1. DOMAIN job' = Jobs
    BY DEF CompleteInv
<1>2. \A j \in Jobs : job'[j] = IF j = i THEN r ELSE job[j]
    BY DEF CompleteInv
<1>3. ASSUME NEW j \in Jobs
      PROVE  /\ "state" \in DOMAIN job'[j]
             /\ job'[j].state = "complete" => job[j].state = "complete" \/ remainingTargets(j) = {}
    <2>1. CASE j = i
        <3>1. job'[j] = r
            BY <1>2, <2>1
        <3> QED BY <2>1, <3>1
    <2>2. CASE j # i
        <3>1. job'[j] = job[j]
            BY <1>2, <2>2
        <3> QED BY <3>1 DEF CompleteInv
    <2> QED BY <2>1, <2>2
<1>4. \A j \in Jobs : "state" \in DOMAIN job'[j]
    BY <1>3
<1>5. \A j \in Jobs : job'[j].state = "complete" => job[j].state = "complete" \/ remainingTargets(j) = {}
    BY <1>3
<1> QED BY <1>1, <1>4, <1>5, CollectedKeeps

\* A page that settles completes its job only when nothing of it is left.
LEMMA SettledIsComplete ==
    ASSUME NEW j \in Jobs
    PROVE  "state" \in DOMAIN settled(j) /\ (settled(j).state = "complete" => remainingTargets(j) = {})
<1>1. CASE tick.failure
    BY <1>1 DEF settled
<1>2. CASE ~tick.failure /\ getCleanupTargets(j, 1, 0) = {}
    BY <1>2, EmptyPageMeansNothingLeft DEF settled
<1>3. CASE ~tick.failure /\ getCleanupTargets(j, 1, 0) # {}
    BY <1>3 DEF settled
<1> QED BY <1>1, <1>2, <1>3

\* A step that leaves the jobs alone keeps it, whatever it collects.
LEMMA JobsStay == ASSUME CompleteInv, job' = job, collected \subseteq collected' PROVE CompleteInv'
<1>1. DOMAIN job' = Jobs /\ \A j \in Jobs : "state" \in DOMAIN job'[j]
    BY DEF CompleteInv
<1> QED BY <1>1, CollectedKeeps

\* The turns of the process keep it: a job that is claimed is running, and one that settles is complete only when it
\* has nothing left.
LEMMA CompleteTick == ASSUME CompleteInv, tickStep PROVE CompleteInv'
<1>1. CASE nextCollectionWork
    BY <1>1, JobsStay DEF nextCollectionWork
<1>2. CASE collectTarget
    <2>1. job' = job
        BY <1>2 DEF collectTarget
    <2>2. collected \subseteq collected'
        BY <1>2 DEF collectTarget
    <2> QED BY <2>1, <2>2, JobsStay
<1>3. CASE claimCleanup
    <2>1. collected' = collected
        BY <1>3 DEF claimCleanup
    <2>2. CASE tick.fresh
        <3> DEFINE r == [job[tick.job] EXCEPT !.state = "running", !.claim = "own"]
        <3>1. job' = [job EXCEPT ![tick.job] = r]
            BY <1>3, <2>2 DEF claimCleanup
        <3>2. tick.job \in Jobs => "state" \in DOMAIN r /\ r.state = "running"
            BY DEF CompleteInv
        <3> HIDE DEF r
        <3> QED BY <2>1, <3>1, <3>2, JobChanges
    <2>3. CASE ~tick.fresh
        BY <1>3, <2>1, <2>3, JobsStay DEF claimCleanup
    <2> QED BY <2>2, <2>3
<1>4. CASE settleCleanup
    <2>1. collected' = collected
        BY <1>4 DEF settleCleanup
    <2>2. CASE job' = job
        BY <2>1, <2>2, JobsStay
    <2>3. CASE job' = [job EXCEPT ![tick.job] = settled(tick.job)]
        BY <2>1, <2>3, JobChanges, SettledIsComplete
    <2> QED BY <1>4, <2>2, <2>3 DEF settleCleanup
<1> QED BY <1>1, <1>2, <1>3, <1>4 DEF tickStep

\* Time, the end of a run and other processes keep it.
LEMMA CompleteOthers ==
    ASSUME CompleteInv,
           tickDies \/ otherTurns \/ \E j \in Jobs : createCleanup(j) \/ claimExpires(j) \/ retryDue(j)
    PROVE  CompleteInv'
<1>1. CASE tickDies
    <2>1. collected' = collected /\ DOMAIN job' = Jobs
        BY <1>1 DEF tickDies
    <2>2. \A j \in Jobs : job'[j] = IF job[j].claim = "own" THEN [job[j] EXCEPT !.claim = "other"] ELSE job[j]
        BY <1>1 DEF tickDies
    <2>3. \A j \in Jobs : "state" \in DOMAIN job'[j] /\ job'[j].state = job[j].state
        BY <2>2 DEF CompleteInv
    <2> QED BY <2>1, <2>3, CollectedKeeps
<1>2. CASE otherTurns
    <2>1. collected' = collected
        BY <1>2 DEF otherTurns
    <2>2. CASE scan.lane = 0 /\ nextRow(0) # None
        <3> DEFINE r == [job[nextRow(0)] EXCEPT !.state = "running", !.claim = "other"]
        <3>1. job' = [job EXCEPT ![nextRow(0)] = r]
            BY <1>2, <2>2 DEF otherTurns
        <3>2. nextRow(0) \in Jobs => "state" \in DOMAIN r /\ r.state = "running"
            BY DEF CompleteInv
        <3> HIDE DEF r
        <3> QED BY <2>1, <3>1, <3>2, JobChanges
    <2>3. CASE ~(scan.lane = 0 /\ nextRow(0) # None)
        BY <1>2, <2>1, <2>3, JobsStay DEF otherTurns
    <2> QED BY <2>2, <2>3
<1>3. ASSUME NEW j \in Jobs, createCleanup(j) PROVE CompleteInv'
    <2> DEFINE r == [job[j] EXCEPT !.state = "pending", !.due = TRUE]
    <2>1. job' = [job EXCEPT ![j] = r] /\ collected' = collected
        <3>1. job' = [job EXCEPT ![j] = [@ EXCEPT !.state = "pending", !.due = TRUE]]
            BY <1>3 DEF createCleanup
        <3> QED BY <1>3, <3>1 DEF createCleanup
    <2>2. "state" \in DOMAIN r /\ r.state = "pending"
        BY DEF CompleteInv
    <2> HIDE DEF r
    <2> QED BY <2>1, <2>2, JobChanges
<1>4. ASSUME NEW j \in Jobs, claimExpires(j) PROVE CompleteInv'
    <2> DEFINE r == [job[j] EXCEPT !.claim = "none"]
    <2>1. job' = [job EXCEPT ![j] = r] /\ collected' = collected
        BY <1>4 DEF claimExpires
    <2>2. "state" \in DOMAIN r /\ r.state = job[j].state
        BY DEF CompleteInv
    <2> HIDE DEF r
    <2> QED BY <2>1, <2>2, JobChanges
<1>5. ASSUME NEW j \in Jobs, retryDue(j) PROVE CompleteInv'
    <2> DEFINE r == [job[j] EXCEPT !.due = TRUE]
    <2>1. job' = [job EXCEPT ![j] = r] /\ collected' = collected
        BY <1>5 DEF retryDue
    <2>2. "state" \in DOMAIN r /\ r.state = job[j].state
        BY DEF CompleteInv
    <2> HIDE DEF r
    <2> QED BY <2>1, <2>2, JobChanges
<1> QED BY <1>1, <1>2, <1>3, <1>4, <1>5

\* A complete cleanup job has no target left, however pages, claims, failures and dead processes interleave:
\* settleCleanup looks for a target from the start of the job before it completes it, what is collected stays
\* collected, and no step makes a job complete otherwise.
THEOREM CompleteCollected == ScanSpec => []CompleteMeansCollected
<1>1. ScanInit => CompleteInv
    BY DEF ScanInit, CompleteInv, CompleteMeansCollected
<1>2. CompleteInv /\ [ScanNext]_scanVars => CompleteInv'
    <2> SUFFICES ASSUME CompleteInv, [ScanNext]_scanVars PROVE CompleteInv'
        OBVIOUS
    <2>1. CASE UNCHANGED scanVars
        BY <2>1, JobsStay DEF scanVars
    <2>2. CASE tickStep
        BY <2>2, CompleteTick
    <2>3. CASE tickDies \/ otherTurns \/ \E j \in Jobs : createCleanup(j) \/ claimExpires(j) \/ retryDue(j)
        BY <2>3, CompleteOthers
    <2> QED BY <2>1, <2>2, <2>3 DEF ScanNext
<1>3. CompleteInv => CompleteMeansCollected
    BY DEF CompleteInv
<1> QED BY <1>1, <1>2, <1>3, PTL DEF ScanSpec
=============================================================================
