-------------------------------- MODULE Outbox --------------------------------
(***************************************************************************)
(* Delivery of one outbox event to its webhook subscribers: the catalog    *)
(* side (claimOutbox, recordDelivery, releaseOutboxClaim) and the outbox   *)
(* pass of the maintenance tick, run by several server processes at once.  *)
(*                                                                         *)
(* A catalog call is one transaction and one action.  Between two calls a  *)
(* process waits for an endpoint; it may die there, or be so slow that its *)
(* claim expires and another process takes over.                           *)
(*                                                                         *)
(* listPendingOutbox only proposes a version that claimOutbox compares     *)
(* again, so the scan and the claim are one action.                        *)
(*                                                                         *)
(* A broken endpoint is retried for ever, so nothing here may count claims *)
(* or attempts.  Timestamps are abstracted to whether they have passed, a  *)
(* receipt's updatedAt to the recipients tried before.  Fences and         *)
(* versions are only compared for equality: the event names the process    *)
(* whose fence is its claim's, and those that hold its stored version.     *)
(***************************************************************************)
EXTENDS Naturals, FiniteSets

CONSTANTS Subscriptions,  \* webhook subscriptions of the customer
          Broken,         \* those whose endpoint never accepts a delivery
          Nobody,         \* "no recipient", "no process"
          Workers,        \* server processes running maintenance
          MaxDeliveries,  \* deliveries one tick may attempt
          MaxAttempts,    \* attempts by which a working endpoint has answered
          MaxLapses       \* crashes, and claims that expire under a process still working

ASSUME SubscriptionAssumption ==
    Broken \subseteq Subscriptions /\ Nobody \notin Subscriptions \cup Workers
ASSUME BoundAssumption == MaxDeliveries \in Nat \ {0} /\ MaxAttempts \in Nat /\ MaxLapses \in Nat

VARIABLES subscription, \* the state of each subscription
          event,        \* the outbox event record
          recipients,   \* the recipient set frozen by the first claim
          receipt,      \* the delivery receipt of each subscription
          triedBefore,  \* updatedAt: the recipients last tried before this one was
          received,     \* how often each endpoint accepted the event
          sender,       \* the state of each process between two awaits
          lapses        \* how often a process failed its claim

outboxVars == <<subscription, event, recipients, receipt, triedBefore, received, sender, lapses>>

-----------------------------------------------------------------------------
(* Records *)

\* The holder made the last claim: its fence is the event's.  An event that was
\* never claimed has no holder and claim "expired".
EventRecord == [deliveryState: {"pending", "running", "complete", "failed"},
                nextAttemptAt: {"due", "later"}, holder: Workers \cup {Nobody},
                versionKnownTo: SUBSET Workers, claim: {"live", "expired"}, frozen: {"no", "yes"}]
ReceiptRecord == [delivered: {"no", "yes"}, attempts: 0 .. MaxAttempts,
                  nextAttemptAt: {"due", "later"}]
SenderRecord == [step: {"idle", "list", "deliver", "record", "release"},
                 todo: SUBSET Subscriptions, recipient: Subscriptions \cup {Nobody},
                 answer: {"none", "accepted", "refused"}]

NewEvent == [deliveryState |-> "pending", nextAttemptAt |-> "due", holder |-> Nobody,
             versionKnownTo |-> {}, claim |-> "expired", frozen |-> "no"]
NoReceipt == [delivered |-> "no", attempts |-> 0, nextAttemptAt |-> "due"]
IdleWorker == [step |-> "idle", todo |-> {}, recipient |-> Nobody, answer |-> "none"]

OutboxTypeOK ==
    /\ subscription \in [Subscriptions -> {"new", "active", "departed"}]
    /\ event \in EventRecord
    /\ recipients \in SUBSET Subscriptions
    /\ receipt \in [Subscriptions -> ReceiptRecord]
    /\ triedBefore \in [Subscriptions -> SUBSET Subscriptions]
    /\ received \in [Subscriptions -> Nat]
    /\ sender \in [Workers -> SenderRecord]
    /\ lapses \in 0 .. MaxLapses
    /\ \A w \in Workers : sender[w].step = "record" => sender[w].recipient \in Subscriptions

OutboxInit ==
    /\ subscription \in [Subscriptions -> {"new", "active"}]
    /\ event = NewEvent
    /\ recipients = {}
    /\ receipt = [s \in Subscriptions |-> NoReceipt]
    /\ triedBefore = [s \in Subscriptions |-> {}]
    /\ received = [s \in Subscriptions |-> 0]
    /\ sender = [w \in Workers |-> IdleWorker]
    /\ lapses = 0

-----------------------------------------------------------------------------
(* Subscriptions *)

registerSubscription(s) ==
    /\ subscription[s] = "new"
    /\ subscription' = [subscription EXCEPT ![s] = "active"]
    /\ UNCHANGED <<event, recipients, receipt, triedBefore, received, sender, lapses>>

deleteWebhook(s) ==
    /\ subscription[s] = "active"
    /\ subscription' = [subscription EXCEPT ![s] = "departed"]
    /\ UNCHANGED <<event, recipients, receipt, triedBefore, received, sender, lapses>>

subscriptions == {s \in Subscriptions : subscription[s] = "active"}

-----------------------------------------------------------------------------
(* The outbox pass of one process *)

\* The first claim freezes the recipients; later ones use the frozen set.
recipientsAtClaim == IF event.frozen = "yes" THEN recipients ELSE subscriptions

claimable ==
    /\ event.deliveryState # "complete"
    /\ event.nextAttemptAt = "due"
    /\ event.claim = "expired"

claimOutbox(w) ==
    /\ sender[w].step = "idle"
    /\ claimable
    /\ recipients' = recipientsAtClaim
    /\ IF recipientsAtClaim = {}
       THEN /\ event' = [event EXCEPT !.deliveryState = "complete", !.versionKnownTo = {},
                                      !.frozen = "yes"]
            /\ UNCHANGED sender
       ELSE /\ event' = [event EXCEPT !.deliveryState = "running", !.versionKnownTo = {w},
                                      !.holder = w, !.claim = "live", !.frozen = "yes"]
            /\ sender' = [sender EXCEPT ![w] = [IdleWorker EXCEPT !.step = "list"]]
    /\ UNCHANGED <<subscription, receipt, triedBefore, received, lapses>>

dueRecipients == {s \in recipients : receipt[s].delivered = "no" /\ receipt[s].nextAttemptAt = "due"}

\* Mutant: the due recipients come in any order.
waitsAtAll(s, others) == s \in Subscriptions /\ others \subseteq Subscriptions

\* The query's order: the recipient whose last attempt is the oldest comes first.
waitsLongest(s, others) == triedBefore[s] \cap others = {}

\* Other events of the same tick may have used up part of the batch size.
listDueOutboxRecipients(w) ==
    /\ sender[w].step = "list"
    /\ \E limit \in 1 .. MaxDeliveries, batch \in SUBSET dueRecipients :
         /\ Cardinality(batch) = limit \/ (batch = dueRecipients /\ Cardinality(batch) <= limit)
         /\ \A s \in batch : waitsLongest(s, dueRecipients \ batch)
         /\ sender' = [sender EXCEPT ![w] =
                         [@ EXCEPT !.step = IF batch = {} THEN "release" ELSE "deliver",
                                   !.todo = batch]]
    /\ UNCHANGED <<subscription, event, recipients, receipt, triedBefore, received, lapses>>

answered(w, s, answer) ==
    sender' = [sender EXCEPT ![w] = [@ EXCEPT !.step = "record", !.todo = sender[w].todo \ {s},
                                              !.recipient = s, !.answer = answer]]

\* One HTTP request to the next recipient of the batch.  The endpoint may accept
\* the event although the process sees an error or a timeout.
deliver(w) ==
    /\ sender[w].step = "deliver"
    /\ \E s \in sender[w].todo :
         /\ waitsLongest(s, sender[w].todo)
         /\ \/ /\ s \notin Broken
               /\ received' = [received EXCEPT ![s] = @ + 1]
               /\ answered(w, s, "accepted")
            \/ /\ s \in Broken \/ receipt[s].attempts + 1 < MaxAttempts
               /\ \/ UNCHANGED received
                  \/ s \notin Broken /\ received' = [received EXCEPT ![s] = @ + 1]
               /\ answered(w, s, "refused")
    /\ UNCHANGED <<subscription, event, recipients, receipt, triedBefore, lapses>>

\* Mutant: a late answer is recorded by whoever brings it.
ownsClaimAny(w) == event.deliveryState = "running"

\* The fence, expiry and version checks of recordDelivery and releaseOutboxClaim.
ownsClaim(w) ==
    /\ event.holder = w
    /\ event.claim = "live"
    /\ event.deliveryState = "running"
    /\ w \in event.versionKnownTo

giveUp(w) == sender' = [sender EXCEPT ![w] = IdleWorker]

successful(w) == receipt[sender[w].recipient].delivered = "yes" \/ sender[w].answer = "accepted"

\* Attempts only decide when a working endpoint answers: they are not counted further.
attemptsAfter(s) == IF receipt[s].attempts < MaxAttempts THEN receipt[s].attempts + 1 ELSE MaxAttempts

newReceipt(w) ==
    [delivered |-> IF successful(w) THEN "yes" ELSE "no",
     attempts |-> attemptsAfter(sender[w].recipient),
     nextAttemptAt |-> IF successful(w) THEN "due" ELSE "later"]

\* The attempt that is recorded is the latest of all.
triedLast(s) ==
    [t \in Subscriptions |-> IF t = s THEN Subscriptions \ {s} ELSE triedBefore[t] \ {s}]

remaining == {s \in recipients : receipt[s].delivered = "no"}

\* The recipients that are still owed the event, once w's answer is recorded.
remainingAfter(w) == {s \in remaining : s # sender[w].recipient \/ ~successful(w)}

dueAfter(w) == {s \in remainingAfter(w) : s # sender[w].recipient /\ receipt[s].nextAttemptAt = "due"}

\* Mutant: a batch that ends with a success completes the event.
deliveryStateAfterSuccess(w) ==
    IF successful(w) /\ sender[w].todo = {} THEN "complete"
    ELSE IF dueAfter(w) # {} THEN "running" ELSE "failed"

deliveryStateAfter(w) ==
    IF remainingAfter(w) = {} THEN "complete"
    ELSE IF dueAfter(w) # {} THEN "running"
    ELSE "failed"

recordDelivery(w) ==
    /\ sender[w].step = "record"
    /\ ownsClaim(w)
    /\ receipt' = [receipt EXCEPT ![sender[w].recipient] = newReceipt(w)]
    /\ triedBefore' = triedLast(sender[w].recipient)
    /\ event' = [event EXCEPT !.deliveryState = deliveryStateAfter(w), !.versionKnownTo = {w},
                              !.nextAttemptAt = IF remainingAfter(w) = {} \/ dueAfter(w) # {}
                                                THEN "due" ELSE "later",
                              !.claim = IF deliveryStateAfter(w) = "failed" THEN "expired" ELSE @]
    /\ IF deliveryStateAfter(w) # "running"
       THEN giveUp(w)
       ELSE sender' = [sender EXCEPT ![w] =
                         [@ EXCEPT !.step = IF sender[w].todo = {} THEN "release" ELSE "deliver",
                                   !.recipient = Nobody, !.answer = "none"]]
    /\ UNCHANGED <<subscription, recipients, received, lapses>>

releaseOutboxClaim(w) ==
    /\ sender[w].step = "release"
    /\ ownsClaim(w)
    /\ event' = [event EXCEPT !.deliveryState = "pending", !.versionKnownTo = {w},
                              !.nextAttemptAt = "due", !.claim = "expired"]
    /\ giveUp(w)
    /\ UNCHANGED <<subscription, recipients, receipt, triedBefore, received, lapses>>

\* A refused call ends this event's turn; the error is not reported.
staleClaim(w) ==
    /\ sender[w].step \in {"record", "release"}
    /\ ~ownsClaim(w)
    /\ giveUp(w)
    /\ UNCHANGED <<subscription, event, recipients, receipt, triedBefore, received, lapses>>

crash(w) ==
    /\ sender[w].step # "idle" /\ lapses < MaxLapses
    /\ lapses' = lapses + 1
    /\ giveUp(w)
    /\ UNCHANGED <<subscription, event, recipients, receipt, triedBefore, received>>

-----------------------------------------------------------------------------
(* Deadlines *)

\* No process works under the event's claim any more.
abandoned == \A w \in Workers : event.holder = w => sender[w].step = "idle"

eventClaimLapses ==
    /\ event.claim = "live" /\ event.deliveryState = "running"
    /\ event' = [event EXCEPT !.claim = "expired"]
    /\ \/ abandoned /\ UNCHANGED lapses
       \/ ~abandoned /\ lapses < MaxLapses /\ lapses' = lapses + 1
    /\ UNCHANGED <<subscription, recipients, receipt, triedBefore, received, sender>>

\* The event's nextAttemptAt is the earliest of its remaining recipients'.
retryElapses(s) ==
    /\ receipt[s].nextAttemptAt = "later"
    /\ receipt' = [receipt EXCEPT ![s].nextAttemptAt = "due"]
    /\ event' = [event EXCEPT !.nextAttemptAt = "due"]
    /\ UNCHANGED <<subscription, recipients, triedBefore, received, sender, lapses>>

-----------------------------------------------------------------------------

outboxPass(w) ==
    \/ listDueOutboxRecipients(w) \/ deliver(w) \/ recordDelivery(w) \/ releaseOutboxClaim(w)
    \/ staleClaim(w)

OutboxNext ==
    \/ \E s \in Subscriptions :
         registerSubscription(s) \/ deleteWebhook(s) \/ retryElapses(s)
    \/ \E w \in Workers : claimOutbox(w) \/ outboxPass(w) \/ crash(w)
    \/ eventClaimLapses

OutboxSpec == OutboxInit /\ [][OutboxNext]_outboxVars

\* Maintenance ticks for ever, a live process finishes its pass, a retry delay
\* passes, and so does a claim whose process is gone.
OutboxFairness ==
    /\ WF_outboxVars(\E w \in Workers : claimOutbox(w))
    /\ \A w \in Workers : WF_outboxVars(outboxPass(w))
    /\ \A s \in Subscriptions : WF_outboxVars(retryElapses(s))
    /\ WF_outboxVars(abandoned /\ eventClaimLapses)

OutboxFairSpec == OutboxSpec /\ OutboxFairness

-----------------------------------------------------------------------------
(* Properties *)

\* An event is complete exactly when every recipient frozen by the first claim
\* has a success on record, and each of these successes is one the endpoint
\* really accepted, although answers come late, from processes that lost their
\* claim, or not at all (claimOutbox, recordDelivery).
CompleteMeansDelivered ==
    /\ event.deliveryState = "complete" <=> event.frozen = "yes" /\ remaining = {}
    /\ \A s \in Subscriptions : receipt[s].delivered = "yes" => received[s] > 0 /\ s \in recipients

\* A process that still owns the claim never sends the event to a recipient
\* whose success is already on record, and its compare-and-swap is not refused:
\* nothing but its own calls moved the version (listDueOutboxRecipients).
NoRedeliveryUnderClaim ==
    \A w \in Workers : sender[w].step # "idle" /\ event.holder = w =>
        /\ w \in event.versionKnownTo
        /\ \A s \in sender[w].todo \cup {sender[w].recipient} :
             s \in Subscriptions => receipt[s].delivered = "no"

\* A recipient whose endpoint works in the end is served, although broken
\* endpoints of the same event are retried for ever, batches are small, processes
\* crash and claims lapse: whoever waits longest for an attempt is tried first.
HealthyRecipientServed ==
    \A s \in Subscriptions \ Broken : s \in recipients ~> receipt[s].delivered = "yes"
=============================================================================
