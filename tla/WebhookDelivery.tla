--------------------------- MODULE WebhookDelivery ---------------------------
(***************************************************************************)
(* Webhook deliveries to one endpoint: the event that records and queues   *)
(* them, the worker that sends them and queues its own retries:            *)
(*   lib/webhooks/webhook-subscriber.ts, lib/webhooks/webhook-queue.ts,    *)
(*   lib/webhooks/webhook-worker.ts, lib/webhooks/webhook-service.ts,      *)
(*   worker.ts, lib/queue/index.ts                                         *)
(*                                                                         *)
(* The queue is BullMQ, modelled from how the code uses it: jobs with one  *)
(* attempt, no id that would keep an attempt from being queued twice, and  *)
(* a job whose worker dies is given to a worker once more.                 *)
(* Delays are left out: a retry may be taken at any time.                  *)
(***************************************************************************)
EXTENDS Integers, FiniteSets

CONSTANTS
    Delivery,       \* deliveries of events to the endpoint
    MaxAttempts,    \* MAX_ATTEMPTS (6 in the code)
    DisableAfter,   \* consecutive failures that disable the endpoint (10 in the code)
    WorkerSlots,    \* WORKER_CONCURRENCY: jobs a worker runs at a time
    MaxDeaths,      \* bound: deaths of workers and failed statements that strike a delivery
    MaxSwitches     \* bound: times an admin switches the endpoint

ASSUME AttemptsAssumption == MaxAttempts \in Nat \ {0} /\ DisableAfter \in Nat \ {0}
ASSUME WorkerAssumption == WorkerSlots \in Nat \ {0} /\ MaxDeaths \in Nat /\ MaxSwitches \in Nat

VARIABLES
    record,      \* record[d]: the webhook_delivery row
    event,       \* event[d]: how far the subscriber is with d
    job,         \* job[j]: the jobs of the queue, none with the step "none"
    endpoint,    \* the webhook_endpoint row
    received,    \* the deliveries the receiver has accepted
    requests,    \* requests[d]: times d was sent
    turnedAway,  \* history: deliveries that met a disabled endpoint
    deaths,      \* deaths[d]: deaths of workers and failed statements at work on d
    lost,        \* history: deliveries that lost a job for good
    switches     \* times an admin switched the endpoint

webhookVars == <<record, event, job, endpoint, received, requests, turnedAway, deaths, lost, switches>>

Record == [status : {"none", "pending", "retrying", "success", "failed"}, attempt : 0..MaxAttempts]

\* The delivery, the attempt, and which of its copies: an attempt is queued again only
\* when a job of d was given out twice.
JobId == Delivery \X (1..MaxAttempts) \X (1..MaxDeaths + 1)

\* step: "waiting" in the queue, else what the worker does next; again: it was given to
\* a worker a second time.
Job == [ok : BOOLEAN, again : BOOLEAN,
        step : {"none", "waiting", "start", "refuse", "send", "record", "count", "check",
                "disable", "retry", "finish"}]

NoJob == [ok |-> FALSE, again |-> FALSE, step |-> "none"]

WebhookInit ==
    /\ record = [d \in Delivery |-> [status |-> "none", attempt |-> 0]]
    /\ event = [d \in Delivery |-> "due"]
    /\ job = [j \in JobId |-> NoJob]
    /\ endpoint = [active |-> TRUE, failures |-> 0]
    /\ received = {} /\ requests = [d \in Delivery |-> 0]
    /\ turnedAway = {} /\ deaths = [d \in Delivery |-> 0] /\ lost = {} /\ switches = 0

\* addJob: one more copy of attempt n of d.
Queued(jobs, d, n) ==
    LET free == CHOOSE i \in 1..MaxDeaths + 1 :
            jobs[<<d, n, i>>].step = "none" /\ \A k \in 1..i - 1 : jobs[<<d, n, k>>].step # "none"
    IN  [jobs EXCEPT ![<<d, n, free>>] = [NoJob EXCEPT !.step = "waiting"]]

-----------------------------------------------------------------------------
(***************************************************************************)
(* The subscriber: it finds the endpoint on, writes a row, then adds a     *)
(* job.  Errors are logged and forgotten.                                  *)
(***************************************************************************)
GetActiveWebhooks(d) ==
    /\ event[d] = "due" /\ endpoint.active
    /\ event' = [event EXCEPT ![d] = "found"]
    /\ UNCHANGED <<record, job, endpoint, received, requests, turnedAway, deaths, lost, switches>>

\* The endpoint is not asked again: it may be off by now.
CreateDeliveryRecord(d) ==
    /\ event[d] = "found"
    /\ record' = [record EXCEPT ![d] = [status |-> "pending", attempt |-> 1]]
    /\ event' = [event EXCEPT ![d] = "recorded"]
    /\ UNCHANGED <<job, endpoint, received, requests, turnedAway, deaths, lost, switches>>

AddWebhookJob(d) ==
    /\ event[d] = "recorded"
    /\ job' = Queued(job, d, 1)
    /\ event' = [event EXCEPT ![d] = "queued"]
    /\ UNCHANGED <<record, endpoint, received, requests, turnedAway, deaths, lost, switches>>

\* The insertion fails, the queue is down, or the process dies on the way.
LoseEvent(d) ==
    /\ event[d] \in {"found", "recorded"}
    /\ event' = [event EXCEPT ![d] = "lost"]
    /\ UNCHANGED <<record, job, endpoint, received, requests, turnedAway, deaths, lost, switches>>

-----------------------------------------------------------------------------
(***************************************************************************)
(* processWebhookJob, statement by statement.                              *)
(***************************************************************************)
Running == {j \in JobId : job[j].step \notin {"none", "waiting"}}

Step(j, step) == job' = [job EXCEPT ![j].step = step]

\* The job is taken, and what the endpoint is read as decides what is written next.
TakeJob(j) ==
    /\ job[j].step = "waiting" /\ Cardinality(Running) < WorkerSlots
    /\ \/ endpoint.active /\ Step(j, "start") /\ UNCHANGED turnedAway
       \/ ~endpoint.active /\ Step(j, "refuse") /\ turnedAway' = turnedAway \cup {j[1]}
    /\ UNCHANGED <<record, event, endpoint, received, requests, deaths, lost, switches>>

\* updateDeliveryRecord.
SetRecord(j, status) == record' = [record EXCEPT ![j[1]] = [status |-> status, attempt |-> j[2]]]

StartAttempt(j) ==
    /\ job[j].step = "start"
    /\ SetRecord(j, IF j[2] > 1 THEN "retrying" ELSE "pending")
    /\ Step(j, "send")
    /\ UNCHANGED <<event, endpoint, received, requests, turnedAway, deaths, lost, switches>>

RefuseDelivery(j) ==
    /\ job[j].step = "refuse"
    /\ SetRecord(j, "failed")
    /\ Step(j, "finish")
    /\ UNCHANGED <<event, endpoint, received, requests, turnedAway, deaths, lost, switches>>

\* executeWebhookRequest; an answer that times out may have been accepted.
Send(j) ==
    /\ job[j].step = "send"
    /\ requests' = [requests EXCEPT ![j[1]] = @ + 1]
    /\ \E ok, accepted \in BOOLEAN :
          /\ ok => accepted
          /\ job' = [job EXCEPT ![j].step = "record", ![j].ok = ok]
          /\ received' = IF accepted THEN received \cup {j[1]} ELSE received
    /\ UNCHANGED <<record, event, endpoint, turnedAway, deaths, lost, switches>>

\* Variant: a failure is final at once.
OutcomeFailedAtOnce(j) == IF job[j].ok THEN "success" ELSE "failed"

Outcome(j) == IF job[j].ok THEN "success" ELSE IF j[2] >= MaxAttempts THEN "failed" ELSE "retrying"

RecordOutcome(j) ==
    /\ job[j].step = "record"
    /\ SetRecord(j, Outcome(j))
    /\ Step(j, "count")
    /\ UNCHANGED <<event, endpoint, received, requests, turnedAway, deaths, lost, switches>>

\* Variant: a delivered webhook goes on to the retry.
AfterCountAlways(j) == "check"

\* Variant: a failed attempt is counted and no retry scheduled.
AfterCountNever(j) == "finish"

AfterCount(j) == IF job[j].ok THEN "finish" ELSE "check"

UpdateEndpointStats(j) ==
    /\ job[j].step = "count"
    /\ endpoint' = [endpoint EXCEPT !.failures = IF job[j].ok THEN 0 ELSE @ + 1]
    /\ Step(j, AfterCount(j))
    /\ UNCHANGED <<record, event, received, requests, turnedAway, deaths, lost, switches>>

\* checkAndDisableUnhealthyEndpoint reads ...
CheckEndpoint(j) ==
    /\ job[j].step = "check"
    /\ Step(j, IF endpoint.active /\ endpoint.failures >= DisableAfter THEN "disable" ELSE "retry")
    /\ UNCHANGED <<record, event, endpoint, received, requests, turnedAway, deaths, lost, switches>>

\* ... and disables by what it has read.
DisableEndpoint(j) ==
    /\ job[j].step = "disable"
    /\ endpoint' = [endpoint EXCEPT !.active = FALSE]
    /\ Step(j, "retry")
    /\ UNCHANGED <<record, event, received, requests, turnedAway, deaths, lost, switches>>

ScheduleRetry(j) ==
    /\ job[j].step = "retry"
    /\ job' = [IF j[2] < MaxAttempts THEN Queued(job, j[1], j[2] + 1) ELSE job
                  EXCEPT ![j].step = "finish"]
    /\ UNCHANGED <<record, event, endpoint, received, requests, turnedAway, deaths, lost, switches>>

\* The processor returns and the queue removes the job.
Finish(j) ==
    /\ job[j].step = "finish"
    /\ job' = [job EXCEPT ![j] = NoJob]
    /\ UNCHANGED <<record, event, endpoint, received, requests, turnedAway, deaths, lost, switches>>

-----------------------------------------------------------------------------
\* The worker dies: the queue finds the job stalled and gives it out once more, but not
\* a second time.
Stall(j) ==
    /\ j \in Running /\ deaths[j[1]] < MaxDeaths
    /\ deaths' = [deaths EXCEPT ![j[1]] = @ + 1]
    /\ job' = [job EXCEPT ![j] = IF job[j].again THEN NoJob
                                 ELSE [NoJob EXCEPT !.step = "waiting", !.again = TRUE]]
    /\ lost' = IF job[j].again THEN lost \cup {j[1]} ELSE lost
    /\ UNCHANGED <<record, event, endpoint, received, requests, turnedAway, switches>>

\* A statement fails: the job had its one attempt.
Break(j) ==
    /\ j \in Running /\ deaths[j[1]] < MaxDeaths
    /\ deaths' = [deaths EXCEPT ![j[1]] = @ + 1]
    /\ job' = [job EXCEPT ![j] = NoJob]
    /\ lost' = lost \cup {j[1]}
    /\ UNCHANGED <<record, event, endpoint, received, requests, turnedAway, switches>>

\* updateWebhookEndpoint: an admin switches it on or off; the failures stay counted.
SwitchEndpoint ==
    /\ switches < MaxSwitches /\ switches' = switches + 1
    /\ endpoint' = [endpoint EXCEPT !.active = ~@]
    /\ UNCHANGED <<record, event, job, received, requests, turnedAway, deaths, lost>>

-----------------------------------------------------------------------------
Work(j) ==
    \/ TakeJob(j)
    \/ StartAttempt(j)
    \/ RefuseDelivery(j)
    \/ Send(j)
    \/ RecordOutcome(j)
    \/ UpdateEndpointStats(j)
    \/ CheckEndpoint(j)
    \/ DisableEndpoint(j)
    \/ ScheduleRetry(j)
    \/ Finish(j)

WorkOnSomeJob == \E j \in JobId : Work(j)

WebhookNext ==
    \/ \E d \in Delivery :
          GetActiveWebhooks(d) \/ CreateDeliveryRecord(d) \/ AddWebhookJob(d) \/ LoseEvent(d)
    \/ \E j \in JobId : Work(j) \/ Stall(j) \/ Break(j)
    \/ SwitchEndpoint

\* A worker that has jobs works on them; there are finitely many, so working on some job
\* for ever is working on each.
WebhookSpec == WebhookInit /\ [][WebhookNext]_webhookVars /\ WF_webhookVars(WorkOnSomeJob)

-----------------------------------------------------------------------------
(***************************************************************************)
(* Properties.                                                             *)
(***************************************************************************)

\* Every variable has the type its column or value has.
WebhookTypeOK ==
    /\ record \in [Delivery -> Record]
    /\ event \in [Delivery -> {"due", "found", "recorded", "queued", "lost"}]
    /\ job \in [JobId -> Job]
    /\ endpoint \in [active : BOOLEAN, failures : Nat]
    /\ received \subseteq Delivery /\ requests \in [Delivery -> Nat]
    /\ turnedAway \subseteq Delivery
    /\ deaths \in [Delivery -> 0..MaxDeaths] /\ lost \subseteq Delivery /\ switches \in 0..MaxSwitches

\* "After 6 failed attempts, the delivery is marked as permanently failed" (webhooks
\* guide) and not before, whatever dies: all attempts were made or the endpoint was off.
FailedAfterAllAttempts ==
    \A d \in Delivery : record[d].status = "failed" =>
        d \in turnedAway \/ requests[d] >= MaxAttempts

\* Whatever dies, a delivery that is recorded as a success was accepted by the receiver.
SuccessWasReceived ==
    \A d \in Delivery : record[d].status = "success" => d \in received

\* How each delivery stands, and whose events found the endpoint on.
deliveryStatus == [d \in Delivery |-> record[d].status]
foundOn == {d \in Delivery : event[d] # "due"}

\* What the subscriber, the worker, the queue and the endpoint do to a delivery is what it
\* was promised: it is recorded only if its event found the endpoint on, maybe after the
\* endpoint was switched off; it is sent at most MaxAttempts times, and as often again for each death of a worker
\* that had one of its jobs; a delivery that has ended is not opened or sent again unless
\* such a death struck it, however the other deliveries, the switching and the disabling
\* of the endpoint interleave, and whatever strikes the others.
Promise == INSTANCE WebhookPromise WITH
    serving <- endpoint.active,
    noticed <- foundOn,
    status <- deliveryStatus,
    sent <- requests,
    accepted <- received,
    accidents <- deaths

DeliveriesAsPromised == Promise!Spec

\* Every queued delivery ends as a success or a failure and stays one, also when a worker
\* dies and its job is run again, unless one of its own jobs is lost for good.
EveryQueuedDeliveryEnds ==
    <>[](\A d \in Delivery :
            event[d] = "queued" => record[d].status \in {"success", "failed"} \/ d \in lost)
=============================================================================
