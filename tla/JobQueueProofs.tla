---------------------------- MODULE JobQueueProofs ----------------------------
(***************************************************************************)
(* What holds of the work the job queue carries, whatever dies: of webhook *)
(* deliveries for any number of deliveries, attempts and workers, and of an *)
(* import for any entity types, rows, admins and attempts.                 *)
(***************************************************************************)
EXTENDS WebhookDelivery, ImportReview, FiniteSetTheorems, TLAPS

-----------------------------------------------------------------------------
(***************************************************************************)
(* Webhook deliveries.                                                     *)
(***************************************************************************)


-----------------------------------------------------------------------------
(***************************************************************************)
(* Type correctness.                                                       *)
(***************************************************************************)

\* Queueing an attempt keeps the jobs jobs.
LEMMA QueuedTyped ==
    ASSUME NEW jobs \in [JobId -> Job], NEW d, NEW n
    PROVE  Queued(jobs, d, n) \in [JobId -> Job]
<1>1. [NoJob EXCEPT !.step = "waiting"] \in Job
  BY DEF NoJob, Job
<1> DEFINE free == CHOOSE i \in 1..MaxDeaths + 1 :
        jobs[<<d, n, i>>].step = "none" /\ \A k \in 1..i - 1 : jobs[<<d, n, k>>].step # "none"
<1>2. Queued(jobs, d, n) = [jobs EXCEPT ![<<d, n, free>>] = [NoJob EXCEPT !.step = "waiting"]]
  BY DEF Queued
<1> HIDE DEF free
<1>3. QED
  BY <1>1, <1>2

\* Going on to the next step keeps a job a job.
LEMMA StepTyped ==
    ASSUME WebhookTypeOK, NEW j \in JobId,
           NEW step \in {"start", "refuse", "send", "record", "count", "check", "disable", "retry", "finish"},
           Step(j, step)
    PROVE  job' \in [JobId -> Job]
<1>1. [job[j] EXCEPT !.step = step] \in Job
  BY DEF WebhookTypeOK, Job
<1>2. job' = [job EXCEPT ![j] = [job[j] EXCEPT !.step = step]]
  BY DEF Step
<1>3. QED
  BY <1>1, <1>2 DEF WebhookTypeOK

\* The delivery and the attempt of a job.
LEMMA JobParts ==
    ASSUME NEW j \in JobId
    PROVE  j[1] \in Delivery /\ j[2] \in 1..MaxAttempts /\ j[2] \in 0..MaxAttempts
BY AttemptsAssumption DEF JobId

\* The steps of the subscriber keep the types.
LEMMA EventTypeStep ==
    ASSUME WebhookTypeOK,
           NEW d \in Delivery,
           GetActiveWebhooks(d) \/ CreateDeliveryRecord(d) \/ AddWebhookJob(d) \/ LoseEvent(d)
    PROVE  WebhookTypeOK'
<1>1. CASE CreateDeliveryRecord(d)
  <2>1. [status |-> "pending", attempt |-> 1] \in Record
    BY AttemptsAssumption DEF Record
  <2>2. QED
    BY <1>1, <2>1 DEF CreateDeliveryRecord, WebhookTypeOK
<1>2. CASE AddWebhookJob(d)
  BY <1>2, QueuedTyped DEF AddWebhookJob, WebhookTypeOK
<1>3. CASE GetActiveWebhooks(d) \/ LoseEvent(d)
  BY <1>3 DEF GetActiveWebhooks, LoseEvent, WebhookTypeOK
<1>4. QED
  BY <1>1, <1>2, <1>3

\* The steps of a worker keep the types.
LEMMA WorkTypeStep == ASSUME WebhookTypeOK, NEW j \in JobId, Work(j) PROVE WebhookTypeOK'
<1>1. j[1] \in Delivery /\ j[2] \in 1..MaxAttempts /\ j[2] \in 0..MaxAttempts
  BY JobParts
<1>2. \A s \in {"pending", "retrying", "success", "failed"} : [status |-> s, attempt |-> j[2]] \in Record
  BY <1>1 DEF Record
<1>3. CASE TakeJob(j) \/ StartAttempt(j) \/ RefuseDelivery(j)
  <2>1. job' \in [JobId -> Job]
    BY <1>3, StepTyped DEF TakeJob, StartAttempt, RefuseDelivery
  <2>2. record' \in [Delivery -> Record]
    BY <1>1, <1>2, <1>3 DEF TakeJob, StartAttempt, RefuseDelivery, SetRecord, WebhookTypeOK
  <2>3. QED
    BY <1>1, <1>3, <2>1, <2>2 DEF TakeJob, StartAttempt, RefuseDelivery, WebhookTypeOK
<1>4. CASE Send(j)
  <2>1. PICK ok, accepted \in BOOLEAN :
            /\ job' = [job EXCEPT ![j].step = "record", ![j].ok = ok]
            /\ received' = IF accepted THEN received \cup {j[1]} ELSE received
    BY <1>4 DEF Send
  <2>2. [job[j] EXCEPT !.step = "record", !.ok = ok] \in Job
    BY DEF WebhookTypeOK, Job
  <2>3. job' \in [JobId -> Job]
    BY <2>1, <2>2 DEF WebhookTypeOK
  <2>4. requests' \in [Delivery -> Nat]
    BY <1>1, <1>4 DEF Send, WebhookTypeOK
  <2>5. QED
    BY <1>1, <1>4, <2>1, <2>3, <2>4 DEF Send, WebhookTypeOK
<1>5. CASE RecordOutcome(j)
  <2>1. job' \in [JobId -> Job]
    BY <1>5, StepTyped DEF RecordOutcome
  <2>2. record' \in [Delivery -> Record]
    BY <1>1, <1>2, <1>5 DEF RecordOutcome, SetRecord, Outcome, WebhookTypeOK
  <2>3. QED
    BY <1>5, <2>1, <2>2 DEF RecordOutcome, WebhookTypeOK
<1>6. CASE UpdateEndpointStats(j)
  <2>1. job' \in [JobId -> Job]
    BY <1>6, StepTyped DEF UpdateEndpointStats, AfterCount
  <2>2. endpoint' \in [active : BOOLEAN, failures : Nat]
    BY <1>6 DEF UpdateEndpointStats, WebhookTypeOK
  <2>3. QED
    BY <1>6, <2>1, <2>2 DEF UpdateEndpointStats, WebhookTypeOK
<1>7. CASE CheckEndpoint(j)
  <2>1. job' \in [JobId -> Job]
    BY <1>7, StepTyped DEF CheckEndpoint
  <2>2. QED
    BY <1>7, <2>1 DEF CheckEndpoint, WebhookTypeOK
<1>8. CASE DisableEndpoint(j)
  <2>1. job' \in [JobId -> Job]
    BY <1>8, StepTyped DEF DisableEndpoint
  <2>2. endpoint' \in [active : BOOLEAN, failures : Nat]
    BY <1>8 DEF DisableEndpoint, WebhookTypeOK
  <2>3. QED
    BY <1>8, <2>1, <2>2 DEF DisableEndpoint, WebhookTypeOK
<1>9. CASE ScheduleRetry(j)
  <2> DEFINE jobs == IF j[2] < MaxAttempts THEN Queued(job, j[1], j[2] + 1) ELSE job
  <2>1. jobs \in [JobId -> Job]
    BY QueuedTyped DEF WebhookTypeOK
  <2>2. job' = [jobs EXCEPT ![j].step = "finish"]
    BY <1>9 DEF ScheduleRetry
  <2> HIDE DEF jobs
  <2>3. [jobs[j] EXCEPT !.step = "finish"] \in Job
    BY <2>1 DEF Job
  <2>4. job' = [jobs EXCEPT ![j] = [jobs[j] EXCEPT !.step = "finish"]]
    BY <2>2
  <2>5. job' \in [JobId -> Job]
    BY <2>1, <2>3, <2>4
  <2>6. QED
    BY <1>9, <2>5 DEF ScheduleRetry, WebhookTypeOK
<1>10. CASE Finish(j)
  <2>1. NoJob \in Job
    BY DEF NoJob, Job
  <2>2. QED
    BY <1>10, <2>1 DEF Finish, WebhookTypeOK
<1>11. QED
  BY <1>3, <1>4, <1>5, <1>6, <1>7, <1>8, <1>9, <1>10 DEF Work

\* The deaths keep the types.
LEMMA DeathTypeStep == ASSUME WebhookTypeOK, NEW j \in JobId, Stall(j) \/ Break(j) PROVE WebhookTypeOK'
<1>1. NoJob \in Job /\ [NoJob EXCEPT !.step = "waiting", !.again = TRUE] \in Job
  BY DEF NoJob, Job
<1>2. job' \in [JobId -> Job]
  BY <1>1 DEF Stall, Break, WebhookTypeOK
<1>3. deaths' \in [Delivery -> 0..MaxDeaths]
  BY JobParts, WorkerAssumption DEF Stall, Break, WebhookTypeOK
<1>5. lost' \subseteq Delivery
  BY JobParts DEF Stall, Break, WebhookTypeOK
<1>6. QED
  BY <1>2, <1>3, <1>5 DEF Stall, Break, WebhookTypeOK

\* At the start every variable has its type.
LEMMA WebhookStartTyped == ASSUME WebhookInit PROVE WebhookTypeOK
<1>1. NoJob \in Job /\ [status |-> "none", attempt |-> 0] \in Record
  BY AttemptsAssumption DEF NoJob, Job, Record
<1>2. deaths \in [Delivery -> 0..MaxDeaths] /\ switches \in 0..MaxSwitches
  BY WorkerAssumption DEF WebhookInit
<1>3. QED
  BY <1>1, <1>2 DEF WebhookInit, WebhookTypeOK

\* ... and each step keeps them.
LEMMA WebhookTypeStep == ASSUME WebhookTypeOK, [WebhookNext]_webhookVars PROVE WebhookTypeOK'
<1>1. CASE UNCHANGED webhookVars
  BY <1>1 DEF WebhookTypeOK, webhookVars
<1>2. CASE SwitchEndpoint
  <2>1. endpoint' \in [active : BOOLEAN, failures : Nat]
    BY <1>2 DEF SwitchEndpoint, WebhookTypeOK
  <2>2. switches' \in 0..MaxSwitches
    BY <1>2, WorkerAssumption DEF SwitchEndpoint, WebhookTypeOK
  <2>3. QED
    BY <1>2, <2>1, <2>2 DEF SwitchEndpoint, WebhookTypeOK
<1>3. QED
  BY <1>1, <1>2, EventTypeStep, WorkTypeStep, DeathTypeStep DEF WebhookNext

\* Every variable keeps its type.
THEOREM WebhookTypeCorrect == WebhookSpec => []WebhookTypeOK
BY WebhookStartTyped, WebhookTypeStep, PTL DEF WebhookSpec

-----------------------------------------------------------------------------
(***************************************************************************)
(* A success was received.                                                 *)
(***************************************************************************)

\* A job that has a good answer was accepted by the receiver, and so was a delivery that
\* is recorded as a success.
ReceivedInv ==
    /\ \A j \in JobId : job[j].ok => j[1] \in received
    /\ SuccessWasReceived

\* Queueing an attempt gives no job an answer.
LEMMA QueuedHasNoAnswer ==
    ASSUME NEW jobs \in [JobId -> Job], NEW d, NEW n
    PROVE  \A j \in JobId : Queued(jobs, d, n)[j].ok => jobs[j].ok
<1> DEFINE free == CHOOSE i \in 1..MaxDeaths + 1 :
        jobs[<<d, n, i>>].step = "none" /\ \A k \in 1..i - 1 : jobs[<<d, n, k>>].step # "none"
<1>1. Queued(jobs, d, n) = [jobs EXCEPT ![<<d, n, free>>] = [NoJob EXCEPT !.step = "waiting"]]
  BY DEF Queued
<1> HIDE DEF free
<1>2. ~[NoJob EXCEPT !.step = "waiting"].ok
  BY DEF NoJob
<1>3. QED
  BY <1>1, <1>2

\* No step records a success, or leaves a job a good answer, without the receiver.
LEMMA ReceivedStep ==
    ASSUME WebhookTypeOK, ReceivedInv, [WebhookNext]_webhookVars
    PROVE  ReceivedInv'
<1> USE DEF ReceivedInv, SuccessWasReceived
<1>1. CASE UNCHANGED webhookVars
  BY <1>1 DEF webhookVars
<1>2. ASSUME NEW d \in Delivery, CreateDeliveryRecord(d) PROVE ReceivedInv'
  BY <1>2 DEF CreateDeliveryRecord, WebhookTypeOK
<1>3. ASSUME NEW d \in Delivery, AddWebhookJob(d) PROVE ReceivedInv'
  <2>1. \A j \in JobId : job'[j].ok => job[j].ok
    BY <1>3, QueuedHasNoAnswer DEF AddWebhookJob, WebhookTypeOK
  <2>2. QED
    BY <1>3, <2>1 DEF AddWebhookJob
<1>4. ASSUME NEW d \in Delivery, GetActiveWebhooks(d) \/ LoseEvent(d) PROVE ReceivedInv'
  BY <1>4 DEF GetActiveWebhooks, LoseEvent
<1>5. CASE SwitchEndpoint
  BY <1>5 DEF SwitchEndpoint
<1>6. ASSUME NEW j \in JobId, Stall(j) \/ Break(j) PROVE ReceivedInv'
  <2> DEFINE idle == IF job[j].again THEN NoJob
                     ELSE [NoJob EXCEPT !.step = "waiting", !.again = TRUE]
  <2>3. ~idle.ok /\ ~NoJob.ok
    BY DEF NoJob
  <2>4. job' = [job EXCEPT ![j] = idle] \/ job' = [job EXCEPT ![j] = NoJob]
    BY <1>6 DEF Stall, Break
  <2> HIDE DEF idle
  <2>1. \A i \in JobId : job'[i].ok => job[i].ok
    BY <2>3, <2>4 DEF WebhookTypeOK
  <2>2. record' = record /\ received' = received
    BY <1>6 DEF Stall, Break
  <2>5. QED
    BY <2>1, <2>2
<1>7. ASSUME NEW j \in JobId, Work(j) PROVE ReceivedInv'
  <2>1. j[1] \in Delivery
    BY JobParts
  <2>2. ASSUME NEW step, Step(j, step) PROVE \A i \in JobId : job'[i].ok = job[i].ok
    BY <2>2 DEF Step, WebhookTypeOK, Job
  <2>3. CASE TakeJob(j) \/ StartAttempt(j) \/ RefuseDelivery(j)
    <3>1. \A i \in JobId : job'[i].ok = job[i].ok
      BY <2>2, <2>3 DEF TakeJob, StartAttempt, RefuseDelivery
    <3>2. \A d \in Delivery : record'[d].status = "success" => record[d].status = "success"
      BY <2>1, <2>3 DEF TakeJob, StartAttempt, RefuseDelivery, SetRecord, WebhookTypeOK
    <3>3. QED
      BY <2>3, <3>1, <3>2 DEF TakeJob, StartAttempt, RefuseDelivery
  <2>4. CASE Send(j)
    <3>1. PICK ok, accepted \in BOOLEAN :
              /\ ok => accepted
              /\ job' = [job EXCEPT ![j].step = "record", ![j].ok = ok]
              /\ received' = IF accepted THEN received \cup {j[1]} ELSE received
      BY <2>4 DEF Send
    <3>2. \A i \in JobId : job'[i].ok = IF i = j THEN ok ELSE job[i].ok
      BY <3>1 DEF WebhookTypeOK, Job
    <3>3. QED
      BY <2>4, <3>1, <3>2 DEF Send
  <2>5. CASE RecordOutcome(j)
    <3>1. \A i \in JobId : job'[i].ok = job[i].ok
      BY <2>2, <2>5 DEF RecordOutcome
    <3>2. \A d \in Delivery : record'[d].status = IF d = j[1] THEN Outcome(j) ELSE record[d].status
      BY <2>1, <2>5 DEF RecordOutcome, SetRecord, WebhookTypeOK
    <3>3. Outcome(j) = "success" => job[j].ok
      BY DEF Outcome
    <3>4. QED
      BY <2>5, <3>1, <3>2, <3>3 DEF RecordOutcome
  <2>6. CASE UpdateEndpointStats(j) \/ CheckEndpoint(j) \/ DisableEndpoint(j)
    <3>1. \A i \in JobId : job'[i].ok = job[i].ok
      BY <2>2, <2>6 DEF UpdateEndpointStats, CheckEndpoint, DisableEndpoint
    <3>2. record' = record /\ received' = received
      BY <2>6 DEF UpdateEndpointStats, CheckEndpoint, DisableEndpoint
    <3>3. QED
      BY <3>1, <3>2
  <2>7. CASE ScheduleRetry(j)
    <3> DEFINE jobs == IF j[2] < MaxAttempts THEN Queued(job, j[1], j[2] + 1) ELSE job
    <3>1. jobs \in [JobId -> Job] /\ \A i \in JobId : jobs[i].ok => job[i].ok
      BY QueuedTyped, QueuedHasNoAnswer DEF WebhookTypeOK
    <3>2. job' = [jobs EXCEPT ![j].step = "finish"]
      BY <2>7 DEF ScheduleRetry
    <3> HIDE DEF jobs
    <3>3. \A i \in JobId : job'[i].ok => job[i].ok
      BY <3>1, <3>2 DEF Job
    <3>4. QED
      BY <2>7, <3>3 DEF ScheduleRetry
  <2>8. CASE Finish(j)
    <3>1. \A i \in JobId : job'[i].ok => job[i].ok
      BY <2>8 DEF Finish, WebhookTypeOK, NoJob
    <3>2. QED
      BY <2>8, <3>1 DEF Finish
  <2>9. QED
    BY <1>7, <2>3, <2>4, <2>5, <2>6, <2>7, <2>8 DEF Work
<1>8. QED
  BY <1>1, <1>2, <1>3, <1>4, <1>5, <1>6, <1>7 DEF WebhookNext

\* Whatever dies and whatever runs twice, no delivery is recorded as a success that the
\* receiver has not accepted.
THEOREM SuccessWasReceivedCorrect == WebhookSpec => []SuccessWasReceived
<1>1. WebhookInit => ReceivedInv
  BY DEF WebhookInit, ReceivedInv, SuccessWasReceived, NoJob
<1>2. WebhookTypeOK /\ ReceivedInv /\ [WebhookNext]_webhookVars => ReceivedInv'
  BY ReceivedStep
<1>3. ReceivedInv => SuccessWasReceived
  BY DEF ReceivedInv
<1>4. QED
  BY <1>1, <1>2, <1>3, WebhookTypeCorrect, PTL DEF WebhookSpec

-----------------------------------------------------------------------------
(***************************************************************************)
(* What the steps of a worker do to the jobs and the rows.                 *)
(***************************************************************************)
LEMMA StepEffect ==
    ASSUME WebhookTypeOK, NEW j \in JobId, NEW s, Step(j, s)
    PROVE  /\ \A i \in JobId : i # j => job'[i] = job[i]
           /\ job'[j].step = s /\ job'[j].ok = job[j].ok
BY DEF Step, WebhookTypeOK, Job

LEMMA WriteEffect ==
    ASSUME WebhookTypeOK, NEW j \in JobId, NEW s, SetRecord(j, s)
    PROVE  \A d \in Delivery : record'[d].status = IF d = j[1] THEN s ELSE record[d].status
BY JobParts DEF SetRecord, WebhookTypeOK

\* Where a job is queued.
LEMMA QueuedSlot ==
    ASSUME NEW jobs \in [JobId -> Job], NEW d, NEW n
    PROVE  \E slot : /\ slot[1] = d /\ slot[2] = n
                     /\ \A i \in JobId : Queued(jobs, d, n)[i] =
                          IF i = slot THEN [NoJob EXCEPT !.step = "waiting"] ELSE jobs[i]
<1> DEFINE free == CHOOSE i \in 1..MaxDeaths + 1 :
        jobs[<<d, n, i>>].step = "none" /\ \A k \in 1..i - 1 : jobs[<<d, n, k>>].step # "none"
<1>1. Queued(jobs, d, n) = [jobs EXCEPT ![<<d, n, free>>] = [NoJob EXCEPT !.step = "waiting"]]
  BY DEF Queued
<1> HIDE DEF free
<1>2. \A i \in JobId : Queued(jobs, d, n)[i] =
          IF i = <<d, n, free>> THEN [NoJob EXCEPT !.step = "waiting"] ELSE jobs[i]
  BY <1>1
<1>3. <<d, n, free>>[1] = d /\ <<d, n, free>>[2] = n
  OBVIOUS
<1> QED
  BY <1>2, <1>3

\* A retry is queued in some slot, one that is no job's after the last attempt; the job
\* that queues it is through.
LEMMA RetryEffect ==
    ASSUME WebhookTypeOK, NEW j \in JobId, ScheduleRetry(j)
    PROVE  \E slot :
             /\ slot[1] = j[1] /\ slot[2] = j[2] + 1 /\ slot # j
             /\ slot \in JobId => j[2] < MaxAttempts /\ job'[slot].step = "waiting"
             /\ job'[j].step = "finish"
             /\ \A i \in JobId : i # j /\ i # slot => job'[i] = job[i]
<1>1. j[2] \in 1..MaxAttempts /\ j[2] \in Nat /\ MaxAttempts \in Nat
  BY JobParts, AttemptsAssumption
<1>2. job' = [IF j[2] < MaxAttempts THEN Queued(job, j[1], j[2] + 1) ELSE job EXCEPT ![j].step = "finish"]
  BY DEF ScheduleRetry
<1>3. CASE j[2] < MaxAttempts
  <2>1. job' = [Queued(job, j[1], j[2] + 1) EXCEPT ![j].step = "finish"]
    BY <1>2, <1>3
  <2>2. job \in [JobId -> Job] /\ Queued(job, j[1], j[2] + 1) \in [JobId -> Job]
    BY QueuedTyped DEF WebhookTypeOK
  <2>3. PICK slot :
          /\ slot[1] = j[1] /\ slot[2] = j[2] + 1
          /\ \A i \in JobId : Queued(job, j[1], j[2] + 1)[i] =
               IF i = slot THEN [NoJob EXCEPT !.step = "waiting"] ELSE job[i]
    BY <2>2, QueuedSlot
  <2>4. slot # j
    BY <1>1, <2>3
  <2>5. /\ job'[j].step = "finish"
        /\ \A i \in JobId : i # j => job'[i] = Queued(job, j[1], j[2] + 1)[i]
    BY <2>1, <2>2 DEF Job
  <2>6. slot \in JobId => job'[slot].step = "waiting"
    BY <2>3, <2>4, <2>5 DEF NoJob
  <2> QED
    BY <1>3, <2>3, <2>4, <2>5, <2>6
<1>4. CASE ~(j[2] < MaxAttempts)
  <2> DEFINE slot == <<j[1], j[2] + 1, 1>>
  <2>1. slot \notin JobId
    BY <1>1, <1>4 DEF JobId
  <2>2. slot # j /\ slot[1] = j[1] /\ slot[2] = j[2] + 1
    BY <2>1
  <2>3. job' = [job EXCEPT ![j].step = "finish"]
    BY <1>2, <1>4
  <2>4. job'[j].step = "finish" /\ \A i \in JobId : i # j => job'[i] = job[i]
    BY <2>3 DEF WebhookTypeOK, Job
  <2> HIDE DEF slot
  <2> QED
    BY <2>1, <2>2, <2>4
<1> QED
  BY <1>3, <1>4

\* A job whose worker dies waits again or is gone.
LEMMA DeathEffect ==
    ASSUME WebhookTypeOK, NEW j \in JobId, Stall(j) \/ Break(j)
    PROVE  /\ job[j].step \notin {"none", "waiting"} /\ job'[j].step \in {"none", "waiting"}
           /\ \A i \in JobId : i # j => job'[i] = job[i]
           /\ \A d \in Delivery : deaths'[d] = IF d = j[1] THEN deaths[d] + 1 ELSE deaths[d]
           /\ UNCHANGED <<record, event, endpoint, received, requests, turnedAway>>
<1> DEFINE idle == IF job[j].again THEN NoJob ELSE [NoJob EXCEPT !.step = "waiting", !.again = TRUE]
<1>1. idle.step \in {"none", "waiting"} /\ NoJob.step = "none"
  BY DEF NoJob
<1>2. job' = [job EXCEPT ![j] = idle] \/ job' = [job EXCEPT ![j] = NoJob]
  BY DEF Stall, Break
<1> HIDE DEF idle
<1>3. job'[j].step \in {"none", "waiting"} /\ \A i \in JobId : i # j => job'[i] = job[i]
  BY <1>1, <1>2 DEF WebhookTypeOK
<1>4. job[j].step \notin {"none", "waiting"}
  BY DEF Stall, Break, Running
<1>5. \A d \in Delivery : deaths'[d] = IF d = j[1] THEN deaths[d] + 1 ELSE deaths[d]
  BY JobParts DEF Stall, Break, WebhookTypeOK
<1> QED
  BY <1>3, <1>4, <1>5 DEF Stall, Break

\* A step of a worker, or its death, leaves the jobs of the other deliveries.
LEMMA WorkLeavesOthers ==
    ASSUME WebhookTypeOK, NEW j \in JobId, Work(j) \/ Stall(j) \/ Break(j), NEW d, j[1] # d
    PROVE  \A i \in JobId : i[1] = d => job'[i] = job[i]
<1>1. CASE ScheduleRetry(j)
  <2>1. PICK slot : slot[1] = j[1] /\ \A i \in JobId : i # j /\ i # slot => job'[i] = job[i]
    BY <1>1, RetryEffect
  <2> QED
    BY <2>1
<1>2. CASE Send(j) \/ Finish(j)
  BY <1>2 DEF Send, Finish, WebhookTypeOK
<1>3. CASE Stall(j) \/ Break(j)
  BY <1>3, DeathEffect
<1>4. CASE Work(j) /\ ~ScheduleRetry(j) /\ ~Send(j) /\ ~Finish(j)
  <2>1. \E s : Step(j, s)
    BY <1>4 DEF Work, TakeJob, StartAttempt, RefuseDelivery, RecordOutcome, UpdateEndpointStats,
         CheckEndpoint, DisableEndpoint
  <2> QED
    BY <2>1, StepEffect
<1> QED
  BY <1>1, <1>2, <1>3, <1>4

\* What the worker writes of an attempt when it starts it.
Under(j) == IF j[2] > 1 THEN "retrying" ELSE "pending"

-----------------------------------------------------------------------------
(***************************************************************************)
(* Whatever dies, the jobs of a delivery know what has been made of it.    *)
(***************************************************************************)
JobSound(j) ==
    LET d == j[1] IN
    job[j].step # "none" =>
        /\ event[d] = "queued" /\ requests[d] >= j[2] - 1
        /\ job[j].step \in {"record", "count", "check", "disable", "retry"} => requests[d] >= j[2]
        /\ job[j].step = "refuse" => d \in turnedAway

DeliverySound(d) ==
    /\ event[d] \in {"due", "found"} => record[d].status = "none"
    /\ event[d] = "queued" => record[d].status # "none"
    /\ event[d] = "recorded" => record[d].status = "pending"
    /\ event[d] # "queued" => requests[d] = 0
    /\ record[d].status = "failed" => d \in turnedAway \/ requests[d] >= MaxAttempts

SoundInv == (\A j \in JobId : JobSound(j)) /\ (\A d \in Delivery : DeliverySound(d))

\* A step of the worker, or a death, after which the jobs that it moves are sound and what
\* it records as failed may have failed.
LEMMA SoundKept ==
    ASSUME WebhookTypeOK, WebhookTypeOK', SoundInv, NEW e \in Delivery, event[e] = "queued", event' = event,
           \A d \in Delivery : requests'[d] >= requests[d], turnedAway \subseteq turnedAway',
           \A d \in Delivery : d # e => requests'[d] = requests[d] /\ record'[d].status = record[d].status,
           record'[e].status # "none",
           record'[e].status = "failed" =>
               record[e].status = "failed" \/ e \in turnedAway' \/ requests'[e] >= MaxAttempts,
           \A j \in JobId : job'[j].step = job[j].step \/ JobSound(j)'
    PROVE  SoundInv'
<1>1. requests \in [Delivery -> Nat] /\ requests' \in [Delivery -> Nat] /\ MaxAttempts \in Nat
  BY AttemptsAssumption DEF WebhookTypeOK
<1>2. ASSUME NEW j \in JobId PROVE JobSound(j)'
  <2>1. j[1] \in Delivery /\ j[2] \in Nat
    BY JobParts, AttemptsAssumption
  <2>2. JobSound(j) /\ requests'[j[1]] >= requests[j[1]] /\ requests[j[1]] \in Nat /\ requests'[j[1]] \in Nat
    BY <1>1, <2>1 DEF SoundInv
  <2> QED
    BY <2>1, <2>2 DEF JobSound
<1>3. ASSUME NEW d \in Delivery PROVE DeliverySound(d)'
  <2>1. /\ DeliverySound(d) /\ requests'[d] >= requests[d]
        /\ requests[d] \in Nat /\ requests'[d] \in Nat
    BY <1>1 DEF SoundInv
  <2>2. CASE d = e
    BY <1>1, <2>1, <2>2 DEF DeliverySound
  <2>3. CASE d # e
    BY <1>1, <2>1, <2>3 DEF DeliverySound
  <2> QED
    BY <2>2, <2>3
<1> QED
  BY <1>2, <1>3 DEF SoundInv

\* A step of the worker that runs j.
LEMMA WorkKeepsSound ==
    ASSUME WebhookTypeOK, WebhookTypeOK', SoundInv, NEW j \in JobId, Work(j)
    PROVE  SoundInv'
<1> DEFINE e == j[1]
<1>1. e \in Delivery /\ j[2] \in 1..MaxAttempts /\ j[2] \in Nat /\ MaxAttempts \in Nat
  BY JobParts, AttemptsAssumption
<1>2. JobSound(j) /\ DeliverySound(e)
  BY <1>1 DEF SoundInv
<1>3. job[j].step # "none" /\ event' = event /\ turnedAway \subseteq turnedAway'
  BY DEF Work, TakeJob, StartAttempt, RefuseDelivery, Send, RecordOutcome, UpdateEndpointStats,
         CheckEndpoint, DisableEndpoint, ScheduleRetry, Finish
<1>4. event[e] = "queued" /\ requests[e] >= j[2] - 1 /\ record[e].status # "none"
  BY <1>2, <1>3 DEF JobSound, DeliverySound
<1>5. requests \in [Delivery -> Nat] /\ requests' \in [Delivery -> Nat]
  BY DEF WebhookTypeOK
<1>6. ASSUME ~Send(j) PROVE requests' = requests
  BY <1>6 DEF Work, TakeJob, StartAttempt, RefuseDelivery, RecordOutcome, UpdateEndpointStats,
              CheckEndpoint, DisableEndpoint, ScheduleRetry, Finish
<1>7. CASE TakeJob(j)
  <2>1. PICK s \in {"start", "refuse"} : Step(j, s) /\ (s = "refuse" => e \in turnedAway')
    BY <1>7 DEF TakeJob
  <2>2. \A i \in JobId : i # j => job'[i] = job[i]
    BY <2>1, StepEffect
  <2>3. JobSound(j)'
    BY <1>3, <1>4, <1>7, <2>1, StepEffect DEF JobSound, TakeJob
  <2> QED
    BY <1>1, <1>3, <1>4, <1>5, <1>7, <2>2, <2>3, SoundKept DEF TakeJob
<1>8. CASE StartAttempt(j)
  <2>1. /\ job'[j].step = "send" /\ \A i \in JobId : i # j => job'[i] = job[i]
        /\ \A d \in Delivery : record'[d].status = IF d = e THEN Under(j) ELSE record[d].status
    BY <1>8, StepEffect, WriteEffect DEF StartAttempt, Under
  <2>2. Under(j) \in {"pending", "retrying"}
    BY DEF Under
  <2>3. JobSound(j)'
    BY <1>3, <1>4, <1>8, <2>1 DEF JobSound, StartAttempt
  <2> QED
    BY <1>1, <1>3, <1>4, <1>5, <1>8, <2>1, <2>2, <2>3, SoundKept DEF StartAttempt
<1>9. CASE RefuseDelivery(j)
  <2>1. /\ job'[j].step = "finish" /\ \A i \in JobId : i # j => job'[i] = job[i]
        /\ \A d \in Delivery : record'[d].status = IF d = e THEN "failed" ELSE record[d].status
    BY <1>9, StepEffect, WriteEffect DEF RefuseDelivery
  <2>2. e \in turnedAway'
    BY <1>2, <1>9 DEF JobSound, RefuseDelivery
  <2>3. JobSound(j)'
    BY <1>3, <1>4, <1>9, <2>1 DEF JobSound, RefuseDelivery
  <2> QED
    BY <1>1, <1>3, <1>4, <1>5, <1>9, <2>1, <2>2, <2>3, SoundKept DEF RefuseDelivery
<1>10. CASE Send(j)
  <2>1. /\ job'[j].step = "record" /\ \A i \in JobId : i # j => job'[i] = job[i]
        /\ UNCHANGED <<event, record, turnedAway>>
    BY <1>10 DEF Send, WebhookTypeOK, Job
  <2>2. \A d \in Delivery : requests'[d] = IF d = e THEN requests[d] + 1 ELSE requests[d]
    BY <1>1, <1>10 DEF Send, WebhookTypeOK
  <2>3. requests'[e] >= j[2]
    BY <1>1, <1>4, <1>5, <2>2
  <2>4. JobSound(j)'
    BY <1>1, <1>4, <1>5, <2>1, <2>3 DEF JobSound
  <2>5. \A d \in Delivery : requests'[d] >= requests[d]
    BY <1>5, <2>2
  <2> QED
    BY <1>1, <1>4, <2>1, <2>2, <2>4, <2>5, SoundKept
<1>11. CASE RecordOutcome(j)
  <2>1. /\ job'[j].step = "count" /\ \A i \in JobId : i # j => job'[i] = job[i]
        /\ \A d \in Delivery : record'[d].status = IF d = e THEN Outcome(j) ELSE record[d].status
    BY <1>11, StepEffect, WriteEffect DEF RecordOutcome
  <2>2. requests'[e] >= j[2] /\ requests' = requests /\ turnedAway' = turnedAway
    BY <1>2, <1>11 DEF JobSound, RecordOutcome
  <2>3. Outcome(j) # "none" /\ (Outcome(j) = "failed" => requests'[e] >= MaxAttempts)
    BY <1>1, <1>5, <2>2 DEF Outcome
  <2>4. JobSound(j)'
    BY <1>3, <1>4, <2>1, <2>2 DEF JobSound
  <2> QED
    BY <1>1, <1>3, <1>4, <1>5, <2>1, <2>2, <2>3, <2>4, SoundKept
<1>12. CASE UpdateEndpointStats(j) \/ CheckEndpoint(j) \/ DisableEndpoint(j)
  <2>1. PICK s \in {"finish", "check", "disable", "retry"} :
          /\ Step(j, s) /\ UNCHANGED <<event, requests, turnedAway, record>>
          /\ job[j].step \in {"count", "check", "disable"}
    BY <1>12 DEF UpdateEndpointStats, CheckEndpoint, DisableEndpoint, AfterCount
  <2>2. job'[j].step = s /\ \A i \in JobId : i # j => job'[i] = job[i]
    BY <2>1, StepEffect
  <2>3. JobSound(j)'
    BY <1>2, <2>1, <2>2 DEF JobSound
  <2> QED
    BY <1>1, <1>4, <1>5, <2>1, <2>2, <2>3, SoundKept
<1>13. CASE ScheduleRetry(j)
  <2>1. PICK slot :
          /\ slot[1] = j[1] /\ slot[2] = j[2] + 1 /\ slot # j
          /\ slot \in JobId => j[2] < MaxAttempts /\ job'[slot].step = "waiting"
          /\ job'[j].step = "finish"
          /\ \A i \in JobId : i # j /\ i # slot => job'[i] = job[i]
    BY <1>13, RetryEffect
  <2>2. UNCHANGED <<event, requests, turnedAway, record>> /\ job[j].step = "retry"
    BY <1>13 DEF ScheduleRetry
  <2>3. requests[e] >= j[2] /\ requests[e] \in Nat
    BY <1>1, <1>2, <1>5, <2>2 DEF JobSound
  <2>4. JobSound(j)'
    BY <1>4, <2>1, <2>2 DEF JobSound
  <2>5. slot \in JobId => JobSound(slot)'
    BY <1>1, <1>4, <2>1, <2>2, <2>3 DEF JobSound
  <2> QED
    BY <1>1, <1>4, <1>5, <2>1, <2>2, <2>4, <2>5, SoundKept
<1>14. CASE Finish(j)
  <2>1. \A i \in JobId : job'[i] = IF i = j THEN NoJob ELSE job[i]
    BY <1>14 DEF Finish, WebhookTypeOK
  <2>2. JobSound(j)'
    BY <2>1 DEF JobSound, NoJob
  <2> QED
    BY <1>1, <1>4, <1>5, <1>14, <2>1, <2>2, SoundKept DEF Finish
<1> QED
  BY <1>7, <1>8, <1>9, <1>10, <1>11, <1>12, <1>13, <1>14 DEF Work

\* Every step.
LEMMA SoundStep ==
    ASSUME WebhookTypeOK, WebhookTypeOK', SoundInv, [WebhookNext]_webhookVars
    PROVE  SoundInv'
<1>1. CASE UNCHANGED webhookVars
  BY <1>1 DEF webhookVars, SoundInv, JobSound, DeliverySound
<1>2. ASSUME NEW c \in Delivery, GetActiveWebhooks(c) \/ CreateDeliveryRecord(c) \/ LoseEvent(c) PROVE SoundInv'
  <2>1. /\ UNCHANGED <<job, requests, turnedAway>> /\ event[c] # "queued" /\ event'[c] # "queued"
        /\ \A d \in Delivery : d # c => event'[d] = event[d] /\ record'[d] = record[d]
        /\ \/ event'[c] = "recorded" /\ record'[c].status = "pending"
           \/ event[c] = "due" /\ event'[c] = "found" /\ record'[c] = record[c]
           \/ event'[c] = "lost" /\ record'[c] = record[c]
    BY <1>2 DEF GetActiveWebhooks, CreateDeliveryRecord, LoseEvent, WebhookTypeOK
  <2>2. ASSUME NEW j \in JobId PROVE JobSound(j)'
    BY <2>1, JobParts DEF SoundInv, JobSound
  <2>3. ASSUME NEW d \in Delivery PROVE DeliverySound(d)'
    <3>1. DeliverySound(d) /\ DeliverySound(c)
      BY DEF SoundInv
    <3> QED
      BY <2>1, <3>1 DEF DeliverySound
  <2> QED
    BY <2>2, <2>3 DEF SoundInv
<1>3. ASSUME NEW c \in Delivery, AddWebhookJob(c) PROVE SoundInv'
  <2>1. /\ event[c] = "recorded" /\ job' = Queued(job, c, 1) /\ UNCHANGED <<record, requests, turnedAway>>
        /\ \A d \in Delivery : event'[d] = IF d = c THEN "queued" ELSE event[d]
    BY <1>3 DEF AddWebhookJob, WebhookTypeOK
  <2>2. PICK slot :
          /\ slot[1] = c /\ slot[2] = 1
          /\ \A i \in JobId : job'[i] = IF i = slot THEN [NoJob EXCEPT !.step = "waiting"] ELSE job[i]
    BY <2>1, QueuedSlot DEF WebhookTypeOK
  <2>3. requests[c] = 0 /\ [NoJob EXCEPT !.step = "waiting"].step = "waiting"
    BY <2>1 DEF SoundInv, DeliverySound, NoJob
  <2>4. ASSUME NEW j \in JobId PROVE JobSound(j)'
    <3>1. JobSound(j) /\ j[1] \in Delivery
      BY JobParts DEF SoundInv
    <3>2. CASE j = slot
      <4>1. job'[j].step = "waiting" /\ event'[c] = "queued" /\ requests'[c] = 0 /\ j[2] = 1 /\ j[1] = c
        BY <2>1, <2>2, <2>3, <3>2
      <4> QED
        BY <4>1 DEF JobSound
    <3>3. CASE j # slot
      BY <2>1, <2>2, <3>1, <3>3 DEF JobSound
    <3> QED
      BY <3>2, <3>3
  <2>5. ASSUME NEW d \in Delivery PROVE DeliverySound(d)'
    <3>1. DeliverySound(d)
      BY DEF SoundInv
    <3> QED
      BY <2>1, <3>1 DEF DeliverySound
  <2> QED
    BY <2>4, <2>5 DEF SoundInv
<1>4. CASE SwitchEndpoint
  BY <1>4 DEF SwitchEndpoint, SoundInv, JobSound, DeliverySound
<1>5. ASSUME NEW j \in JobId, Stall(j) \/ Break(j) PROVE SoundInv'
  <2>1. /\ job[j].step # "none" /\ job'[j].step \in {"none", "waiting"}
        /\ \A i \in JobId : i # j => job'[i] = job[i]
        /\ UNCHANGED <<record, event, endpoint, received, requests, turnedAway>>
    BY <1>5, DeathEffect
  <2>2. j[1] \in Delivery /\ JobSound(j)
    BY JobParts DEF SoundInv
  <2>3. event[j[1]] = "queued" /\ record[j[1]].status # "none" /\ JobSound(j)'
    BY <2>1, <2>2 DEF JobSound, DeliverySound, SoundInv
  <2>4. \A d \in Delivery : requests'[d] >= requests[d]
    BY <2>1 DEF WebhookTypeOK
  <2> QED
    BY <2>1, <2>2, <2>3, <2>4, SoundKept
<1> QED
  BY <1>1, <1>2, <1>3, <1>4, <1>5, WorkKeepsSound DEF WebhookNext

LEMMA SoundStart == ASSUME WebhookInit PROVE SoundInv
<1>1. \A j \in JobId : job[j].step = "none"
  BY DEF WebhookInit, NoJob
<1>2. \A d \in Delivery : record[d].status = "none" /\ event[d] = "due" /\ requests[d] = 0
  BY DEF WebhookInit
<1> QED
  BY <1>1, <1>2 DEF SoundInv, JobSound, DeliverySound

LEMMA SoundAlways == WebhookSpec => [](WebhookTypeOK /\ SoundInv)
<1>1. WebhookInit => SoundInv
  BY SoundStart
<1>2. WebhookTypeOK /\ WebhookTypeOK' /\ SoundInv /\ [WebhookNext]_webhookVars => SoundInv'
  BY SoundStep
<1> QED
  BY <1>1, <1>2, WebhookTypeCorrect, PTL DEF WebhookSpec

\* Nothing is given up early, whatever dies: a delivery fails after all its attempts, or
\* because the endpoint was off, for any number of deliveries, attempts and workers.
THEOREM FailedAfterAllAttemptsCorrect == WebhookSpec => []FailedAfterAllAttempts
<1>1. SoundInv => FailedAfterAllAttempts
  BY DEF SoundInv, DeliverySound, FailedAfterAllAttempts
<1> QED
  BY <1>1, SoundAlways, PTL

-----------------------------------------------------------------------------
(***************************************************************************)
(* While no worker has died at work on it, a delivery has at most one job  *)
(* that has still something to do, and that job knows how often it was     *)
(* sent and what is written of it.                                         *)
(***************************************************************************)
\* The job has work left: queueing its retry, at least.
HasWork(j) == job[j].step \notin {"none", "finish"}

JobInv(j) ==
    LET d == j[1] IN
    /\ job[j].step \in {"waiting", "start", "refuse", "send"} =>
         requests[d] = j[2] - 1 /\ record[d].status = Under(j)
    /\ job[j].step = "record" => requests[d] = j[2] /\ record[d].status = Under(j)
    /\ job[j].step = "count" => requests[d] = j[2] /\ record[d].status = Outcome(j)
    /\ job[j].step \in {"check", "disable", "retry"} =>
         requests[d] = j[2] /\ record[d].status = Outcome(j) /\ ~job[j].ok

DeliveryInv(d) ==
    \A j \in JobId : j[1] = d /\ HasWork(j) =>
        /\ JobInv(j)
        /\ \A i \in JobId : i[1] = d /\ HasWork(i) => i = j

CalmInv == \A d \in Delivery : deaths[d] = 0 => DeliveryInv(d)

\* A delivery that a step does not concern, or of which a job ends.
LEMMA DeliveryLeft ==
    ASSUME NEW d \in Delivery, DeliveryInv(d), record'[d].status = record[d].status,
           requests'[d] = requests[d],
           \A j \in JobId : j[1] = d => job'[j] = job[j] \/ job'[j].step \in {"none", "finish"}
    PROVE  DeliveryInv(d)'
<1>1. \A j \in JobId : j[1] = d /\ HasWork(j)' => job'[j] = job[j] /\ HasWork(j)
  BY DEF HasWork
<1>2. ASSUME NEW j \in JobId, j[1] = d, HasWork(j)' PROVE JobInv(j)'
  BY <1>1, <1>2 DEF DeliveryInv, JobInv, Outcome, Under
<1> QED
  BY <1>1, <1>2 DEF DeliveryInv

\* The job of a delivery that has work left takes a step.
LEMMA DeliveryMoved ==
    ASSUME NEW d \in Delivery, DeliveryInv(d), NEW j \in JobId, j[1] = d, HasWork(j),
           \A i \in JobId : i # j => job'[i] = job[i],
           HasWork(j)' => JobInv(j)'
    PROVE  DeliveryInv(d)'
<1>1. \A i \in JobId : i[1] = d /\ HasWork(i)' => i = j
  BY DEF DeliveryInv, HasWork
<1> QED
  BY <1>1 DEF DeliveryInv

\* A job is queued for a delivery that has none with work left.
LEMMA DeliveryQueued ==
    ASSUME NEW d \in Delivery, NEW slot, slot[1] = d,
           \A i \in JobId : i # slot /\ i[1] = d => job'[i].step \in {"none", "finish"},
           slot \in JobId => /\ job'[slot].step = "waiting"
                             /\ requests'[d] = slot[2] - 1 /\ record'[d].status = Under(slot)
    PROVE  DeliveryInv(d)'
<1>1. \A i \in JobId : i[1] = d /\ HasWork(i)' => i = slot
  BY DEF HasWork
<1>2. slot \in JobId => JobInv(slot)'
  BY DEF JobInv, Under
<1> QED
  BY <1>1, <1>2 DEF DeliveryInv

\* A step of the worker that runs j, for a delivery no death has struck.
LEMMA WorkKeepsOrder ==
    ASSUME WebhookTypeOK, NEW d \in Delivery, DeliveryInv(d), NEW j \in JobId, Work(j)
    PROVE  DeliveryInv(d)'
<1>1. j[1] \in Delivery /\ j[2] \in 1..MaxAttempts /\ j[2] \in Nat /\ MaxAttempts \in Nat
  BY JobParts, AttemptsAssumption
<1>2. ASSUME NEW s, Step(j, s)
      PROVE  \A i \in JobId : i # j => job'[i] = job[i]
  BY <1>2, StepEffect
<1>3. CASE d # j[1]
  <2>1. \A i \in JobId : i[1] = d => job'[i] = job[i]
    BY <1>3, WorkLeavesOthers
  <2>2. requests'[d] = requests[d]
    BY <1>1, <1>3 DEF Work, TakeJob, StartAttempt, RefuseDelivery, Send, RecordOutcome, UpdateEndpointStats,
         CheckEndpoint, DisableEndpoint, ScheduleRetry, Finish, WebhookTypeOK
  <2>3. record'[d].status = record[d].status
    BY <1>1, <1>3 DEF Work, TakeJob, StartAttempt, RefuseDelivery, Send, RecordOutcome, UpdateEndpointStats,
         CheckEndpoint, DisableEndpoint, ScheduleRetry, Finish, SetRecord, WebhookTypeOK
  <2> QED
    BY <2>1, <2>2, <2>3, DeliveryLeft
<1>4. CASE d = j[1]
  <2>1. HasWork(j) => JobInv(j)
    BY <1>4 DEF DeliveryInv
  <2>2. CASE TakeJob(j)
    <3>1. PICK s \in {"start", "refuse"} : Step(j, s)
      BY <2>2 DEF TakeJob
    <3>2. job[j].step = "waiting" /\ UNCHANGED <<record, requests>>
      BY <2>2 DEF TakeJob
    <3>3. job'[j].step = s
      BY <3>1, StepEffect
    <3>4. HasWork(j) /\ JobInv(j)'
      BY <2>1, <3>2, <3>3 DEF HasWork, JobInv, Under
    <3> QED
      BY <1>2, <1>4, <3>1, <3>4, DeliveryMoved
  <2>3. CASE StartAttempt(j)
    <3>1. job[j].step = "start" /\ job'[j].step = "send" /\ requests' = requests
          /\ record'[d].status = Under(j)
      BY <1>4, <2>3, StepEffect, WriteEffect DEF StartAttempt, Under
    <3>2. HasWork(j) /\ JobInv(j)'
      BY <1>4, <2>1, <3>1 DEF HasWork, JobInv, Under
    <3> QED
      BY <1>2, <1>4, <2>3, <3>2, DeliveryMoved DEF StartAttempt
  <2>4. CASE RefuseDelivery(j)
    <3>1. job[j].step = "refuse" /\ job'[j].step = "finish"
      BY <2>4, StepEffect DEF RefuseDelivery
    <3> QED
      BY <1>2, <1>4, <2>4, <3>1, DeliveryMoved DEF RefuseDelivery, HasWork
  <2>5. CASE Send(j)
    <3>1. /\ \A i \in JobId : i # j => job'[i] = job[i]
          /\ job'[j].step = "record" /\ job[j].step = "send" /\ record' = record
      BY <2>5 DEF Send, WebhookTypeOK, Job
    <3>2. requests'[d] = requests[d] + 1
      BY <1>4, <2>5 DEF Send, WebhookTypeOK
    <3>3. HasWork(j) /\ JobInv(j)'
      BY <1>1, <1>4, <2>1, <3>1, <3>2 DEF HasWork, JobInv, Under
    <3> QED
      BY <1>4, <3>1, <3>3, DeliveryMoved
  <2>6. CASE RecordOutcome(j)
    <3>1. /\ job[j].step = "record" /\ job'[j].step = "count" /\ job'[j].ok = job[j].ok
          /\ requests' = requests /\ record'[d].status = Outcome(j)
      BY <1>4, <2>6, StepEffect, WriteEffect DEF RecordOutcome
    <3>2. Outcome(j)' = Outcome(j)
      BY <3>1 DEF Outcome
    <3>3. HasWork(j) /\ JobInv(j)'
      BY <1>4, <2>1, <3>1, <3>2 DEF HasWork, JobInv
    <3> QED
      BY <1>2, <1>4, <2>6, <3>3, DeliveryMoved DEF RecordOutcome
  <2>7. CASE UpdateEndpointStats(j) \/ CheckEndpoint(j) \/ DisableEndpoint(j)
    <3>1. PICK s \in {"finish", "check", "disable", "retry"} :
            /\ Step(j, s) /\ UNCHANGED <<requests, record>>
            /\ job[j].step \in {"count", "check", "disable"}
            /\ job[j].step = "count" /\ job[j].ok => s = "finish"
      BY <2>7 DEF UpdateEndpointStats, CheckEndpoint, DisableEndpoint, AfterCount
    <3>2. job'[j].step = s /\ job'[j].ok = job[j].ok
      BY <3>1, StepEffect
    <3>3. Outcome(j)' = Outcome(j) /\ HasWork(j)
      BY <3>1, <3>2 DEF Outcome, HasWork
    <3>4. HasWork(j)' => JobInv(j)'
      BY <2>1, <3>1, <3>2, <3>3 DEF JobInv, HasWork
    <3> QED
      BY <1>2, <1>4, <3>1, <3>3, <3>4, DeliveryMoved
  <2>8. CASE ScheduleRetry(j)
    <3>1. PICK slot :
            /\ slot[1] = j[1] /\ slot[2] = j[2] + 1 /\ slot # j
            /\ slot \in JobId => j[2] < MaxAttempts /\ job'[slot].step = "waiting"
            /\ job'[j].step = "finish"
            /\ \A i \in JobId : i # j /\ i # slot => job'[i] = job[i]
      BY <2>8, RetryEffect
    <3>2. job[j].step = "retry" /\ UNCHANGED <<requests, record>>
      BY <2>8 DEF ScheduleRetry
    <3>3. HasWork(j) /\ requests[d] = j[2] /\ record[d].status = Outcome(j) /\ ~job[j].ok
      BY <1>4, <2>1, <3>2 DEF JobInv, HasWork
    <3>4. \A i \in JobId : i # slot /\ i[1] = d => job'[i].step \in {"none", "finish"}
      BY <1>4, <3>1, <3>3 DEF DeliveryInv, HasWork
    <3>5. slot \in JobId => requests'[d] = slot[2] - 1 /\ record'[d].status = Under(slot)
      BY <1>1, <3>1, <3>2, <3>3 DEF Outcome, Under
    <3> QED
      BY <1>4, <3>1, <3>4, <3>5, DeliveryQueued
  <2>9. CASE Finish(j)
    <3>1. UNCHANGED <<requests, record>> /\ \A i \in JobId : job'[i] = IF i = j THEN NoJob ELSE job[i]
      BY <2>9 DEF Finish, WebhookTypeOK
    <3>2. NoJob.step = "none"
      BY DEF NoJob
    <3> QED
      BY <3>1, <3>2, DeliveryLeft
  <2> QED
    BY <2>2, <2>3, <2>4, <2>5, <2>6, <2>7, <2>8, <2>9 DEF Work
<1> QED
  BY <1>3, <1>4

\* Every step: a delivery that no death has struck keeps its one job.
LEMMA CalmStep ==
    ASSUME WebhookTypeOK, SoundInv, CalmInv, [WebhookNext]_webhookVars
    PROVE  CalmInv'
<1> SUFFICES ASSUME NEW d \in Delivery, deaths'[d] = 0 PROVE DeliveryInv(d)'
  BY DEF CalmInv
<1>1. CASE UNCHANGED webhookVars
  <2>1. DeliveryInv(d)
    BY <1>1 DEF CalmInv, webhookVars
  <2> QED
    BY <1>1, <2>1, DeliveryLeft DEF webhookVars
<1>2. ASSUME NEW j \in JobId, Stall(j) \/ Break(j) PROVE DeliveryInv(d)'
  <2>1. /\ \A i \in JobId : i # j => job'[i] = job[i]
        /\ \A b \in Delivery : deaths'[b] = IF b = j[1] THEN deaths[b] + 1 ELSE deaths[b]
        /\ UNCHANGED <<record, requests>>
    BY <1>2, DeathEffect
  <2>2. deaths[d] \in Nat /\ deaths'[d] = IF d = j[1] THEN deaths[d] + 1 ELSE deaths[d]
    BY <2>1, WorkerAssumption DEF WebhookTypeOK
  <2>3. d # j[1] /\ deaths[d] = 0
    BY <2>2
  <2>4. DeliveryInv(d) /\ \A i \in JobId : i[1] = d => job'[i] = job[i]
    BY <2>1, <2>3 DEF CalmInv
  <2> QED
    BY <2>1, <2>4, DeliveryLeft
<1>3. ASSUME deaths' = deaths PROVE DeliveryInv(d) /\ DeliverySound(d)
  BY <1>3 DEF CalmInv, SoundInv
<1>4. ASSUME NEW c \in Delivery, GetActiveWebhooks(c) \/ CreateDeliveryRecord(c) \/ LoseEvent(c)
      PROVE  DeliveryInv(d)'
  <2>1. /\ UNCHANGED <<job, requests, deaths>> /\ event[c] # "queued"
        /\ \A b \in Delivery : b # c => record'[b] = record[b]
    BY <1>4 DEF GetActiveWebhooks, CreateDeliveryRecord, LoseEvent, WebhookTypeOK
  <2>2. CASE d = c
    <3>1. \A j \in JobId : j[1] = d => job[j].step = "none"
      BY <2>1, <2>2 DEF SoundInv, JobSound
    <3> QED
      BY <2>1, <3>1 DEF DeliveryInv, HasWork
  <2>3. CASE d # c
    BY <1>3, <2>1, <2>3, DeliveryLeft
  <2> QED
    BY <2>2, <2>3
<1>5. ASSUME NEW c \in Delivery, AddWebhookJob(c) PROVE DeliveryInv(d)'
  <2>1. event[c] = "recorded" /\ job' = Queued(job, c, 1) /\ UNCHANGED <<record, requests, deaths>>
    BY <1>5 DEF AddWebhookJob
  <2>2. PICK slot :
          /\ slot[1] = c /\ slot[2] = 1
          /\ \A i \in JobId : job'[i] = IF i = slot THEN [NoJob EXCEPT !.step = "waiting"] ELSE job[i]
    BY <2>1, QueuedSlot DEF WebhookTypeOK
  <2>3. CASE d = c
    <3>1. \A j \in JobId : j[1] = d => job[j].step = "none"
      BY <2>1, <2>3 DEF SoundInv, JobSound
    <3>2. slot \in JobId => job'[slot].step = "waiting"
      BY <2>2 DEF NoJob
    <3>3. requests'[d] = 0 /\ record'[d].status = "pending"
      BY <1>3, <2>1, <2>3 DEF DeliverySound
    <3>4. Under(slot) = "pending"
      BY <2>2 DEF Under
    <3> QED
      BY <2>2, <2>3, <3>1, <3>2, <3>3, <3>4, DeliveryQueued
  <2>4. CASE d # c
    <3>1. \A i \in JobId : i[1] = d => job'[i] = job[i]
      BY <2>2, <2>4
    <3> QED
      BY <1>3, <2>1, <3>1, DeliveryLeft
  <2> QED
    BY <2>3, <2>4
<1>6. CASE SwitchEndpoint
  BY <1>3, <1>6, DeliveryLeft DEF SwitchEndpoint
<1>7. ASSUME NEW j \in JobId, Work(j) PROVE DeliveryInv(d)'
  <2>1. deaths' = deaths
    BY <1>7 DEF Work, TakeJob, StartAttempt, RefuseDelivery, Send, RecordOutcome, UpdateEndpointStats,
         CheckEndpoint, DisableEndpoint, ScheduleRetry, Finish
  <2> QED
    BY <1>3, <1>7, <2>1, WorkKeepsOrder
<1> QED
  BY <1>1, <1>2, <1>4, <1>5, <1>6, <1>7 DEF WebhookNext

-----------------------------------------------------------------------------
(***************************************************************************)
(* How often a delivery may still be sent.  A ticket of a delivery is a    *)
(* job of it, named by its attempt and its copy, and an attempt that this  *)
(* job or one of the retries it leads to may still make.                   *)
(***************************************************************************)
Copy == (1..MaxAttempts) \X (1..MaxDeaths + 1)
JobOf(d, c) == <<d, c[1], c[2]>>

\* The first attempt the job leads to that has not been sent.
FirstLeft(j) ==
    IF job[j].step \in {"none", "finish"} THEN MaxAttempts + 1
    ELSE IF job[j].step \in {"waiting", "start", "refuse", "send"} THEN j[2] ELSE j[2] + 1

Tickets(d) == {t \in Copy \X (1..MaxAttempts) : FirstLeft(JobOf(d, t[1])) <= t[2]}

SentInv(d) == requests[d] + Cardinality(Tickets(d)) <= MaxAttempts * (deaths[d] + 1)

LEMMA TicketsFinite ==
    ASSUME NEW d
    PROVE  /\ IsFiniteSet(Tickets(d)) /\ Cardinality(Tickets(d)) \in Nat
           /\ IsFiniteSet(Tickets(d)') /\ Cardinality(Tickets(d)') \in Nat
<1>1. IsFiniteSet(1..MaxAttempts) /\ IsFiniteSet(1..MaxDeaths + 1)
  BY FS_Interval, AttemptsAssumption, WorkerAssumption
<1>2. IsFiniteSet(Copy)
  BY <1>1, FS_Product DEF Copy
<1>3. IsFiniteSet(Copy \X (1..MaxAttempts))
  BY <1>1, <1>2, FS_Product
<1>4. Tickets(d) \in SUBSET (Copy \X (1..MaxAttempts)) /\ Tickets(d)' \in SUBSET (Copy \X (1..MaxAttempts))
  BY DEF Tickets
<1> QED
  BY <1>3, <1>4, FS_Subset, FS_CardinalityType

\* Copies name jobs, and every job has a copy.
LEMMA CopyOfJob ==
    ASSUME NEW d \in Delivery
    PROVE  /\ \A c \in Copy : JobOf(d, c) \in JobId /\ JobOf(d, c)[1] = d /\ JobOf(d, c)[2] = c[1]
           /\ \A j \in JobId : j[1] = d => <<j[2], j[3]>> \in Copy /\ JobOf(d, <<j[2], j[3]>>) = j
<1>1. ASSUME NEW j \in JobId, j[1] = d PROVE <<j[2], j[3]>> \in Copy /\ JobOf(d, <<j[2], j[3]>>) = j
  <2>1. PICK n \in 1..MaxAttempts, i \in 1..MaxDeaths + 1 : j = <<d, n, i>>
    BY <1>1 DEF JobId
  <2> QED
    BY <2>1 DEF Copy, JobOf
<1>2. ASSUME NEW c \in Copy PROVE JobOf(d, c) \in JobId /\ JobOf(d, c)[1] = d /\ JobOf(d, c)[2] = c[1]
  BY <1>2 DEF Copy, JobOf, JobId
<1> QED
  BY <1>1, <1>2

\* As long as no job of a delivery leads to more, and the delivery is not sent, its tickets
\* are among those it had.
LEMMA TicketsKept ==
    ASSUME WebhookTypeOK, NEW d \in Delivery, SentInv(d), requests'[d] = requests[d], deaths'[d] = deaths[d],
           \A j \in JobId : j[1] = d => job'[j].step \in {"none", "finish"} \/ FirstLeft(j)' >= FirstLeft(j)
    PROVE  SentInv(d)'
<1>1. Tickets(d)' \subseteq Tickets(d)
  <2> SUFFICES ASSUME NEW t \in Copy \X (1..MaxAttempts), FirstLeft(JobOf(d, t[1]))' <= t[2]
               PROVE  FirstLeft(JobOf(d, t[1])) <= t[2]
    BY DEF Tickets
  <2>1. t[1] \in Copy /\ t[2] \in 1..MaxAttempts /\ MaxAttempts \in Nat
    BY AttemptsAssumption
  <2>2. PICK j \in JobId : j = JobOf(d, t[1]) /\ j[1] = d
    BY <2>1, CopyOfJob
  <2>3. job'[j].step \notin {"none", "finish"}
    BY <2>1, <2>2 DEF FirstLeft
  <2>4. FirstLeft(j)' >= FirstLeft(j) /\ FirstLeft(j) \in Nat /\ FirstLeft(j)' \in Nat
    BY <2>1, <2>2, <2>3, JobParts DEF FirstLeft
  <2> QED
    BY <2>1, <2>2, <2>4
<1>2. Cardinality(Tickets(d)') <= Cardinality(Tickets(d))
  BY <1>1, TicketsFinite, FS_Subset
<1>3. Cardinality(Tickets(d)') \in Nat /\ Cardinality(Tickets(d)) \in Nat
  BY TicketsFinite
<1>4. MaxAttempts * (deaths[d] + 1) \in Nat /\ requests[d] \in Nat
  BY AttemptsAssumption, WorkerAssumption DEF WebhookTypeOK
<1> QED
  BY <1>2, <1>3, <1>4 DEF SentInv

\* A delivery for which a job leads to another attempt has been sent less often than it may be.
LEMMA TicketLeft ==
    ASSUME WebhookTypeOK, NEW d \in Delivery, SentInv(d), NEW j \in JobId, j[1] = d,
           FirstLeft(j) <= MaxAttempts
    PROVE  requests[d] < MaxAttempts * (deaths[d] + 1)
<1> DEFINE t == <<<<j[2], j[3]>>, MaxAttempts>>
<1>1. MaxAttempts \in 1..MaxAttempts
  BY AttemptsAssumption
<1>2. t \in Tickets(d)
  BY <1>1, CopyOfJob DEF Tickets
<1>3. Cardinality(Tickets(d)) # 0 /\ Cardinality(Tickets(d)) \in Nat
  BY <1>2, TicketsFinite, FS_EmptySet
<1>4. MaxAttempts * (deaths[d] + 1) \in Nat /\ requests[d] \in Nat
  BY AttemptsAssumption, WorkerAssumption DEF WebhookTypeOK
<1> QED
  BY <1>3, <1>4 DEF SentInv

\* Queueing the retry passes the tickets on: the queue gives the retry those that the job
\* which queues it has left.
LEMMA TicketsPassed ==
    ASSUME WebhookTypeOK, NEW j \in JobId, ScheduleRetry(j), SentInv(j[1])
    PROVE  SentInv(j[1])'
<1> DEFINE d == j[1]
<1> DEFINE e == <<j[2], j[3]>>
<1>1. d \in Delivery /\ j[2] \in 1..MaxAttempts /\ MaxAttempts \in Nat
  BY JobParts, AttemptsAssumption
<1>2. PICK slot :
        /\ slot[1] = j[1] /\ slot[2] = j[2] + 1 /\ slot # j
        /\ slot \in JobId => j[2] < MaxAttempts /\ job'[slot].step = "waiting"
        /\ job'[j].step = "finish"
        /\ \A i \in JobId : i # j /\ i # slot => job'[i] = job[i]
  BY RetryEffect
<1>3. job[j].step = "retry" /\ requests' = requests /\ deaths' = deaths
  BY DEF ScheduleRetry
<1> DEFINE Back(t) == IF JobOf(d, t[1]) = slot THEN <<e, t[2]>> ELSE t
<1>4. ASSUME NEW t \in Tickets(d)' PROVE Back(t) \in Tickets(d)
  <2>1. t \in Copy \X (1..MaxAttempts) /\ FirstLeft(JobOf(d, t[1]))' <= t[2]
    BY <1>4 DEF Tickets
  <2>2. t[1] \in Copy /\ t[2] \in 1..MaxAttempts
    BY <2>1
  <2>3. PICK i \in JobId : i = JobOf(d, t[1]) /\ i[1] = d
    BY <1>1, <2>2, CopyOfJob
  <2>4. i # j
    BY <1>1, <1>2, <2>1, <2>2, <2>3 DEF FirstLeft
  <2>5. CASE i = slot
    <3>1. FirstLeft(i)' = j[2] + 1 /\ FirstLeft(j) = j[2] + 1
      BY <1>2, <1>3, <2>5 DEF FirstLeft
    <3>2. e \in Copy /\ JobOf(d, e) = j
      BY <1>1, CopyOfJob
    <3>3. <<e, t[2]>> \in Copy \X (1..MaxAttempts) /\ FirstLeft(JobOf(d, e)) <= t[2]
      BY <2>1, <2>2, <2>3, <3>1, <3>2
    <3> QED
      BY <2>3, <2>5, <3>3 DEF Tickets
  <2>6. CASE i # slot
    <3>1. FirstLeft(i)' = FirstLeft(i)
      BY <1>2, <2>4, <2>6 DEF FirstLeft
    <3> QED
      BY <2>1, <2>3, <2>6, <3>1 DEF Tickets
  <2> QED
    BY <2>5, <2>6
<1>5. ASSUME NEW s \in Tickets(d)', NEW t \in Tickets(d)', Back(s) = Back(t) PROVE s = t
  <2>1. s \in Copy \X (1..MaxAttempts) /\ t \in Copy \X (1..MaxAttempts)
    BY <1>5 DEF Tickets
  <2>2. PICK c \in Copy, k \in 1..MaxAttempts : s = <<c, k>>
    BY <2>1
  <2>3. PICK b \in Copy, l \in 1..MaxAttempts : t = <<b, l>>
    BY <2>1
  <2>4. JobOf(d, e) = j /\ JobOf(d, e)[1] = d
    BY <1>1, CopyOfJob
  <2>5. ASSUME NEW u \in Tickets(d)' PROVE JobOf(d, u[1]) # j
    <3>1. u[2] \in 1..MaxAttempts /\ FirstLeft(JobOf(d, u[1]))' <= u[2]
      BY DEF Tickets
    <3>2. FirstLeft(j)' = MaxAttempts + 1
      BY <1>2 DEF FirstLeft
    <3> QED
      BY <1>1, <3>1, <3>2 DEF JobOf
  <2>6. JobOf(d, c) # j /\ JobOf(d, b) # j
    BY <1>5, <2>2, <2>3, <2>5
  <2>7. ASSUME JobOf(d, c) = slot, JobOf(d, b) = slot PROVE c = b
    BY <2>7 DEF JobOf, Copy
  <2>8. CASE JobOf(d, c) = slot /\ JobOf(d, b) = slot
    BY <1>5, <2>2, <2>3, <2>7, <2>8
  <2>9. CASE JobOf(d, c) # slot /\ JobOf(d, b) # slot
    BY <1>5, <2>2, <2>3, <2>9
  <2>10. CASE JobOf(d, c) = slot /\ JobOf(d, b) # slot
    BY <1>5, <2>2, <2>3, <2>4, <2>6, <2>10
  <2>11. CASE JobOf(d, c) # slot /\ JobOf(d, b) = slot
    BY <1>5, <2>2, <2>3, <2>4, <2>6, <2>11
  <2> QED
    BY <2>8, <2>9, <2>10, <2>11
<1> DEFINE f == [t \in Tickets(d)' |-> Back(t)]
<1>6. f \in Injection(Tickets(d)', Tickets(d))
  <2> HIDE DEF Back
  <2>1. f \in [Tickets(d)' -> Tickets(d)]
    BY <1>4
  <2>2. \A s, t \in Tickets(d)' : f[s] = f[t] => s = t
    BY <1>5
  <2> HIDE DEF f
  <2> QED
    BY <2>1, <2>2 DEF Injection, IsInjective
<1>7. Cardinality(Tickets(d)') <= Cardinality(Tickets(d))
  <2> HIDE DEF f
  <2> QED
    BY <1>6, TicketsFinite, FS_Injection
<1>8. Cardinality(Tickets(d)') \in Nat /\ Cardinality(Tickets(d)) \in Nat
  BY TicketsFinite
<1>9. MaxAttempts * (deaths[d] + 1) \in Nat /\ requests[d] \in Nat
  BY <1>1, AttemptsAssumption, WorkerAssumption DEF WebhookTypeOK
<1> QED
  BY <1>3, <1>7, <1>8, <1>9 DEF SentInv

\* A death gives the job that it strikes the attempts once more.
LEMMA TicketsGiven ==
    ASSUME WebhookTypeOK, NEW j \in JobId, Stall(j) \/ Break(j), SentInv(j[1])
    PROVE  SentInv(j[1])'
<1> DEFINE d == j[1]
<1> DEFINE e == <<j[2], j[3]>>
<1> DEFINE Given == {e} \X (1..MaxAttempts)
<1>1. d \in Delivery /\ j[2] \in 1..MaxAttempts /\ MaxAttempts \in Nat
  BY JobParts, AttemptsAssumption
<1>2. /\ \A i \in JobId : i # j => job'[i] = job[i]
      /\ deaths'[d] = deaths[d] + 1 /\ requests' = requests
  BY <1>1, DeathEffect
<1>3. Tickets(d)' \subseteq Tickets(d) \cup Given
  <2> SUFFICES ASSUME NEW t \in Tickets(d)', t[1] # e PROVE t \in Tickets(d)
    BY DEF Tickets
  <2>1. t \in Copy \X (1..MaxAttempts) /\ t[1] \in Copy /\ FirstLeft(JobOf(d, t[1]))' <= t[2]
    BY DEF Tickets
  <2>2. JobOf(d, t[1]) \in JobId /\ JobOf(d, t[1]) # j
    <3>1. PICK a \in 1..MaxAttempts, b \in 1..MaxDeaths + 1 : t[1] = <<a, b>>
      BY <2>1 DEF Copy
    <3>2. PICK n \in 1..MaxAttempts, i \in 1..MaxDeaths + 1 : j = <<d, n, i>>
      BY DEF JobId
    <3>3. JobOf(d, t[1]) = <<d, a, b>> /\ e = <<n, i>>
      BY <3>1, <3>2 DEF JobOf
    <3>4. <<d, a, b>> # <<d, n, i>>
      BY <3>1, <3>3
    <3> QED
      BY <1>1, <2>1, <3>2, <3>3, <3>4, CopyOfJob
  <2>3. FirstLeft(JobOf(d, t[1]))' = FirstLeft(JobOf(d, t[1]))
    BY <1>2, <2>2 DEF FirstLeft
  <2> QED
    BY <2>1, <2>3 DEF Tickets
<1>4. IsFiniteSet(Given) /\ Cardinality(Given) = MaxAttempts
  <2>1. IsFiniteSet({e}) /\ Cardinality({e}) = 1
    BY FS_Singleton
  <2>2. IsFiniteSet(1..MaxAttempts) /\ Cardinality(1..MaxAttempts) = MaxAttempts
    BY <1>1, FS_Interval
  <2> HIDE DEF e
  <2>3. Cardinality(Given) = Cardinality({e}) * Cardinality(1..MaxAttempts)
    BY <2>1, <2>2, FS_Product
  <2> QED
    BY <1>1, <2>1, <2>2, <2>3, FS_Product
<1> HIDE DEF Given, d, e
<1>5. /\ IsFiniteSet(Tickets(d) \cup Given)
      /\ Cardinality(Tickets(d) \cup Given) <= Cardinality(Tickets(d)) + MaxAttempts
  <2>1. IsFiniteSet(Tickets(d)) /\ Cardinality(Tickets(d)) \in Nat
    BY TicketsFinite
  <2>2. /\ IsFiniteSet(Tickets(d) \cup Given)
        /\ Cardinality(Tickets(d) \cup Given) =
             Cardinality(Tickets(d)) + Cardinality(Given) - Cardinality(Tickets(d) \cap Given)
    BY <1>4, <2>1, FS_Union
  <2>3. IsFiniteSet(Tickets(d) \cap Given)
    BY <1>4, FS_Subset
  <2>4. Cardinality(Tickets(d) \cap Given) \in Nat
    BY <2>3, FS_CardinalityType
  <2> QED
    BY <1>1, <1>4, <2>1, <2>2, <2>4
<1>6. Cardinality(Tickets(d)') <= Cardinality(Tickets(d) \cup Given)
  BY <1>3, <1>5, FS_Subset
<1>7. /\ Cardinality(Tickets(d)') \in Nat /\ Cardinality(Tickets(d)) \in Nat
      /\ Cardinality(Tickets(d) \cup Given) \in Nat
  BY <1>5, TicketsFinite, FS_CardinalityType
<1>8. deaths[d] \in Nat /\ requests[d] \in Nat
  BY <1>1, WorkerAssumption DEF WebhookTypeOK
<1>9. MaxAttempts * (deaths'[d] + 1) = MaxAttempts * (deaths[d] + 1) + MaxAttempts
  BY <1>1, <1>2, <1>8
<1>10. MaxAttempts * (deaths[d] + 1) \in Nat
  BY <1>1, <1>8
<1>11. SentInv(d)
  BY DEF d
<1>12. SentInv(d)'
  BY <1>1, <1>2, <1>5, <1>6, <1>7, <1>8, <1>9, <1>10, <1>11 DEF SentInv
<1> QED
  BY <1>12 DEF d

\* Sending spends a ticket.
LEMMA TicketSpent ==
    ASSUME WebhookTypeOK, NEW j \in JobId, Send(j), SentInv(j[1])
    PROVE  SentInv(j[1])'
<1> DEFINE d == j[1]
<1> DEFINE t == <<<<j[2], j[3]>>, j[2]>>
<1>1. d \in Delivery /\ j[2] \in 1..MaxAttempts /\ MaxAttempts \in Nat
  BY JobParts, AttemptsAssumption
<1>2. /\ \A i \in JobId : i # j => job'[i] = job[i]
      /\ job'[j].step = "record" /\ job[j].step = "send" /\ deaths' = deaths
      /\ requests'[d] = requests[d] + 1
  BY <1>1 DEF Send, WebhookTypeOK, Job
<1>3. t \in Tickets(d)
  BY <1>1, <1>2, CopyOfJob DEF Tickets, FirstLeft
<1>4. Tickets(d)' \subseteq Tickets(d) \ {t}
  <2> SUFFICES ASSUME NEW s \in Tickets(d)' PROVE s \in Tickets(d) /\ s # t
    OBVIOUS
  <2>1. s \in Copy \X (1..MaxAttempts) /\ s[1] \in Copy /\ s[2] \in 1..MaxAttempts
        /\ FirstLeft(JobOf(d, s[1]))' <= s[2]
    BY DEF Tickets
  <2>2. PICK i \in JobId : i = JobOf(d, s[1])
    BY <1>1, <2>1, CopyOfJob
  <2>3. FirstLeft(i) <= FirstLeft(i)' /\ FirstLeft(i)' <= s[2] /\ FirstLeft(i) \in Nat /\ FirstLeft(i)' \in Nat
    BY <1>1, <1>2, <2>1, <2>2, JobParts DEF FirstLeft
  <2>4. s \in Tickets(d)
    BY <2>1, <2>2, <2>3 DEF Tickets
  <2>5. ASSUME s = t PROVE FALSE
    <3>1. s[1] = <<j[2], j[3]>> /\ s[2] = j[2]
      BY <2>5
    <3>2. i = j
      BY <1>1, <2>2, <3>1, CopyOfJob
    <3> QED
      BY <1>1, <1>2, <2>3, <3>1, <3>2 DEF FirstLeft
  <2> QED
    BY <2>4, <2>5
<1> HIDE DEF t, d
<1>5. /\ IsFiniteSet(Tickets(d) \ {t})
      /\ Cardinality(Tickets(d) \ {t}) = Cardinality(Tickets(d)) - 1
  BY <1>3, TicketsFinite, FS_RemoveElement
<1>6. Cardinality(Tickets(d)') <= Cardinality(Tickets(d)) - 1
  BY <1>4, <1>5, FS_Subset
<1>7. Cardinality(Tickets(d)') \in Nat /\ Cardinality(Tickets(d)) \in Nat
  BY TicketsFinite
<1>8. MaxAttempts * (deaths[d] + 1) \in Nat /\ requests[d] \in Nat
  BY <1>1, WorkerAssumption DEF WebhookTypeOK
<1>9. SentInv(d)
  BY DEF d
<1>10. SentInv(d)'
  BY <1>2, <1>6, <1>7, <1>8, <1>9 DEF SentInv
<1> QED
  BY <1>10 DEF d

\* The first attempt is queued with all the attempts before it.
LEMMA TicketsBought ==
    ASSUME WebhookTypeOK, SoundInv, NEW d \in Delivery, AddWebhookJob(d)
    PROVE  SentInv(d)'
<1>1. event[d] = "recorded" /\ job' = Queued(job, d, 1) /\ UNCHANGED <<requests, deaths>>
  BY DEF AddWebhookJob
<1>2. PICK slot :
        /\ slot[1] = d /\ slot[2] = 1
        /\ \A i \in JobId : job'[i] = IF i = slot THEN [NoJob EXCEPT !.step = "waiting"] ELSE job[i]
  BY <1>1, QueuedSlot DEF WebhookTypeOK
<1>3. MaxAttempts \in Nat /\ requests[d] = 0 /\ deaths[d] \in Nat
  BY <1>1, AttemptsAssumption, WorkerAssumption DEF SoundInv, DeliverySound, WebhookTypeOK
<1>4. \A j \in JobId : j[1] = d => job[j].step = "none"
  BY <1>1 DEF SoundInv, JobSound
<1> DEFINE e == <<slot[2], slot[3]>>
<1> DEFINE Given == {e} \X (1..MaxAttempts)
<1>5. Tickets(d)' \subseteq Given
  <2> SUFFICES ASSUME NEW t \in Tickets(d)' PROVE t \in Given
    OBVIOUS
  <2>1. t \in Copy \X (1..MaxAttempts) /\ t[1] \in Copy /\ t[2] \in 1..MaxAttempts
        /\ FirstLeft(JobOf(d, t[1]))' <= t[2]
    BY DEF Tickets
  <2>2. PICK i \in JobId : i = JobOf(d, t[1]) /\ i[1] = d
    BY <2>1, CopyOfJob
  <2>3. i = slot
    BY <1>2, <1>3, <1>4, <2>1, <2>2 DEF FirstLeft
  <2>4. PICK a \in 1..MaxAttempts, b \in 1..MaxDeaths + 1 : t[1] = <<a, b>>
    BY <2>1 DEF Copy
  <2>5. slot = <<d, a, b>>
    BY <2>2, <2>3, <2>4 DEF JobOf
  <2>6. t[1] = e
    BY <2>4, <2>5
  <2> QED
    BY <2>1, <2>6
<1>6. IsFiniteSet(Given) /\ Cardinality(Given) = MaxAttempts
  <2> HIDE DEF e
  <2>1. IsFiniteSet({e}) /\ Cardinality({e}) = 1
    BY FS_Singleton
  <2>2. IsFiniteSet(1..MaxAttempts) /\ Cardinality(1..MaxAttempts) = MaxAttempts
    BY <1>3, FS_Interval
  <2>3. Cardinality(Given) = Cardinality({e}) * Cardinality(1..MaxAttempts)
    BY <2>1, <2>2, FS_Product
  <2> QED
    BY <1>3, <2>1, <2>2, <2>3, FS_Product
<1> HIDE DEF Given
<1>7. Cardinality(Tickets(d)') <= MaxAttempts
  BY <1>5, <1>6, FS_Subset
<1>8. Cardinality(Tickets(d)') \in Nat
  BY TicketsFinite
<1>9. MaxAttempts * (deaths[d] + 1) = MaxAttempts * deaths[d] + MaxAttempts /\ MaxAttempts * deaths[d] \in Nat
  BY <1>3
<1> QED
  BY <1>1, <1>3, <1>7, <1>8, <1>9 DEF SentInv

\* Every step keeps the account of every delivery.
LEMMA SentStep ==
    ASSUME WebhookTypeOK, SoundInv, [WebhookNext]_webhookVars, NEW d \in Delivery, SentInv(d)
    PROVE  SentInv(d)'
<1>1. CASE UNCHANGED webhookVars \/ SwitchEndpoint
  BY <1>1 DEF webhookVars, SwitchEndpoint, SentInv, Tickets, FirstLeft
<1>2. ASSUME NEW c \in Delivery, GetActiveWebhooks(c) \/ CreateDeliveryRecord(c) \/ LoseEvent(c)
      PROVE  SentInv(d)'
  BY <1>2 DEF GetActiveWebhooks, CreateDeliveryRecord, LoseEvent, SentInv, Tickets, FirstLeft
<1>3. ASSUME NEW c \in Delivery, AddWebhookJob(c) PROVE SentInv(d)'
  <2>1. CASE c = d
    BY <1>3, <2>1, TicketsBought
  <2>2. CASE c # d
    <3>1. job' = Queued(job, c, 1) /\ UNCHANGED <<requests, deaths>>
      BY <1>3 DEF AddWebhookJob
    <3>2. PICK slot :
            /\ slot[1] = c
            /\ \A i \in JobId : job'[i] = IF i = slot THEN [NoJob EXCEPT !.step = "waiting"] ELSE job[i]
      BY <3>1, QueuedSlot DEF WebhookTypeOK
    <3>3. \A j \in JobId : j[1] = d => job'[j] = job[j]
      BY <2>2, <3>2
    <3>4. \A j \in JobId : j[1] = d => FirstLeft(j)' = FirstLeft(j) /\ FirstLeft(j) \in Nat
      BY <3>3, JobParts, AttemptsAssumption DEF FirstLeft
    <3> QED
      BY <3>1, <3>4, TicketsKept
  <2> QED
    BY <2>1, <2>2
<1>4. ASSUME NEW j \in JobId, j[1] # d, Work(j) \/ Stall(j) \/ Break(j) PROVE SentInv(d)'
  <2>1. \A i \in JobId : i[1] = d => job'[i] = job[i]
    BY <1>4, WorkLeavesOthers
  <2>2. requests'[d] = requests[d] /\ deaths'[d] = deaths[d]
    BY <1>4, JobParts DEF Work, TakeJob, StartAttempt, RefuseDelivery, Send, RecordOutcome, UpdateEndpointStats,
         CheckEndpoint, DisableEndpoint, ScheduleRetry, Finish, Stall, Break, WebhookTypeOK
  <2>3. \A i \in JobId : i[1] = d => FirstLeft(i)' = FirstLeft(i) /\ FirstLeft(i) \in Nat
    BY <2>1, JobParts, AttemptsAssumption DEF FirstLeft
  <2> QED
    BY <2>2, <2>3, TicketsKept
<1>5. ASSUME NEW j \in JobId, j[1] = d, Stall(j) \/ Break(j) PROVE SentInv(d)'
  BY <1>5, TicketsGiven
<1>6. ASSUME NEW j \in JobId, j[1] = d, Work(j) PROVE SentInv(d)'
  <2>1. CASE Send(j)
    BY <1>6, <2>1, TicketSpent
  <2>2. CASE ScheduleRetry(j)
    BY <1>6, <2>2, TicketsPassed
  <2>3. CASE ~Send(j) /\ ~ScheduleRetry(j)
    <3>1. UNCHANGED <<requests, deaths>>
      BY <1>6, <2>3 DEF Work, TakeJob, StartAttempt, RefuseDelivery, RecordOutcome, UpdateEndpointStats,
           CheckEndpoint, DisableEndpoint, Finish
    <3>2. \A i \in JobId : i # j => job'[i] = job[i]
      <4>1. CASE Finish(j)
        BY <4>1 DEF Finish, WebhookTypeOK
      <4>2. CASE ~Finish(j)
        <5>1. \E s : Step(j, s)
          BY <1>6, <2>3, <4>2 DEF Work, TakeJob, StartAttempt, RefuseDelivery, RecordOutcome,
               UpdateEndpointStats, CheckEndpoint, DisableEndpoint
        <5> QED
          BY <5>1, StepEffect
      <4> QED
        BY <4>1, <4>2
    <3>3. job'[j].step \in {"none", "finish"} \/ FirstLeft(j)' >= FirstLeft(j)
      <4>1. j[2] \in Nat
        BY JobParts, AttemptsAssumption
      <4>2. CASE Finish(j)
        BY <4>2 DEF Finish, WebhookTypeOK, NoJob
      <4>3. CASE TakeJob(j)
        <5>1. job[j].step = "waiting" /\ job'[j].step \in {"start", "refuse"}
          BY <4>3, StepEffect DEF TakeJob
        <5> QED
          BY <4>1, <5>1 DEF FirstLeft
      <4>4. CASE StartAttempt(j) \/ RefuseDelivery(j)
        <5>1. (job[j].step = "start" /\ job'[j].step = "send") \/ job'[j].step = "finish"
          BY <4>4, StepEffect DEF StartAttempt, RefuseDelivery
        <5> QED
          BY <4>1, <5>1 DEF FirstLeft
      <4>5. CASE RecordOutcome(j) \/ UpdateEndpointStats(j) \/ CheckEndpoint(j) \/ DisableEndpoint(j)
        <5>1. /\ job[j].step \in {"record", "count", "check", "disable"}
              /\ job'[j].step \in {"count", "finish", "check", "disable", "retry"}
          BY <4>5, StepEffect DEF RecordOutcome, UpdateEndpointStats, CheckEndpoint, DisableEndpoint, AfterCount
        <5> QED
          BY <4>1, <5>1 DEF FirstLeft
      <4> QED
        BY <1>6, <2>3, <4>2, <4>3, <4>4, <4>5 DEF Work
    <3>4. \A i \in JobId : i # j => FirstLeft(i)' = FirstLeft(i) /\ FirstLeft(i) \in Nat
      BY <3>2, JobParts, AttemptsAssumption DEF FirstLeft
    <3>5. \A i \in JobId : i[1] = d => job'[i].step \in {"none", "finish"} \/ FirstLeft(i)' >= FirstLeft(i)
      BY <3>3, <3>4
    <3> QED
      BY <3>1, <3>5, TicketsKept
  <2> QED
    BY <2>1, <2>2, <2>3
<1> QED
  BY <1>1, <1>2, <1>3, <1>4, <1>5, <1>6 DEF WebhookNext

-----------------------------------------------------------------------------
(***************************************************************************)
(* Every step of the deliveries is a step of what they were promised.      *)
(***************************************************************************)
DeliveriesInv ==
    /\ WebhookTypeOK /\ ReceivedInv /\ SoundInv /\ CalmInv
    /\ \A d \in Delivery : SentInv(d)

LEMMA DeliveriesAlways == WebhookSpec => []DeliveriesInv
<1>1. ASSUME WebhookInit PROVE ReceivedInv /\ CalmInv /\ \A d \in Delivery : SentInv(d)
  <2>1. \A j \in JobId : job[j].step = "none" /\ ~job[j].ok
    BY <1>1 DEF WebhookInit, NoJob
  <2>2. ReceivedInv /\ CalmInv
    BY <1>1, <2>1 DEF WebhookInit, ReceivedInv, SuccessWasReceived, CalmInv, DeliveryInv, HasWork
  <2>3. ASSUME NEW d \in Delivery PROVE SentInv(d)
    <3>1. Tickets(d) = {}
      <4> SUFFICES ASSUME NEW t \in Tickets(d) PROVE FALSE
        OBVIOUS
      <4>1. t[1] \in Copy /\ t[2] \in 1..MaxAttempts /\ FirstLeft(JobOf(d, t[1])) <= t[2]
        BY DEF Tickets
      <4>2. FirstLeft(JobOf(d, t[1])) = MaxAttempts + 1
        BY <2>1, <4>1, CopyOfJob DEF FirstLeft
      <4> QED
        BY <4>1, <4>2, AttemptsAssumption
    <3>2. Cardinality(Tickets(d)) = 0 /\ requests[d] = 0 /\ deaths[d] = 0
      BY <1>1, <3>1, FS_EmptySet DEF WebhookInit
    <3> QED
      BY <3>2, AttemptsAssumption DEF SentInv
  <2> QED
    BY <2>2, <2>3
<1>2. DeliveriesInv /\ WebhookTypeOK' /\ [WebhookNext]_webhookVars => DeliveriesInv'
  BY ReceivedStep, SoundStep, CalmStep, SentStep DEF DeliveriesInv
<1>3. WebhookTypeOK /\ SoundInv /\ (ReceivedInv /\ CalmInv /\ \A d \in Delivery : SentInv(d)) => DeliveriesInv
  BY DEF DeliveriesInv
<1>4. WebhookInit => SoundInv
  BY SoundStart
<1> QED
  BY <1>1, <1>2, <1>3, <1>4, WebhookTypeCorrect, PTL DEF WebhookSpec

\* Work on the delivery of a job goes on until its outcome is recorded.
LEMMA JobAtWork ==
    ASSUME DeliveriesInv, NEW j \in JobId, job[j].step \in {"waiting", "start", "refuse", "send", "record"}
    PROVE  Promise!AtWork(j[1])
<1>1. j[1] \in Delivery /\ deaths[j[1]] \in Nat /\ deliveryStatus[j[1]] = record[j[1]].status
  BY JobParts, WorkerAssumption DEF DeliveriesInv, WebhookTypeOK, deliveryStatus
<1>2. CASE deaths[j[1]] = 0
  <2>1. JobInv(j)
    BY <1>1, <1>2 DEF DeliveriesInv, CalmInv, DeliveryInv, HasWork
  <2>2. record[j[1]].status \in {"pending", "retrying"}
    BY <2>1 DEF JobInv, Under
  <2> QED
    BY <1>1, <2>2 DEF Promise!AtWork, Promise!Open
<1>3. CASE deaths[j[1]] # 0
  BY <1>1, <1>3 DEF Promise!AtWork
<1> QED
  BY <1>2, <1>3

LEMMA WriteConcludes ==
    ASSUME WebhookTypeOK, NEW j \in JobId, NEW s, SetRecord(j, s)
    PROVE  deliveryStatus' = [deliveryStatus EXCEPT ![j[1]] = s]
<1>1. \A d \in Delivery : record'[d].status = IF d = j[1] THEN s ELSE record[d].status
  BY WriteEffect
<1> QED
  BY <1>1, JobParts DEF deliveryStatus

\* A step of the worker that runs j.
LEMMA WorkPromised ==
    ASSUME DeliveriesInv, NEW j \in JobId, Work(j)
    PROVE  [Promise!Next]_(Promise!vars)
<1> DEFINE d == j[1]
<1>1. /\ d \in Delivery /\ j[2] \in 1..MaxAttempts /\ j[2] \in Nat /\ MaxAttempts \in Nat
      /\ WebhookTypeOK /\ SentInv(d) /\ JobSound(j) /\ ReceivedInv
  BY JobParts, AttemptsAssumption DEF DeliveriesInv, SoundInv
<1>2. deaths[d] \in Nat /\ requests[d] \in Nat /\ deliveryStatus[d] = record[d].status
  BY <1>1, WorkerAssumption DEF WebhookTypeOK, deliveryStatus
<1>3. ASSUME Promise!Record(d) \/ Promise!Send(d) \/ Promise!Succeed(d) \/ Promise!Retry(d) \/ Promise!GiveUp(d)
             \/ Promise!TurnAway(d) \/ Promise!StartOver(d) \/ Promise!Accident(d) \/ Promise!Switch
      PROVE  Promise!Next
  BY <1>1, <1>3 DEF Promise!Next
<1>4. foundOn' = foundOn
  <2>1. event' = event
    BY DEF Work, TakeJob, StartAttempt, RefuseDelivery, Send, RecordOutcome, UpdateEndpointStats,
           CheckEndpoint, DisableEndpoint, ScheduleRetry, Finish
  <2> QED
    BY <2>1 DEF foundOn
<1>5. CASE TakeJob(j)
  <2>1. CASE endpoint.active
    BY <1>5, <2>1, <1>4 DEF TakeJob, Promise!vars, deliveryStatus
  <2>2. CASE ~endpoint.active
    <3>1. Promise!AtWork(d)
      BY <1>5, JobAtWork DEF TakeJob
    <3>2. Promise!TurnAway(d)
      BY <1>5, <2>2, <3>1, <1>4 DEF TakeJob, Promise!TurnAway, deliveryStatus
    <3> QED
      BY <1>3, <3>2
  <2> QED
    BY <2>1, <2>2
<1>6. CASE StartAttempt(j)
  <2>1. /\ job[j].step = "start" /\ deliveryStatus' = [deliveryStatus EXCEPT ![d] = Under(j)]
        /\ UNCHANGED <<endpoint, requests, received, turnedAway, deaths>>
    BY <1>1, <1>6, WriteConcludes DEF StartAttempt, Under
  <2>2. Promise!AtWork(d)
    BY <2>1, JobAtWork
  <2>3. Promise!AttemptsLeft(d)
    BY <1>1, <2>1, TicketLeft DEF FirstLeft, Promise!AttemptsLeft
  <2>4. CASE j[2] > 1
    <3>1. 0 < requests[d]
      BY <1>1, <1>2, <2>1, <2>4 DEF JobSound
    <3>2. Promise!Retry(d)
      BY <2>1, <2>2, <2>3, <2>4, <3>1, <1>4 DEF Under, Promise!Retry, Promise!Conclude
    <3> QED
      BY <1>3, <3>2
  <2>5. CASE ~(j[2] > 1) /\ deaths[d] > 0
    <3>1. Promise!StartOver(d)
      BY <2>1, <2>3, <2>5, <1>4 DEF Under, Promise!StartOver, Promise!Conclude
    <3> QED
      BY <1>3, <3>1
  <2>6. CASE ~(j[2] > 1) /\ deaths[d] = 0
    <3>1. JobInv(j)
      BY <1>1, <2>1, <2>6 DEF DeliveriesInv, CalmInv, DeliveryInv, HasWork
    <3>2. deliveryStatus[d] = Under(j)
      BY <1>2, <2>1, <3>1 DEF JobInv
    <3>3. deliveryStatus' = deliveryStatus
      BY <2>1, <3>2 DEF deliveryStatus
    <3> QED
      BY <2>1, <3>3, <1>4 DEF Promise!vars
  <2> QED
    BY <1>2, <2>4, <2>5, <2>6
<1>7. CASE RefuseDelivery(j)
  <2>1. /\ job[j].step = "refuse" /\ deliveryStatus' = [deliveryStatus EXCEPT ![d] = "failed"]
        /\ UNCHANGED <<endpoint, requests, received, turnedAway, deaths>>
    BY <1>1, <1>7, WriteConcludes DEF RefuseDelivery
  <2>2. Promise!AtWork(d) /\ d \in turnedAway
    BY <1>1, <2>1, JobAtWork DEF JobSound
  <2>3. Promise!GiveUp(d)
    BY <2>1, <2>2, <1>4 DEF Promise!GiveUp, Promise!Conclude
  <2> QED
    BY <1>3, <2>3
<1>8. CASE Send(j)
  <2>1. /\ job[j].step = "send" /\ requests' = [requests EXCEPT ![d] = @ + 1]
        /\ received' \in {received, received \cup {d}}
        /\ UNCHANGED <<endpoint, deliveryStatus, turnedAway, deaths>>
    BY <1>8 DEF Send, deliveryStatus
  <2>2. Promise!AtWork(d)
    BY <2>1, JobAtWork
  <2>3. Promise!AttemptsLeft(d)
    BY <1>1, <2>1, TicketLeft DEF FirstLeft, Promise!AttemptsLeft
  <2>4. Promise!Send(d)
    BY <2>1, <2>2, <2>3, <1>4 DEF Promise!Send
  <2> QED
    BY <1>3, <2>4
<1>9. CASE RecordOutcome(j)
  <2>1. /\ job[j].step = "record" /\ deliveryStatus' = [deliveryStatus EXCEPT ![d] = Outcome(j)]
        /\ UNCHANGED <<endpoint, requests, received, turnedAway, deaths>>
    BY <1>1, <1>9, WriteConcludes DEF RecordOutcome
  <2>2. Promise!AtWork(d) /\ requests[d] >= j[2]
    BY <1>1, <2>1, JobAtWork DEF JobSound
  <2>3. CASE Outcome(j) = "success"
    <3>1. d \in received
      BY <1>1, <2>3 DEF Outcome, ReceivedInv
    <3>2. Promise!Succeed(d)
      BY <2>1, <2>2, <2>3, <3>1, <1>4 DEF Promise!Succeed, Promise!Conclude
    <3> QED
      BY <1>3, <3>2
  <2>4. CASE Outcome(j) = "failed"
    <3>1. requests[d] >= MaxAttempts
      BY <1>1, <1>2, <2>2, <2>4 DEF Outcome
    <3>2. Promise!GiveUp(d)
      BY <2>1, <2>2, <2>4, <3>1, <1>4 DEF Promise!GiveUp, Promise!Conclude
    <3> QED
      BY <1>3, <3>2
  <2>5. CASE Outcome(j) = "retrying"
    <3>1. FirstLeft(j) <= MaxAttempts /\ 0 < requests[d]
      BY <1>1, <1>2, <2>1, <2>2, <2>5 DEF Outcome, FirstLeft
    <3>2. Promise!AttemptsLeft(d)
      BY <1>1, <3>1, TicketLeft DEF Promise!AttemptsLeft
    <3>3. Promise!Retry(d)
      BY <2>1, <2>2, <2>5, <3>1, <3>2, <1>4 DEF Promise!Retry, Promise!Conclude
    <3> QED
      BY <1>3, <3>3
  <2> QED
    BY <2>3, <2>4, <2>5 DEF Outcome
<1>10. CASE UpdateEndpointStats(j) \/ CheckEndpoint(j) \/ ScheduleRetry(j) \/ Finish(j)
  <2>1. endpoint'.active = endpoint.active
    BY <1>1, <1>10 DEF UpdateEndpointStats, CheckEndpoint, ScheduleRetry, Finish, WebhookTypeOK
  <2> QED
    BY <1>10, <2>1, <1>4 DEF UpdateEndpointStats, CheckEndpoint, ScheduleRetry, Finish, Promise!vars, deliveryStatus
<1>11. CASE DisableEndpoint(j)
  <2>1. endpoint'.active = FALSE /\ endpoint.active \in BOOLEAN
    BY <1>1, <1>11 DEF DisableEndpoint, WebhookTypeOK
  <2>2. CASE endpoint.active
    <3>1. Promise!Switch
      BY <1>11, <2>1, <2>2, <1>4 DEF DisableEndpoint, Promise!Switch, deliveryStatus
    <3> QED
      BY <1>3, <3>1
  <2>3. CASE ~endpoint.active
    BY <1>11, <2>1, <2>3, <1>4 DEF DisableEndpoint, Promise!vars, deliveryStatus
  <2> QED
    BY <2>2, <2>3
<1> QED
  BY <1>5, <1>6, <1>7, <1>8, <1>9, <1>10, <1>11 DEF Work

\* Every step.
LEMMA PromiseStep ==
    ASSUME DeliveriesInv, [WebhookNext]_webhookVars
    PROVE  [Promise!Next]_(Promise!vars)
<1>1. CASE UNCHANGED webhookVars
  BY <1>1 DEF webhookVars, Promise!vars, deliveryStatus, foundOn
<1>2. ASSUME NEW d \in Delivery, CreateDeliveryRecord(d) PROVE Promise!Next
  <2>1. record[d].status = "none" /\ d \in foundOn /\ foundOn' = foundOn
    BY <1>2 DEF DeliveriesInv, SoundInv, DeliverySound, CreateDeliveryRecord, WebhookTypeOK, foundOn
  <2>2. deliveryStatus' = [deliveryStatus EXCEPT ![d] = "pending"]
    BY <1>2 DEF CreateDeliveryRecord, DeliveriesInv, WebhookTypeOK, deliveryStatus
  <2>3. Promise!Record(d)
    BY <1>2, <2>1, <2>2 DEF CreateDeliveryRecord, deliveryStatus, Promise!Record, Promise!Conclude
  <2> QED
    BY <2>3 DEF Promise!Next
<1>3. ASSUME NEW d \in Delivery, AddWebhookJob(d) \/ LoseEvent(d) PROVE UNCHANGED Promise!vars
  <2>1. foundOn' = foundOn
    BY <1>3 DEF AddWebhookJob, LoseEvent, DeliveriesInv, WebhookTypeOK, foundOn
  <2> QED
    BY <1>3, <2>1 DEF AddWebhookJob, LoseEvent, Promise!vars, deliveryStatus
<1>4. ASSUME NEW d \in Delivery, GetActiveWebhooks(d) PROVE Promise!Next
  <2>1. endpoint.active /\ foundOn' = foundOn \cup {d}
    BY <1>4 DEF GetActiveWebhooks, DeliveriesInv, WebhookTypeOK, foundOn
  <2>2. Promise!Notice(d)
    BY <1>4, <2>1 DEF GetActiveWebhooks, deliveryStatus, Promise!Notice
  <2> QED
    BY <2>2 DEF Promise!Next
<1>5. ASSUME NEW j \in JobId, Stall(j) \/ Break(j) PROVE Promise!Next
  <2>1. j[1] \in Delivery /\ job[j].step # "none"
    BY <1>5, JobParts, DeathEffect DEF DeliveriesInv
  <2>2. record[j[1]].status # "none"
    BY <2>1 DEF DeliveriesInv, SoundInv, JobSound, DeliverySound
  <2>3. deaths' = [deaths EXCEPT ![j[1]] = @ + 1]
    BY <1>5 DEF Stall, Break
  <2>4. Promise!Accident(j[1])
    BY <1>5, <2>1, <2>2, <2>3 DEF Stall, Break, deliveryStatus, foundOn, Promise!Accident
  <2> QED
    BY <2>1, <2>4 DEF Promise!Next
<1>6. CASE SwitchEndpoint
  <2>1. endpoint'.active = ~endpoint.active
    BY <1>6 DEF SwitchEndpoint, DeliveriesInv, WebhookTypeOK
  <2>2. Promise!Switch
    BY <1>6, <2>1 DEF SwitchEndpoint, deliveryStatus, foundOn, Promise!Switch
  <2> QED
    BY <2>2 DEF Promise!Next
<1> QED
  BY <1>1, <1>2, <1>3, <1>4, <1>5, <1>6, WorkPromised DEF WebhookNext

\* The subscriber, the queue, the worker and the endpoint together keep what was promised
\* of each delivery, for any number of deliveries, attempts, workers and deaths: it is
\* recorded only if its event found the endpoint on, however it is switched until then;
\* whatever is done again, each delivery is sent no more often than its deaths allow, and one whose
\* jobs no death has struck ends once, whatever becomes of the others.
THEOREM DeliveriesAsPromisedCorrect == WebhookSpec => DeliveriesAsPromised
<1>1. WebhookInit => Promise!Init
  BY DEF WebhookInit, Promise!Init, deliveryStatus, foundOn
<1>2. DeliveriesInv /\ [WebhookNext]_webhookVars => [Promise!Next]_(Promise!vars)
  BY PromiseStep
<1> QED
  BY <1>1, <1>2, DeliveriesAlways, PTL DEF WebhookSpec, DeliveriesAsPromised, Promise!Spec

-----------------------------------------------------------------------------
(***************************************************************************)
(* Imports.                                                                *)
(***************************************************************************)


Session == [step : {"idle", "insert", "commit", "enqueue", "fail"},
            types : SUBSET Entity, ready : SUBSET Entity]

\* No job has more rows to commit than before.
TodoShrinks == \A t \in TaskId : task'[t].todo \subseteq task[t].todo

-----------------------------------------------------------------------------
(***************************************************************************)
(* The jobs.                                                               *)
(***************************************************************************)

\* A job out of the queue has nothing to commit.
LEMMA NoTaskTyped == NoTask \in Task /\ NoTask.todo = {}
BY ImportBounds DEF NoTask, Task, BatchStatus

\* Queueing jobs changes no rows that a job has to commit.
LEMMA AddedTyped ==
    ASSUME NEW tasks \in [TaskId -> Task], NEW ts
    PROVE  /\ Added(tasks, ts) \in [TaskId -> Task]
           /\ \A t \in TaskId : Added(tasks, ts)[t].todo = tasks[t].todo
<1>1. \A t \in TaskId : /\ [tasks[t] EXCEPT !.step = "waiting"] \in Task
                        /\ [tasks[t] EXCEPT !.step = "waiting"].todo = tasks[t].todo
  BY DEF Task
<1>2. QED
  BY <1>1 DEF Added

\* An attempt that threw is given out again or ended, without rows.
LEMMA ThrownTyped ==
    ASSUME ImportTypeOK, NEW t \in TaskId
    PROVE  Thrown(t) \in Task /\ Thrown(t).todo = {}
<1>1. task[t] \in Task
  BY DEF ImportTypeOK
<1>2. task[t].attempt \in 1..Attempts /\ task[t].again \in BOOLEAN
  BY <1>1 DEF Task
<1>3. CASE task[t].attempt < Attempts
  <2>1. task[t].attempt + 1 \in 1..Attempts
    BY <1>2, <1>3, ImportBounds
  <2> DEFINE new == [NoTask EXCEPT !.step = "waiting", !.attempt = task[t].attempt + 1,
                                   !.again = task[t].again]
  <2>2. new \in Task /\ new.todo = {}
    BY <1>2, <2>1, NoTaskTyped DEF Task
  <2>3. Thrown(t) = new
    BY <1>3 DEF Thrown
  <2> HIDE DEF new
  <2>4. QED
    BY <2>2, <2>3
<1>4. CASE ~(task[t].attempt < Attempts)
  <2>1. [NoTask EXCEPT !.step = "ended"] \in Task /\ [NoTask EXCEPT !.step = "ended"].todo = {}
    BY NoTaskTyped DEF Task
  <2>2. QED
    BY <1>4, <2>1 DEF Thrown
<1>5. QED
  BY <1>3, <1>4

\* The ways a job goes on in its processing.
LEMMA StepsTyped ==
    ASSUME ImportTypeOK, NEW t \in TaskId,
           NEW step \in {"none", "waiting", "work", "rows", "complete", "advance", "write", "enqueue",
                         "fail", "ended"},
           NEW next \in BatchStatus
    PROVE  /\ [task[t] EXCEPT !.step = step] \in Task
           /\ [task[t] EXCEPT !.step = step].todo = task[t].todo
           /\ [task[t] EXCEPT !.step = step, !.next = next] \in Task
           /\ [task[t] EXCEPT !.step = step, !.next = next].todo = task[t].todo
           /\ [task[t] EXCEPT !.step = step, !.caught = TRUE] \in Task
           /\ [task[t] EXCEPT !.step = step, !.caught = TRUE].todo = task[t].todo
           /\ [NoTask EXCEPT !.step = step] \in Task
           /\ [NoTask EXCEPT !.step = step].todo = {}
<1>1. task[t] \in Task
  BY DEF ImportTypeOK
<1>2. QED
  BY <1>1, NoTaskTyped DEF Task

\* So does one whose batch was advanced.
LEMMA AdvancedTyped ==
    ASSUME ImportTypeOK, NEW t \in TaskId
    PROVE  Advanced(t) \in Task /\ Advanced(t).todo \subseteq task[t].todo
<1>1. "draft" \in BatchStatus
  BY DEF BatchStatus
<1>2. QED
  BY <1>1, StepsTyped DEF Advanced

\* A step of one job.
LEMMA OneTask ==
    ASSUME ImportTypeOK, NEW t \in TaskId, NEW new \in Task, new.todo \subseteq task[t].todo,
           task' = [task EXCEPT ![t] = new]
    PROVE  task' \in [TaskId -> Task] /\ TodoShrinks
BY DEF ImportTypeOK, TodoShrinks

\* A step of one job that queues others.
LEMMA OneTaskAndOthers ==
    ASSUME ImportTypeOK, NEW t \in TaskId, NEW new \in Task, new.todo \subseteq task[t].todo, NEW ts,
           task' = [Added(task, ts) EXCEPT ![t] = new]
    PROVE  task' \in [TaskId -> Task] /\ TodoShrinks
<1>1. /\ Added(task, ts) \in [TaskId -> Task]
      /\ \A u \in TaskId : Added(task, ts)[u].todo = task[u].todo
  BY AddedTyped DEF ImportTypeOK
<1>2. QED
  BY <1>1 DEF TodoShrinks

\* Queueing jobs.
LEMMA TasksAdded ==
    ASSUME ImportTypeOK, NEW ts, task' = Added(task, ts)
    PROVE  task' \in [TaskId -> Task] /\ TodoShrinks
BY AddedTyped DEF ImportTypeOK, TodoShrinks

-----------------------------------------------------------------------------
(***************************************************************************)
(* Type correctness, and which rows a job may commit.                      *)
(***************************************************************************)

\* What is ready are entity types.
LEMMA ReadyTyped == ASSUME NEW jobs PROVE Ready(jobs) \in SUBSET Entity
BY DEF Ready, Entity

\* The status of a batch after its jobs is one.
LEMMA NextTyped ==
    ASSUME ImportTypeOK, NEW kind
    PROVE  NextBatchStatus(kind) \in BatchStatus
BY DEF NextBatchStatus, ImportTypeOK, BatchStatus

\* The steps that start the scan keep the types.
LEMMA StarterTypeStep ==
    ASSUME ImportTypeOK,
           StarterStep \/ StarterFails \/ StarterDies
    PROVE  ImportTypeOK' /\ TodoShrinks
<1>1. task' \in [TaskId -> Task] /\ TodoShrinks
  <2>1. CASE UNCHANGED task
    BY <2>1 DEF ImportTypeOK, TodoShrinks
  <2>2. CASE \E ts : task' = Added(task, ts)
    BY <2>2, TasksAdded
  <2>3. QED
    BY <2>1, <2>2 DEF StarterStep, StartScanning, EnqueueScans, ScanFailed, StarterFails, StarterDies
<1>2. batch' \in BatchStatus
  BY DEF StarterStep, StartScanning, EnqueueScans, ScanFailed, StarterFails, StarterDies,
         ImportTypeOK, BatchStatus
<1>3. trouble' \in 0..MaxTrouble
  BY ImportBounds DEF StarterStep, StartScanning, EnqueueScans, ScanFailed, StarterFails, StarterDies,
         ImportTypeOK, Troubled
<1>4. starter' \in {"draft", "enqueue", "fail", "done"} /\ mishaps' \subseteq {"late", "lost", "astray"}
  BY DEF StarterStep, StartScanning, EnqueueScans, ScanFailed, StarterFails, StarterDies, ImportTypeOK
<1>5. UNCHANGED <<importJob, importRow, targets, session>>
  BY DEF StarterStep, StartScanning, EnqueueScans, ScanFailed, StarterFails, StarterDies
<1>6. QED
  BY <1>1, <1>2, <1>3, <1>4, <1>5 DEF ImportTypeOK

\* The steps of an admin's commit keep the types.
LEMMA SessionTypeStep ==
    ASSUME ImportTypeOK, NEW a \in ImportAdmin,
           ReadAccepted(a) \/ SessionStep(a) \/ EnqueueFails(a) \/ SessionDies(a)
    PROVE  ImportTypeOK' /\ TodoShrinks
<1>1. task' \in [TaskId -> Task] /\ TodoShrinks
  <2>1. CASE UNCHANGED task
    BY <2>1 DEF ImportTypeOK, TodoShrinks
  <2>2. CASE \E ts : task' = Added(task, ts)
    BY <2>2, TasksAdded
  <2>3. QED
    BY <2>1, <2>2 DEF ReadAccepted, SessionStep, InsertJobs, SetCommitting, EnqueueCommits,
         CommitFailed, EnqueueFails, SessionDies
<1>2. batch' \in BatchStatus
  BY DEF ReadAccepted, SessionStep, InsertJobs, SetCommitting, EnqueueCommits,
         CommitFailed, EnqueueFails, SessionDies, ImportTypeOK, BatchStatus
<1>3. session' \in [ImportAdmin -> Session]
  <2>1. session \in [ImportAdmin -> Session] /\ session[a] \in Session
    BY DEF ImportTypeOK, Session
  <2>2. NoSession \in Session
    BY DEF NoSession, Session
  <2>3. \A step \in {"idle", "insert", "commit", "enqueue", "fail"} :
            [session[a] EXCEPT !.step = step] \in Session
    BY <2>1 DEF Session
  <2>4. CASE ReadAccepted(a)
    <3> DEFINE types == {r[1] : r \in {q \in RowId : importRow[q] = "accepted"}}
               new == [NoSession EXCEPT !.step = "insert", !.types = types]
    <3>1. types \in SUBSET Entity
      BY DEF RowId
    <3>2. session' = [session EXCEPT ![a] = new]
      BY <2>4 DEF ReadAccepted
    <3> HIDE DEF types
    <3>3. new \in Session
      BY <2>2, <3>1 DEF Session
    <3> HIDE DEF new
    <3>4. QED
      BY <2>1, <3>2, <3>3
  <2>5. CASE InsertJobs(a)
    <3>1. PICK jobs : session' = [session EXCEPT ![a] =
              [NoSession EXCEPT !.step = "commit", !.ready = Ready(jobs)]]
      BY <2>5 DEF InsertJobs
    <3>2. [NoSession EXCEPT !.step = "commit", !.ready = Ready(jobs)] \in Session
      BY <2>2, ReadyTyped DEF Session
    <3>3. QED
      BY <2>1, <3>1, <3>2
  <2>6. CASE SetCommitting(a) \/ EnqueueFails(a)
    <3>1. \E step \in {"enqueue", "fail"} :
              \/ session' = [session EXCEPT ![a] = [session[a] EXCEPT !.step = step]]
              \/ session' = [session EXCEPT ![a] = NoSession]
      BY <2>6 DEF SetCommitting, EnqueueFails
    <3>2. QED
      BY <2>1, <2>2, <2>3, <3>1
  <2>7. CASE EnqueueCommits(a) \/ CommitFailed(a) \/ SessionDies(a)
    BY <2>1, <2>2, <2>7 DEF EnqueueCommits, CommitFailed, SessionDies
  <2>8. QED
    BY <2>4, <2>5, <2>6, <2>7 DEF SessionStep
<1>4. importJob' \in [TaskId -> {"none", "queued", "running", "completed", "failed"}]
  <2>1. CASE InsertJobs(a)
    <3>1. PICK new : importJob' = [t \in TaskId |-> IF t \in new THEN "queued" ELSE importJob[t]]
      BY <2>1 DEF InsertJobs
    <3>2. QED
      BY <3>1 DEF ImportTypeOK
  <2>2. CASE ~InsertJobs(a)
    BY <2>2 DEF ReadAccepted, SessionStep, SetCommitting, EnqueueCommits, CommitFailed, EnqueueFails,
         SessionDies, ImportTypeOK
  <2>3. QED
    BY <2>1, <2>2
<1>5. trouble' \in 0..MaxTrouble /\ mishaps' \subseteq {"late", "lost", "astray"}
  BY ImportBounds DEF ReadAccepted, SessionStep, InsertJobs, SetCommitting, EnqueueCommits,
         CommitFailed, EnqueueFails, SessionDies, ImportTypeOK, Troubled
<1>6. UNCHANGED <<importRow, targets, starter>>
  BY DEF ReadAccepted, SessionStep, InsertJobs, SetCommitting, EnqueueCommits, CommitFailed,
         EnqueueFails, SessionDies
<1>7. QED
  BY <1>1, <1>2, <1>3, <1>4, <1>5, <1>6 DEF ImportTypeOK, Session

\* The steps that only the job itself is moved by.
LEMMA MarkTypeStep ==
    ASSUME ImportTypeOK, NEW t \in TaskId,
           MarkRunning(t) \/ MarkCompleted(t) \/ MarkFailed(t) \/ RowsDone(t) \/ StageRows(t)
    PROVE  ImportTypeOK' /\ TodoShrinks
<1>1. \E new \in Task : new.todo \subseteq task[t].todo /\ task' = [task EXCEPT ![t] = new]
  <2>1. CASE RowsDone(t)
    <3>1. \/ task' = [task EXCEPT ![t] = [task[t] EXCEPT !.step = "complete"]]
          \/ task' = [task EXCEPT ![t] = [task[t] EXCEPT !.step = "fail"]]
          \/ task' = [task EXCEPT ![t] = Thrown(t)]
      BY <2>1 DEF RowsDone, OnlyTask
    <3>2. [task[t] EXCEPT !.step = "complete"] \in Task /\ [task[t] EXCEPT !.step = "fail"] \in Task
      BY StepsTyped DEF BatchStatus
    <3>3. /\ [task[t] EXCEPT !.step = "complete"].todo = task[t].todo
          /\ [task[t] EXCEPT !.step = "fail"].todo = task[t].todo
      BY StepsTyped DEF BatchStatus
    <3>4. QED
      BY <3>1, <3>2, <3>3, ThrownTyped
  <2>2. CASE ~RowsDone(t)
    <3>1. PICK step \in {"work", "complete", "advance"} :
              task' = [task EXCEPT ![t] = [task[t] EXCEPT !.step = step]]
      BY <2>2 DEF MarkRunning, MarkCompleted, MarkFailed, StageRows, OnlyTask
    <3>2. batch \in BatchStatus
      BY DEF ImportTypeOK
    <3>3. /\ [task[t] EXCEPT !.step = step] \in Task
          /\ [task[t] EXCEPT !.step = step].todo = task[t].todo
      BY <3>2, StepsTyped
    <3>4. QED
      BY <3>1, <3>3
  <2>3. QED
    BY <2>1, <2>2
<1>2. task' \in [TaskId -> Task] /\ TodoShrinks
  BY <1>1, OneTask
<1>3. importJob' \in [TaskId -> {"none", "queued", "running", "completed", "failed"}]
  BY DEF MarkRunning, MarkCompleted, MarkFailed, RowsDone, StageRows, Mark, ImportTypeOK
<1>4. importRow' \in [RowId -> RowStatus]
  <2>1. CASE StageRows(t)
    <3>1. PICK found : importRow' = [r \in RowId |-> IF r \in found THEN "staged" ELSE importRow[r]]
      BY <2>1 DEF StageRows
    <3>2. QED
      BY <3>1 DEF ImportTypeOK, RowStatus
  <2>2. CASE ~StageRows(t)
    BY <2>2 DEF MarkRunning, MarkCompleted, MarkFailed, RowsDone, ImportTypeOK
  <2>3. QED
    BY <2>1, <2>2
<1>5. UNCHANGED <<batch, targets, starter, session, mishaps, trouble>>
  BY DEF MarkRunning, MarkCompleted, MarkFailed, RowsDone, StageRows, OnlyTask
<1>6. QED
  BY <1>2, <1>3, <1>4, <1>5 DEF ImportTypeOK

\* The steps that advance the batch keep the types.
LEMMA AdvanceTypeStep ==
    ASSUME ImportTypeOK, NEW t \in TaskId, AdvanceBatch(t) \/ WriteBatch(t) \/ EnqueueReady(t)
    PROVE  ImportTypeOK' /\ TodoShrinks
<1>1. task' \in [TaskId -> Task] /\ TodoShrinks
  <2>1. CASE AdvanceBatch(t)
    <3> DEFINE next == NextBatchStatus(t[1])
    <3>1. \/ task' = [task EXCEPT ![t] = Advanced(t)]
          \/ task' = [task EXCEPT ![t] = [task[t] EXCEPT !.step = "write", !.next = next]]
      BY <2>1 DEF AdvanceBatch, OnlyTask
    <3>2. next \in BatchStatus
      BY NextTyped
    <3> HIDE DEF next
    <3>3. /\ [task[t] EXCEPT !.step = "write", !.next = next] \in Task
          /\ [task[t] EXCEPT !.step = "write", !.next = next].todo = task[t].todo
      BY <3>2, StepsTyped
    <3>4. QED
      BY <3>1, <3>3, AdvancedTyped, OneTask
  <2>2. CASE WriteBatch(t)
    BY <2>2, AdvancedTyped, OneTask DEF WriteBatch, OnlyTask
  <2>3. CASE EnqueueReady(t)
    <3>1. [NoTask EXCEPT !.step = "ended"] \in Task /\ [NoTask EXCEPT !.step = "ended"].todo = {}
      BY StepsTyped DEF BatchStatus
    <3> DEFINE new == [NoTask EXCEPT !.step = "ended"]
    <3>2. task' = [Added(task, Commits(Ready(importJob))) EXCEPT ![t] = new]
      BY <2>3 DEF EnqueueReady
    <3>3. new \in Task /\ new.todo \subseteq task[t].todo
      BY <3>1
    <3> HIDE DEF new
    <3>4. QED
      BY <3>2, <3>3, OneTaskAndOthers
  <2>4. QED
    BY <2>1, <2>2, <2>3
<1>2. batch' \in BatchStatus
  <2>1. task[t] \in Task
    BY DEF ImportTypeOK
  <2>2. task[t].next \in BatchStatus
    BY <2>1 DEF Task
  <2>3. QED
    BY <2>2 DEF AdvanceBatch, WriteBatch, EnqueueReady, ImportTypeOK
<1>3. mishaps' \subseteq {"late", "lost", "astray"}
  BY DEF AdvanceBatch, WriteBatch, EnqueueReady, ImportTypeOK
<1>4. UNCHANGED <<importJob, importRow, targets, starter, session, trouble>>
  BY DEF AdvanceBatch, WriteBatch, EnqueueReady, OnlyTask
<1>5. QED
  BY <1>1, <1>2, <1>3, <1>4 DEF ImportTypeOK

\* Jobs that fail or die keep the types.
LEMMA TroubleTypeStep ==
    ASSUME ImportTypeOK, NEW t \in TaskId, WorkerFails(t) \/ WorkerDies(t)
    PROVE  ImportTypeOK' /\ TodoShrinks
<1>1. task' \in [TaskId -> Task] /\ TodoShrinks
  <2>1. CASE WorkerFails(t)
    <3> DEFINE new == IF FinalAttempt(t) /\ ~task[t].caught
                      THEN [task[t] EXCEPT !.step = "fail", !.caught = TRUE] ELSE Thrown(t)
    <3>1. PICK es : task' = [Added(task, Commits(es)) EXCEPT ![t] = new]
      BY <2>1 DEF WorkerFails
    <3>2. new \in Task /\ new.todo \subseteq task[t].todo
      BY StepsTyped, ThrownTyped DEF BatchStatus
    <3> HIDE DEF new
    <3>3. QED
      BY <3>1, <3>2, OneTaskAndOthers
  <2>2. CASE WorkerDies(t)
    <3>1. [NoTask EXCEPT !.step = "ended"] \in Task /\ [NoTask EXCEPT !.step = "ended"].todo = {}
      BY StepsTyped DEF BatchStatus
    <3> DEFINE again == [NoTask EXCEPT !.step = "waiting", !.again = TRUE, !.attempt = task[t].attempt]
    <3>2. again \in Task /\ again.todo = {}
      <4>1. task[t] \in Task
        BY DEF ImportTypeOK
      <4>2. task[t].attempt \in 1..Attempts
        BY <4>1 DEF Task
      <4>3. QED
        BY <4>2, NoTaskTyped DEF Task
    <3>3. task' = [task EXCEPT ![t] = [NoTask EXCEPT !.step = "ended"]] \/ task' = [task EXCEPT ![t] = again]
      BY <2>2 DEF WorkerDies
    <3> HIDE DEF again
    <3>4. QED
      BY <3>1, <3>2, <3>3, OneTask
  <2>3. QED
    BY <2>1, <2>2
<1>2. trouble' \in 0..MaxTrouble
  BY ImportBounds DEF WorkerFails, WorkerDies, Troubled, ImportTypeOK
<1>3. mishaps' \subseteq {"late", "lost", "astray"}
  BY DEF WorkerFails, WorkerDies, ImportTypeOK
<1>4. UNCHANGED <<batch, importJob, importRow, targets, starter, session>>
  BY DEF WorkerFails, WorkerDies
<1>5. QED
  BY <1>1, <1>2, <1>3, <1>4 DEF ImportTypeOK

\* Reading the rows, and committing one of them or not, keep the types.
LEMMA RowTypeStep ==
    ASSUME ImportTypeOK, NEW t \in TaskId,
           ReadRows(t) \/ \E r \in RowId : CommitRow(t, r) \/ RowFails(t, r)
    PROVE  /\ ImportTypeOK'
           /\ ReadRows(t) =>
                 /\ task'[t].todo = AcceptedRows(t[2])
                 /\ \A u \in TaskId \ {t} : task'[u].todo = task[u].todo
           /\ \A r \in RowId : CommitRow(t, r) \/ RowFails(t, r) =>
                 /\ task'[t].todo = task[t].todo \ {r}
                 /\ \A u \in TaskId \ {t} : task'[u].todo = task[u].todo
<1>1. task \in [TaskId -> Task] /\ task[t] \in Task
  BY DEF ImportTypeOK
<1>2. task[t].todo \in SUBSET RowId
  BY <1>1 DEF Task
<1>3. CASE ReadRows(t)
  <2> DEFINE new == [task[t] EXCEPT !.step = "rows", !.todo = AcceptedRows(t[2])]
  <2>1. AcceptedRows(t[2]) \in SUBSET RowId
    BY DEF AcceptedRows
  <2>2. new \in Task /\ new.todo = AcceptedRows(t[2])
    BY <1>1, <2>1 DEF Task
  <2>3. task' = [task EXCEPT ![t] = new]
    BY <1>3 DEF ReadRows, OnlyTask
  <2> HIDE DEF new
  <2>4. /\ task' \in [TaskId -> Task] /\ task'[t].todo = AcceptedRows(t[2])
        /\ \A u \in TaskId \ {t} : task'[u].todo = task[u].todo
    BY <1>1, <2>2, <2>3
  <2>5. ImportTypeOK'
    BY <1>3, <2>4 DEF ReadRows, OnlyTask, ImportTypeOK
  <2>6. \A r \in RowId : ~CommitRow(t, r) /\ ~RowFails(t, r)
    BY <1>3 DEF ReadRows, CommitRow, RowFails
  <2>7. QED
    BY <2>4, <2>5, <2>6
<1>4. ASSUME NEW r \in RowId, CommitRow(t, r) \/ RowFails(t, r)
      PROVE  /\ ImportTypeOK'
             /\ task'[t].todo = task[t].todo \ {r}
             /\ \A u \in TaskId \ {t} : task'[u].todo = task[u].todo
  <2>1. task[t].todo \ {r} \in SUBSET RowId
    BY <1>2
  <2> DEFINE committed == [task[t] EXCEPT !.todo = @ \ {r}]
             left == [task[t] EXCEPT !.todo = @ \ {r}, !.erred = TRUE]
  <2>2. /\ committed \in Task /\ committed.todo = task[t].todo \ {r}
        /\ left \in Task /\ left.todo = task[t].todo \ {r}
    BY <1>1, <2>1 DEF Task
  <2>3. task' = [task EXCEPT ![t] = committed] \/ task' = [task EXCEPT ![t] = left]
    BY <1>4 DEF CommitRow, RowFails, OnlyTask
  <2> HIDE DEF committed, left
  <2>4. /\ task' \in [TaskId -> Task] /\ task'[t].todo = task[t].todo \ {r}
        /\ \A u \in TaskId \ {t} : task'[u].todo = task[u].todo
    BY <1>1, <2>2, <2>3
  <2>5. importRow' \in [RowId -> RowStatus] /\ targets' \in [RowId -> Nat]
    <3>1. \/ importRow' = importRow
          \/ importRow' = [importRow EXCEPT ![r] = "committed"]
          \/ importRow' = [importRow EXCEPT ![r] = "commit_failed"]
      BY <1>4 DEF CommitRow, RowFails
    <3>2. targets' = targets \/ targets' = [targets EXCEPT ![r] = targets[r] + 1]
      BY <1>4 DEF CommitRow, RowFails
    <3>3. QED
      BY <3>1, <3>2 DEF ImportTypeOK, RowStatus
  <2>6. UNCHANGED <<batch, importJob, starter, session, mishaps, trouble>>
    BY <1>4 DEF CommitRow, RowFails, OnlyTask
  <2>7. QED
    BY <2>4, <2>5, <2>6 DEF ImportTypeOK
<1>5. CASE \E r \in RowId : CommitRow(t, r) \/ RowFails(t, r)
  <2>1. ~ReadRows(t)
    BY <1>5 DEF ReadRows, CommitRow, RowFails
  <2>2. QED
    BY <1>4, <1>5, <2>1
<1>6. QED
  BY <1>3, <1>5

\* A decision keeps the types and touches no job.
LEMMA DecideTypeStep ==
    ASSUME ImportTypeOK, NEW r \in RowId, NEW status \in {"accepted", "blocked", "rejected"},
           Decide(r, status)
    PROVE  ImportTypeOK' /\ TodoShrinks
<1>1. importRow' \in [RowId -> RowStatus]
  BY DEF Decide, ImportTypeOK, RowStatus
<1>2. mishaps' \subseteq {"late", "lost", "astray"}
  BY DEF Decide, ImportTypeOK
<1>3. UNCHANGED <<batch, importJob, task, targets, starter, session, trouble>>
  BY DEF Decide
<1>4. QED
  BY <1>1, <1>2, <1>3 DEF ImportTypeOK, TodoShrinks

\* The first state has the types ...
LEMMA ImportStartTyped == ASSUME ImportInit PROVE ImportTypeOK
<1>1. task \in [TaskId -> Task]
  BY NoTaskTyped DEF ImportInit
<1>2. session \in [ImportAdmin -> Session]
  BY DEF ImportInit, NoSession, Session
<1>3. importJob \in [TaskId -> {"none", "queued", "running", "completed", "failed"}]
  BY DEF ImportInit
<1>4. QED
  BY <1>1, <1>2, <1>3, ImportBounds DEF ImportInit, ImportTypeOK, BatchStatus, RowStatus, Session

\* ... and each step keeps them.
LEMMA ImportTypeStep == ASSUME ImportTypeOK, [ImportNext]_importVars PROVE ImportTypeOK'
<1>1. CASE UNCHANGED importVars
  BY <1>1 DEF importVars, ImportTypeOK
<1>2. ASSUME NEW t \in TaskId, WorkerStep(t)
      PROVE  ImportTypeOK'
  BY <1>2, MarkTypeStep, AdvanceTypeStep, RowTypeStep DEF WorkerStep
<1>3. QED
  BY <1>1, <1>2, StarterTypeStep, SessionTypeStep, TroubleTypeStep, DecideTypeStep
     DEF ImportNext, ServerStep

\* Every column and every job has its type, whatever fails.
THEOREM ImportTypeCorrect == ImportSpec => []ImportTypeOK
BY ImportStartTyped, ImportTypeStep, PTL DEF ImportSpec

-----------------------------------------------------------------------------
(***************************************************************************)
(* Each row is committed once.  A job has rows of its own entity type, and *)
(* none that is committed: it drops a row in the transaction that commits  *)
(* it, and an attempt that begins again reads only accepted rows.          *)
(***************************************************************************)
TodoInv ==
    \A t \in TaskId : \A r \in task[t].todo :
        t = <<"commit", r[1]>> /\ importRow[r] # "committed"

CommitInv == ImportTypeOK /\ TodoInv /\ CommittedOnce

\* What commits nothing and adds nothing to commit keeps that.
LEMMA NothingCommitted ==
    ASSUME CommitInv, ImportTypeOK', TodoShrinks, targets' = targets,
           \A r \in RowId : (importRow'[r] = "committed") = (importRow[r] = "committed")
    PROVE  CommitInv'
<1>1. CommittedOnce'
  BY DEF CommitInv, CommittedOnce
<1>2. TodoInv'
  <2> SUFFICES ASSUME NEW t \in TaskId, NEW r \in task'[t].todo
               PROVE  t = <<"commit", r[1]>> /\ importRow'[r] # "committed"
    BY DEF TodoInv
  <2>1. r \in task[t].todo
    BY DEF TodoShrinks
  <2>2. task[t] \in Task
    BY DEF CommitInv, ImportTypeOK
  <2>3. r \in RowId
    BY <2>1, <2>2 DEF Task
  <2>4. QED
    BY <2>1, <2>3 DEF CommitInv, TodoInv
<1>3. QED
  BY <1>1, <1>2 DEF CommitInv

\* Reading the accepted rows.
LEMMA ReadKeeps ==
    ASSUME CommitInv, NEW t \in TaskId, ReadRows(t)
    PROVE  CommitInv'
<1>1. /\ ImportTypeOK' /\ task'[t].todo = AcceptedRows(t[2])
      /\ \A u \in TaskId \ {t} : task'[u].todo = task[u].todo
  BY RowTypeStep DEF CommitInv
<1>2. importRow' = importRow /\ targets' = targets /\ t[1] = "commit"
  BY DEF ReadRows
<1>3. t = <<"commit", t[2]>>
  BY <1>2 DEF TaskId
<1>4. \A r \in AcceptedRows(t[2]) : r[1] = t[2] /\ importRow[r] = "accepted"
  BY DEF AcceptedRows
<1>5. TodoInv'
  BY <1>1, <1>2, <1>3, <1>4 DEF TodoInv, CommitInv
<1>6. CommittedOnce'
  BY <1>2 DEF CommittedOnce, CommitInv
<1>7. QED
  BY <1>1, <1>5, <1>6 DEF CommitInv

\* Committing a row: no other job has it, and it was not committed before.
LEMMA CommitKeeps ==
    ASSUME CommitInv, NEW t \in TaskId, NEW r \in RowId, CommitRow(t, r)
    PROVE  CommitInv'
<1>1. /\ ImportTypeOK' /\ task'[t].todo = task[t].todo \ {r}
      /\ \A u \in TaskId \ {t} : task'[u].todo = task[u].todo
  BY RowTypeStep DEF CommitInv
<1>2. r \in task[t].todo /\ t = <<"commit", r[1]>> /\ importRow[r] # "committed"
  BY DEF CommitRow, CommitInv, TodoInv
<1>3. /\ \A q \in RowId : importRow'[q] = IF q = r THEN "committed" ELSE importRow[q]
      /\ \A q \in RowId : targets'[q] = IF q = r THEN targets[r] + 1 ELSE targets[q]
  BY DEF CommitRow, CommitInv, ImportTypeOK
<1>4. TodoInv'
  <2> SUFFICES ASSUME NEW u \in TaskId, NEW q \in task'[u].todo
               PROVE  u = <<"commit", q[1]>> /\ importRow'[q] # "committed"
    BY DEF TodoInv
  <2>1. q \in task[u].todo
    BY <1>1
  <2>2. task[u] \in Task
    BY DEF CommitInv, ImportTypeOK
  <2>3. q \in RowId
    BY <2>1, <2>2 DEF Task
  <2>4. u = <<"commit", q[1]>> /\ importRow[q] # "committed"
    BY <2>1 DEF CommitInv, TodoInv
  <2>5. q # r
    BY <1>1, <1>2, <2>4
  <2>6. QED
    BY <1>3, <2>3, <2>4, <2>5
<1>5. CommittedOnce'
  <2>1. targets[r] = 0
    BY <1>2 DEF CommitInv, CommittedOnce
  <2>2. QED
    BY <1>3, <2>1 DEF CommitInv, CommittedOnce
<1>6. QED
  BY <1>1, <1>4, <1>5 DEF CommitInv

\* A row that fails was not committed, and is not now.
LEMMA FailKeeps ==
    ASSUME CommitInv, NEW t \in TaskId, NEW r \in RowId, RowFails(t, r)
    PROVE  CommitInv'
<1>1. /\ ImportTypeOK' /\ task'[t].todo = task[t].todo \ {r}
      /\ \A u \in TaskId \ {t} : task'[u].todo = task[u].todo
  BY RowTypeStep DEF CommitInv
<1>2. TodoShrinks
  BY <1>1 DEF TodoShrinks
<1>3. importRow[r] # "committed" /\ targets' = targets
  BY DEF RowFails, CommitInv, TodoInv
<1>4. importRow' = importRow \/ importRow' = [importRow EXCEPT ![r] = "commit_failed"]
  BY DEF RowFails
<1>5. \A q \in RowId : (importRow'[q] = "committed") = (importRow[q] = "committed")
  BY <1>3, <1>4 DEF CommitInv, ImportTypeOK
<1>6. QED
  BY <1>1, <1>2, <1>3, <1>5, NothingCommitted

\* The invariant of the commits holds throughout.
LEMMA CommitInvAlways == ImportSpec => []CommitInv
<1>1. ImportInit => CommitInv
  <2> SUFFICES ASSUME ImportInit PROVE CommitInv
    OBVIOUS
  <2>1. TodoInv
    BY NoTaskTyped DEF ImportInit, TodoInv
  <2>2. CommittedOnce
    BY DEF ImportInit, CommittedOnce
  <2>3. QED
    BY <2>1, <2>2, ImportStartTyped DEF CommitInv
<1>2. CommitInv /\ [ImportNext]_importVars => CommitInv'
  <2> SUFFICES ASSUME CommitInv, [ImportNext]_importVars PROVE CommitInv'
    OBVIOUS
  <2>1. ImportTypeOK /\ ImportTypeOK'
    BY ImportTypeStep DEF CommitInv
  <2>2. CASE UNCHANGED importVars
    BY <2>1, <2>2, NothingCommitted DEF importVars, TodoShrinks
  <2>3. ASSUME NEW t \in TaskId,
               \/ MarkRunning(t) \/ MarkCompleted(t) \/ MarkFailed(t) \/ RowsDone(t)
               \/ AdvanceBatch(t) \/ WriteBatch(t) \/ EnqueueReady(t)
               \/ WorkerFails(t) \/ WorkerDies(t)
        PROVE  CommitInv'
    <3>1. TodoShrinks
      BY <2>1, <2>3, MarkTypeStep, AdvanceTypeStep, TroubleTypeStep
    <3>2. importRow' = importRow /\ targets' = targets
      BY <2>3 DEF MarkRunning, MarkCompleted, MarkFailed, RowsDone, AdvanceBatch, WriteBatch,
           EnqueueReady, WorkerFails, WorkerDies
    <3>3. QED
      BY <2>1, <3>1, <3>2, NothingCommitted
  <2>4. ASSUME NEW t \in TaskId, StageRows(t)
        PROVE  CommitInv'
    <3>1. TodoShrinks
      BY <2>1, <2>4, MarkTypeStep
    <3>2. PICK found \in SUBSET {r \in RowId : r[1] = t[2] /\ importRow[r] = "absent"} :
              importRow' = [r \in RowId |-> IF r \in found THEN "staged" ELSE importRow[r]]
      BY <2>4 DEF StageRows
    <3>3. \A r \in RowId : (importRow'[r] = "committed") = (importRow[r] = "committed")
      BY <3>2
    <3>4. targets' = targets
      BY <2>4 DEF StageRows
    <3>5. QED
      BY <2>1, <3>1, <3>3, <3>4, NothingCommitted
  <2>5. ASSUME NEW r \in RowId, NEW status \in {"accepted", "blocked", "rejected"}, Decide(r, status)
        PROVE  CommitInv'
    <3>1. TodoShrinks
      BY <2>1, <2>5, DecideTypeStep
    <3>2. \A q \in RowId : (importRow'[q] = "committed") = (importRow[q] = "committed")
      BY <2>1, <2>5 DEF Decide, Undecided, ImportTypeOK
    <3>3. targets' = targets
      BY <2>5 DEF Decide
    <3>4. QED
      BY <2>1, <3>1, <3>2, <3>3, NothingCommitted
  <2>6. CASE StarterStep \/ StarterFails \/ StarterDies
    <3>1. TodoShrinks
      BY <2>1, <2>6, StarterTypeStep
    <3>2. importRow' = importRow /\ targets' = targets
      BY <2>6 DEF StarterStep, StartScanning, EnqueueScans, ScanFailed, StarterFails, StarterDies
    <3>3. QED
      BY <2>1, <3>1, <3>2, NothingCommitted
  <2>7. ASSUME NEW a \in ImportAdmin,
               ReadAccepted(a) \/ SessionStep(a) \/ EnqueueFails(a) \/ SessionDies(a)
        PROVE  CommitInv'
    <3>1. TodoShrinks
      BY <2>1, <2>7, SessionTypeStep
    <3>2. importRow' = importRow /\ targets' = targets
      BY <2>7 DEF ReadAccepted, SessionStep, InsertJobs, SetCommitting, EnqueueCommits,
           CommitFailed, EnqueueFails, SessionDies
    <3>3. QED
      BY <2>1, <3>1, <3>2, NothingCommitted
  <2>8. QED
    BY <2>2, <2>3, <2>4, <2>5, <2>6, <2>7, ReadKeeps, CommitKeeps, FailKeeps
       DEF ImportNext, ServerStep, WorkerStep
<1>3. QED
  BY <1>1, <1>2, PTL DEF ImportSpec

\* Through any number of retries, deaths and repeated commits, one entity is created from
\* a committed row and none from any other.
THEOREM CommittedOnceCorrect == ImportSpec => []CommittedOnce
<1>1. CommitInv => CommittedOnce
  BY DEF CommitInv
<1>2. QED
  BY <1>1, CommitInvAlways, PTL

-----------------------------------------------------------------------------
(***************************************************************************)
(* Setup before operations, and nothing left behind: what holds as long as *)
(* no decision was late and no job wrote the batch out of its phase.  From *)
(* the moment that a commit has started, no row is accepted any more, so   *)
(* what a commit has seen of the rows stays true.                          *)
(***************************************************************************)
Orderly == mishaps \cap {"late", "astray"} = {}

\* The review is over.
Started == batch \notin {"draft", "scanning", "needs_review"}

Accepted(r) == importRow[r] = "accepted"

\* Each accepted row has a job that will commit it; none of the group of the setup is left.
AllJobs == \A r \in RowId : Accepted(r) => importJob[<<"commit", r[1]>>] # "none"
NoAccepted == \A r \in RowId : ~Accepted(r)
SetupDone == \A r \in RowId : r[1] \in SetupEntity => ~Accepted(r)

StarterPart == starter = "draft" => batch = "draft" /\ \A t \in TaskId : task[t].step = "none"

BatchPart ==
    /\ batch = "committing" => AllJobs
    /\ batch = "completed" => NoAccepted

SessionPart(a) ==
    LET s == session[a] IN
    /\ s.step # "idle" => batch \notin {"draft", "scanning"}
    /\ s.step = "insert" => \A r \in RowId : Accepted(r) => r[1] \in s.types
    /\ s.step = "commit" => AllJobs
    /\ s.step \in {"enqueue", "fail"} => Started /\ AllJobs
    /\ s.step \in {"commit", "enqueue", "fail"} /\ s.ready \cap OperationalEntity # {} => SetupDone

\* What any job has decided about the batch.
VerdictPart(t) ==
    /\ task[t].step = "write" =>
         task[t].next \in {"scan_failed", "needs_review", "commit_failed", "completed"}
    /\ task[t].step = "write" /\ task[t].next \in {"commit_failed", "completed"} => Started
    /\ t[1] = "scan" => task[t].step # "enqueue"

\* What a commit knows of the rows of its entity type.
CommitPart(t) ==
    /\ task[t].step # "none" \/ importJob[t] \notin {"none", "queued"} => Started /\ AllJobs
    /\ task[t].step = "write" =>
         /\ task[t].next \in {"commit_failed", "completed"}
         /\ task[t].next = "completed" => NoAccepted
    /\ task[t].step = "rows" /\ ~task[t].erred =>
         \A r \in RowId : r[1] = t[2] /\ Accepted(r) => r \in task[t].todo
    /\ task[t].step = "complete" \/ importJob[t] = "completed" =>
         \A r \in RowId : r[1] = t[2] => ~Accepted(r)
    /\ task[t].step # "none" /\ t[2] \in OperationalEntity => SetupDone

JobPart(t) == VerdictPart(t) /\ (t[1] = "commit" => CommitPart(t))

Order ==
    /\ StarterPart /\ BatchPart
    /\ \A a \in ImportAdmin : SessionPart(a)
    /\ \A t \in TaskId : JobPart(t)

OrderInv == Orderly => Order

\* No step but a decision lets a row be accepted, and none goes back.
Onward ==
    /\ Started => batch' \notin {"draft", "scanning", "needs_review"}
    /\ batch \notin {"draft", "scanning"} => batch' \notin {"draft", "scanning"}
    /\ \A r \in RowId : importRow'[r] = "accepted" => importRow[r] = "accepted"
    /\ \A t \in TaskId : importJob[t] # "none" => importJob'[t] # "none"

\* A job that may be queued, and what a step of another process does to a job.
MayQueue(t) ==
    /\ t[1] = "commit" => Started /\ AllJobs
    /\ t[1] = "commit" /\ t[2] \in OperationalEntity => SetupDone

LeftAlone(t) ==
    /\ importJob'[t] = importJob[t] \/ importJob'[t] = "queued"
    /\ task'[t] = task[t] \/ (task'[t].step = "waiting" /\ MayQueue(t))


\* What was seen of the rows stays true.
LEMMA SeenStays ==
    ASSUME Onward
    PROVE  (AllJobs => AllJobs') /\ (NoAccepted => NoAccepted') /\ (SetupDone => SetupDone')
<1>1. AllJobs => AllJobs'
  <2> SUFFICES ASSUME AllJobs, NEW r \in RowId, importRow'[r] = "accepted"
               PROVE  importJob'[<<"commit", r[1]>>] # "none"
    BY DEF AllJobs, Accepted
  <2>1. <<"commit", r[1]>> \in TaskId
    BY DEF TaskId, RowId
  <2>2. QED
    BY <2>1 DEF Onward, AllJobs, Accepted
<1>2. (NoAccepted => NoAccepted') /\ (SetupDone => SetupDone')
  BY DEF Onward, NoAccepted, SetupDone, Accepted
<1>3. QED
  BY <1>1, <1>2

\* A request that does not move still knows what it knew ...
LEMMA SessionKept ==
    ASSUME Onward, NEW a \in ImportAdmin, SessionPart(a), session'[a] = session[a]
    PROVE  SessionPart(a)'
<1>1. Started => Started'
  BY DEF Onward, Started
<1>2. \A r \in RowId : importRow'[r] = "accepted" => importRow[r] = "accepted"
  BY DEF Onward
<1>3. batch \notin {"draft", "scanning"} => batch' \notin {"draft", "scanning"}
  BY DEF Onward
<1>4. QED
  BY <1>1, <1>2, <1>3, SeenStays DEF SessionPart, Accepted

\* ... and so does a job that other processes move, which may be queued.
LEMMA JobKept ==
    ASSUME Onward, NEW t \in TaskId, JobPart(t), LeftAlone(t)
    PROVE  JobPart(t)'
<1>1. Started => Started'
  BY DEF Onward, Started
<1>2. \A r \in RowId : importRow'[r] = "accepted" => importRow[r] = "accepted"
  BY DEF Onward
<1>3. VerdictPart(t)'
  BY <1>1 DEF JobPart, VerdictPart, LeftAlone
<1>4. ASSUME t[1] = "commit" PROVE CommitPart(t)'
  <2>1. CommitPart(t)
    BY <1>4 DEF JobPart
  <2>2. importJob'[t] = importJob[t] \/ importJob'[t] = "queued"
    BY DEF LeftAlone
  <2>3. CASE task'[t] = task[t]
    BY <1>1, <1>2, <2>1, <2>2, <2>3, SeenStays DEF CommitPart, Accepted
  <2>4. CASE task'[t].step = "waiting" /\ MayQueue(t)
    <3>1. Started' /\ AllJobs' /\ (t[2] \in OperationalEntity => SetupDone')
      BY <1>1, <1>4, <2>4, SeenStays DEF MayQueue
    <3>2. QED
      BY <1>2, <2>1, <2>2, <2>4, <3>1 DEF CommitPart, Accepted
  <2>5. QED
    BY <2>3, <2>4 DEF LeftAlone
<1>5. QED
  BY <1>3, <1>4 DEF JobPart

\* The steps of a job that need no other knowledge than it had.
LEMMA JobMoved ==
    ASSUME Onward, NEW t \in TaskId, JobPart(t), task[t].step # "none",
           task'[t].step # "write",
           t[1] = "commit" => task'[t].step \notin {"rows", "complete"},
           t[1] = "scan" => task'[t].step # "enqueue",
           \/ importJob'[t] = importJob[t]
           \/ importJob'[t] \in {"running", "failed"}
           \/ importJob'[t] = "completed" /\ task[t].step = "complete"
    PROVE  JobPart(t)'
<1>1. Started => Started'
  BY DEF Onward, Started
<1>2. \A r \in RowId : importRow'[r] = "accepted" => importRow[r] = "accepted"
  BY DEF Onward
<1>3. VerdictPart(t)'
  BY DEF VerdictPart
<1>4. ASSUME t[1] = "commit" PROVE CommitPart(t)'
  <2>1. CommitPart(t)
    BY <1>4 DEF JobPart
  <2>2. Started' /\ AllJobs' /\ (t[2] \in OperationalEntity => SetupDone')
    BY <1>1, <2>1, SeenStays DEF CommitPart
  <2>3. importJob'[t] = "completed" => \A r \in RowId : r[1] = t[2] => importRow'[r] # "accepted"
    BY <1>2, <2>1 DEF CommitPart, Accepted
  <2>4. QED
    BY <1>4, <2>2, <2>3 DEF CommitPart, Accepted
<1>5. QED
  BY <1>3, <1>4 DEF JobPart

\* A step of the job t, from what each part has to show.
LEMMA StepOfJob ==
    ASSUME Order, Onward, NEW t \in TaskId, task[t].step # "none",
           UNCHANGED <<starter, session>>, BatchPart', JobPart(t)',
           \A u \in TaskId \ {t} : LeftAlone(u)
    PROVE  Order'
<1>1. StarterPart'
  BY DEF Order, StarterPart
<1>2. \A a \in ImportAdmin : SessionPart(a)'
  BY SessionKept DEF Order
<1>3. \A u \in TaskId : JobPart(u)'
  BY JobKept DEF Order
<1>4. QED
  BY <1>1, <1>2, <1>3 DEF Order

\* What the first group leaves to the second.
LEMMA ReadyAfterSetup ==
    ASSUME NEW jobs, NEW e \in Ready(jobs), e \in OperationalEntity
    PROVE  \A d \in SetupEntity : jobs[<<"commit", d>>] \in {"none", "completed"}
BY GroupAssumption DEF Ready

\* What is ready while all accepted rows have jobs may be queued.
LEMMA ReadyMayQueue ==
    ASSUME Order, Started, AllJobs, NEW e \in Ready(importJob)
    PROVE  MayQueue(<<"commit", e>>)
<1>1. SUFFICES ASSUME e \in OperationalEntity PROVE SetupDone
  BY DEF MayQueue
<1>2. SUFFICES ASSUME NEW r \in RowId, r[1] \in SetupEntity, Accepted(r) PROVE FALSE
  BY DEF SetupDone
<1>3. <<"commit", r[1]>> \in TaskId
  BY DEF TaskId, RowId
<1>4. importJob[<<"commit", r[1]>>] = "completed"
  BY <1>1, <1>2, ReadyAfterSetup DEF AllJobs
<1>5. CommitPart(<<"commit", r[1]>>)
  BY <1>3 DEF Order, JobPart
<1>6. QED
  BY <1>2, <1>4, <1>5 DEF CommitPart


\* A job whose fields are set, next to jobs that are queued.
LEMMA TaskSet ==
    ASSUME ImportTypeOK, NEW t \in TaskId, NEW new, NEW ts,
           \/ task' = [task EXCEPT ![t] = new]
           \/ task' = [Added(task, ts) EXCEPT ![t] = new]
    PROVE  /\ task'[t] = new
           /\ \A u \in TaskId \ {t} :
                task'[u] = task[u] \/ (task'[u].step = "waiting" /\ u \in ts)
<1>1. task \in [TaskId -> Task]
  BY DEF ImportTypeOK
<1>2. DOMAIN Added(task, ts) = TaskId
  BY DEF Added
<1>3. \A u \in TaskId : Added(task, ts)[u] = task[u]
                        \/ (Added(task, ts)[u].step = "waiting" /\ u \in ts)
  <2> SUFFICES ASSUME NEW u \in TaskId, Added(task, ts)[u] # task[u]
               PROVE  Added(task, ts)[u].step = "waiting" /\ u \in ts
    OBVIOUS
  <2>1. u \in ts /\ Added(task, ts)[u] = [task[u] EXCEPT !.step = "waiting"]
    BY DEF Added
  <2>2. task[u] \in Task
    BY <1>1
  <2>3. QED
    BY <2>1, <2>2 DEF Task
<1>4. Added(task, ts) \in [TaskId -> Task]
  BY AddedTyped, <1>1
<1>5. QED
  BY <1>1, <1>3, <1>4

\* The steps of a job after which it does nothing that rests on the rows.
LEMMA PlainJobStep ==
    ASSUME ImportTypeOK, Order, NEW t \in TaskId,
           \/ MarkRunning(t) \/ MarkFailed(t) \/ MarkCompleted(t) \/ StageRows(t)
           \/ WorkerDies(t)
    PROVE  Order'
<1>1. Onward
  BY DEF MarkRunning, MarkFailed, MarkCompleted, StageRows, WorkerDies, Mark, Onward, Started,
         ImportTypeOK
<1>2. UNCHANGED <<starter, session, batch>> /\ task[t].step # "none"
  BY DEF MarkRunning, MarkFailed, MarkCompleted, StageRows, WorkerDies, OnlyTask
<1>3. BatchPart'
  BY <1>1, <1>2, SeenStays DEF Order, BatchPart
<1>4. \A u \in TaskId \ {t} : LeftAlone(u)
  BY DEF MarkRunning, MarkFailed, MarkCompleted, StageRows, WorkerDies, Mark, OnlyTask, LeftAlone,
         ImportTypeOK
<1>5. task \in [TaskId -> Task] /\ task[t] \in Task
  BY DEF ImportTypeOK
<1>6. /\ task'[t].step \in {"work", "advance", "complete", "waiting", "ended"}
      /\ task'[t].step = "complete" => t[1] = "scan"
  <2>1. CASE WorkerDies(t)
    <3>1. \/ task'[t] = [NoTask EXCEPT !.step = "ended"]
          \/ task'[t] = [NoTask EXCEPT !.step = "waiting", !.again = TRUE, !.attempt = task[t].attempt]
      BY <1>5, <2>1 DEF WorkerDies
    <3>2. QED
      BY <3>1 DEF NoTask
  <2>2. CASE ~WorkerDies(t)
    <3>1. PICK step \in {"work", "advance", "complete"} :
              /\ task'[t] = [task[t] EXCEPT !.step = step]
              /\ step = "complete" => t[1] = "scan"
      BY <1>5, <2>2 DEF MarkRunning, MarkFailed, MarkCompleted, StageRows, OnlyTask
    <3>2. task'[t].step = step
      BY <1>5, <3>1 DEF Task
    <3>3. QED
      BY <3>1, <3>2
  <2>3. QED
    BY <2>1, <2>2
<1>7. \/ importJob'[t] = importJob[t]
      \/ importJob'[t] \in {"running", "failed"}
      \/ importJob'[t] = "completed" /\ task[t].step = "complete"
  BY DEF MarkRunning, MarkFailed, MarkCompleted, StageRows, WorkerDies, Mark, ImportTypeOK
<1>8. JobPart(t)
  BY DEF Order
<1>9. JobPart(t)'
  <2>1. t[1] = "commit" => task'[t].step \notin {"rows", "complete"}
    BY <1>6
  <2>2. task'[t].step # "write" /\ task'[t].step # "enqueue"
    BY <1>6
  <2>3. QED
    BY <1>1, <1>2, <1>7, <1>8, <2>1, <2>2, JobMoved
<1>10. QED
  BY <1>1, <1>2, <1>3, <1>4, <1>9, StepOfJob

\* The shapes of a job that threw or whose batch was advanced.
LEMMA ShapesAfter ==
    ASSUME ImportTypeOK, NEW t \in TaskId
    PROVE  /\ Thrown(t).step \in {"waiting", "ended"}
           /\ Advanced(t).step \in {"ended", "enqueue"}
           /\ t[1] = "scan" => Advanced(t).step = "ended"
<1>1. task[t] \in Task
  BY DEF ImportTypeOK
<1>2. QED
  BY <1>1 DEF Thrown, Advanced, NoTask, Task

\* A commit works through the rows that were accepted when it read them.
LEMMA RowsJobStep ==
    ASSUME ImportTypeOK, Order, NEW t \in TaskId,
           ReadRows(t) \/ RowsDone(t) \/ \E r \in RowId : CommitRow(t, r) \/ RowFails(t, r)
    PROVE  Order'
<1>1. Onward
  BY DEF ReadRows, RowsDone, CommitRow, RowFails, Onward, Started, ImportTypeOK
<1>2. UNCHANGED <<starter, session, batch, importJob>> /\ task[t].step \in {"work", "rows"}
  BY DEF ReadRows, RowsDone, CommitRow, RowFails, OnlyTask
<1>3. BatchPart'
  BY <1>1, <1>2, SeenStays DEF Order, BatchPart
<1>4. \A u \in TaskId \ {t} : LeftAlone(u)
  BY DEF ReadRows, RowsDone, CommitRow, RowFails, OnlyTask, LeftAlone, ImportTypeOK
<1>5. task \in [TaskId -> Task] /\ task[t] \in Task
  BY DEF ImportTypeOK
<1>6. JobPart(t)
  BY DEF Order
<1>7. \A r \in RowId : importRow'[r] = "accepted" => importRow[r] = "accepted"
  BY <1>1 DEF Onward
<1>8. JobPart(t)'
  <2>1. ASSUME task'[t].step = "rows", t[1] = "commit",
               ~task'[t].erred =>
                 \A r \in RowId : r[1] = t[2] /\ importRow'[r] = "accepted" => r \in task'[t].todo
        PROVE  JobPart(t)'
    <3>1. CommitPart(t)
      BY <1>6, <2>1 DEF JobPart
    <3>2. Started' /\ AllJobs' /\ (t[2] \in OperationalEntity => SetupDone')
      BY <1>1, <1>2, <3>1, SeenStays DEF CommitPart, Started
    <3>3. importJob'[t] = "completed" => \A r \in RowId : r[1] = t[2] => importRow'[r] # "accepted"
      BY <1>2, <1>7, <3>1 DEF CommitPart, Accepted
    <3>4. CommitPart(t)'
      BY <2>1, <3>2, <3>3 DEF CommitPart, Accepted
    <3>5. VerdictPart(t)'
      BY <2>1 DEF VerdictPart
    <3>6. QED
      BY <3>4, <3>5 DEF JobPart
  <2>2. CASE ReadRows(t)
    <3>1. task'[t] = [task[t] EXCEPT !.step = "rows", !.todo = AcceptedRows(t[2])]
      BY <1>5, <2>2 DEF ReadRows, OnlyTask
    <3>2. task'[t].step = "rows" /\ task'[t].todo = AcceptedRows(t[2])
      BY <1>5, <3>1 DEF Task
    <3>3. t[1] = "commit" /\ importRow' = importRow
      BY <2>2 DEF ReadRows
    <3>4. QED
      BY <2>1, <3>2, <3>3 DEF AcceptedRows
  <2>3. ASSUME NEW r \in RowId, CommitRow(t, r) \/ RowFails(t, r), t[1] = "commit"
        PROVE  JobPart(t)'
    <3>1. CASE CommitRow(t, r)
      <4>1. task'[t] = [task[t] EXCEPT !.todo = @ \ {r}]
        BY <1>5, <3>1 DEF CommitRow, OnlyTask
      <4>2. /\ task'[t].step = "rows" /\ task'[t].todo = task[t].todo \ {r}
            /\ task'[t].erred = task[t].erred /\ task[t].step = "rows"
        BY <1>5, <3>1, <4>1 DEF CommitRow, Task
      <4>3. importRow'[r] = "committed"
        BY <3>1 DEF CommitRow, ImportTypeOK
      <4>4. ~task[t].erred => \A q \in RowId : q[1] = t[2] /\ importRow[q] = "accepted" => q \in task[t].todo
        BY <1>6, <2>3, <4>2 DEF JobPart, CommitPart, Accepted
      <4>5. \A q \in RowId : importRow'[q] = "accepted" => q # r /\ importRow[q] = "accepted"
        BY <1>7, <4>3
      <4>6. QED
        BY <2>1, <2>3, <4>2, <4>4, <4>5
    <3>2. CASE RowFails(t, r)
      <4>1. task'[t] = [task[t] EXCEPT !.todo = @ \ {r}, !.erred = TRUE]
        BY <1>5, <3>2 DEF RowFails, OnlyTask
      <4>2. task'[t].step = "rows" /\ task'[t].erred
        BY <1>5, <3>2, <4>1 DEF RowFails, Task
      <4>3. QED
        BY <2>1, <2>3, <4>2
    <3>3. QED
      BY <2>3, <3>1, <3>2
  <2>4. CASE RowsDone(t) /\ ~task[t].erred /\ t[1] = "commit"
    <3>1. task'[t] = [task[t] EXCEPT !.step = "complete"] /\ importRow' = importRow
      BY <1>5, <2>4 DEF RowsDone, OnlyTask
    <3>2. task'[t].step = "complete"
      BY <1>5, <3>1 DEF Task
    <3>3. CommitPart(t) /\ task[t].step = "rows" /\ task[t].todo = {}
      BY <1>6, <2>4 DEF JobPart, RowsDone
    <3>4. \A r \in RowId : r[1] = t[2] => importRow'[r] # "accepted"
      BY <2>4, <3>1, <3>3 DEF CommitPart, Accepted
    <3>5. Started' /\ AllJobs' /\ (t[2] \in OperationalEntity => SetupDone')
      BY <1>1, <1>2, <3>3, SeenStays DEF CommitPart, Started
    <3>6. CommitPart(t)'
      BY <3>2, <3>4, <3>5 DEF CommitPart, Accepted
    <3>7. QED
      BY <3>2, <3>6 DEF JobPart, VerdictPart
  <2>5. CASE RowsDone(t) /\ task[t].erred
    <3>1. task'[t] \in {[task[t] EXCEPT !.step = "fail"], Thrown(t)}
      BY <1>5, <2>5 DEF RowsDone, OnlyTask
    <3>2. [task[t] EXCEPT !.step = "fail"].step = "fail"
      BY <1>5 DEF Task
    <3>3. task'[t].step \in {"fail", "waiting", "ended"}
      BY <3>1, <3>2, ShapesAfter
    <3>4. QED
      BY <1>1, <1>2, <1>6, <3>3, JobMoved
  <2>6. CASE t[1] = "scan"
    <3>1. ASSUME NEW r \in RowId, CommitRow(t, r) \/ RowFails(t, r)
          PROVE  task'[t].step = "rows"
      <4>1. task'[t] \in {[task[t] EXCEPT !.todo = @ \ {r}],
                         [task[t] EXCEPT !.todo = @ \ {r}, !.erred = TRUE]}
        BY <1>5, <3>1 DEF CommitRow, RowFails, OnlyTask
      <4>2. task[t].step = "rows"
        BY <3>1 DEF CommitRow, RowFails
      <4>3. QED
        BY <1>5, <4>1, <4>2 DEF Task
    <3>2. ASSUME RowsDone(t), ~task[t].erred
          PROVE  task'[t].step = "complete"
      <4>1. task'[t] = [task[t] EXCEPT !.step = "complete"]
        BY <1>5, <3>2 DEF RowsDone, OnlyTask
      <4>2. QED
        BY <1>5, <4>1 DEF Task
    <3>3. ~ReadRows(t)
      BY <2>6 DEF ReadRows
    <3>4. CASE task'[t].step \in {"rows", "complete"}
      BY <2>6, <3>4 DEF JobPart, VerdictPart
    <3>5. QED
      BY <2>5, <3>1, <3>2, <3>3, <3>4
  <2>7. t[1] \in {"scan", "commit"}
    BY DEF TaskId
  <2>8. QED
    BY <2>2, <2>3, <2>4, <2>5, <2>6, <2>7
<1>9. QED
  BY <1>1, <1>2, <1>3, <1>4, <1>8, StepOfJob


\* What a job decides about the batch from the jobs it has read.
LEMMA VerdictSound ==
    ASSUME ImportTypeOK, Order, NEW t \in TaskId, task[t].step # "none",
           NextBatchStatus(t[1]) # batch
    PROVE  LET next == NextBatchStatus(t[1]) IN
           /\ next \in {"scan_failed", "needs_review", "commit_failed", "completed"}
           /\ next \in {"commit_failed", "completed"} => Started
           /\ t[1] = "commit" => next \in {"commit_failed", "completed"}
           /\ t[1] = "commit" /\ next = "completed" => NoAccepted
<1> DEFINE jobs == {importJob[u] : u \in {v \in TaskId : v[1] = t[1]}} \ {"none"}
           next == NextBatchStatus(t[1])
<1>1. next = IF batch \notin {"scanning", "committing"} THEN batch
             ELSE IF "failed" \in jobs
                  THEN IF batch = "scanning" THEN "scan_failed" ELSE "commit_failed"
             ELSE IF jobs = {"completed"}
                  THEN IF batch = "scanning" THEN "needs_review" ELSE "completed"
             ELSE batch
  BY DEF NextBatchStatus
<1>2. next # batch
  OBVIOUS
<1>3. ASSUME jobs = {"completed"}, t[1] = "commit", batch = "committing" PROVE NoAccepted
  <2> SUFFICES ASSUME NEW r \in RowId, Accepted(r) PROVE FALSE
    BY DEF NoAccepted
  <2>1. /\ <<"commit", r[1]>> \in TaskId /\ <<"commit", r[1]>>[1] = "commit"
        /\ <<"commit", r[1]>>[2] = r[1]
    BY DEF TaskId, RowId
  <2>2. importJob[<<"commit", r[1]>>] # "none"
    BY <1>3 DEF Order, BatchPart, AllJobs
  <2>3. importJob[<<"commit", r[1]>>] \in jobs
    BY <1>3, <2>1, <2>2
  <2>4. importJob[<<"commit", r[1]>>] = "completed"
    BY <1>3, <2>3
  <2>5. CommitPart(<<"commit", r[1]>>)
    BY <2>1 DEF Order, JobPart
  <2>6. QED
    BY <2>1, <2>4, <2>5 DEF CommitPart
<1>4. t[1] = "commit" => Started
  BY DEF Order, JobPart, CommitPart
<1>5. batch = "committing" => Started
  BY DEF Started
<1> HIDE DEF jobs, next
<1>6. batch = "scanning" \/ batch = "committing"
  BY <1>1, <1>2
<1>7. CASE batch = "scanning"
  <2>1. next \in {"scan_failed", "needs_review"}
    BY <1>1, <1>2, <1>7
  <2>2. t[1] # "commit"
    BY <1>4, <1>7 DEF Started
  <2>3. QED
    BY <2>1, <2>2 DEF next
<1>8. CASE batch = "committing"
  <2>1. next = "commit_failed" \/ (jobs = {"completed"} /\ next = "completed")
    <3>1. CASE "failed" \in jobs
      BY <1>1, <1>8, <3>1
    <3>2. CASE "failed" \notin jobs /\ jobs = {"completed"}
      BY <1>1, <1>8, <3>2
    <3>3. CASE "failed" \notin jobs /\ jobs # {"completed"}
      BY <1>1, <1>2, <1>8, <3>3
    <3>4. QED
      BY <3>1, <3>2, <3>3
  <2>2. QED
    BY <1>3, <1>5, <1>8, <2>1 DEF next
<1>9. QED
  BY <1>6, <1>7, <1>8

\* A job that advances the batch decides what is so ...
LEMMA AdvanceStep ==
    ASSUME ImportTypeOK, Order, NEW t \in TaskId, AdvanceBatch(t)
    PROVE  Order'
<1>1. /\ UNCHANGED <<starter, session, batch, importJob, importRow>>
      /\ task[t].step = "advance" /\ task[t].step # "none"
  BY DEF AdvanceBatch, OnlyTask
<1>2. Onward
  BY <1>1 DEF Onward, Started
<1>3. BatchPart'
  BY <1>1, <1>2, SeenStays DEF Order, BatchPart
<1>4. \A u \in TaskId \ {t} : LeftAlone(u)
  BY DEF AdvanceBatch, OnlyTask, LeftAlone, ImportTypeOK
<1>5. task \in [TaskId -> Task] /\ task[t] \in Task
  BY DEF ImportTypeOK
<1>6. JobPart(t)
  BY DEF Order
<1>7. JobPart(t)'
  <2>1. CASE NextBatchStatus(t[1]) = batch
    <3>1. task'[t] = Advanced(t)
      BY <1>5, <2>1 DEF AdvanceBatch, OnlyTask
    <3>2. task'[t].step \in {"ended", "enqueue"} /\ (t[1] = "scan" => task'[t].step = "ended")
      BY <3>1, ShapesAfter
    <3>3. QED
      BY <1>1, <1>2, <1>6, <3>2, JobMoved
  <2>2. CASE NextBatchStatus(t[1]) # batch
    <3> DEFINE next == NextBatchStatus(t[1])
    <3>1. /\ next \in {"scan_failed", "needs_review", "commit_failed", "completed"}
          /\ next \in {"commit_failed", "completed"} => Started
          /\ t[1] = "commit" => next \in {"commit_failed", "completed"}
          /\ t[1] = "commit" /\ next = "completed" => NoAccepted
      BY <1>1, <2>2, VerdictSound
    <3>2. task'[t] = [task[t] EXCEPT !.step = "write", !.next = next]
      BY <1>5, <2>2 DEF AdvanceBatch, OnlyTask
    <3> HIDE DEF next
    <3>3. task'[t].step = "write" /\ task'[t].next = next
      BY <1>5, <3>2 DEF Task
    <3>4. Started => Started'
      BY <1>1 DEF Started
    <3>5. VerdictPart(t)'
      BY <3>1, <3>3, <3>4 DEF VerdictPart
    <3>6. ASSUME t[1] = "commit" PROVE CommitPart(t)'
      <4>1. CommitPart(t)
        BY <1>6, <3>6 DEF JobPart
      <4>2. Started' /\ AllJobs' /\ (t[2] \in OperationalEntity => SetupDone')
        BY <1>1, <1>2, <3>4, <4>1, SeenStays DEF CommitPart
      <4>3. next = "completed" => NoAccepted'
        BY <1>2, <3>1, <3>6, SeenStays
      <4>4. importJob'[t] = "completed" => \A r \in RowId : r[1] = t[2] => importRow'[r] # "accepted"
        BY <1>1, <4>1 DEF CommitPart, Accepted
      <4>5. QED
        BY <3>1, <3>3, <3>6, <4>2, <4>3, <4>4 DEF CommitPart, Accepted
    <3>7. QED
      BY <3>5, <3>6 DEF JobPart
  <2>3. QED
    BY <2>1, <2>2
<1>8. QED
  BY <1>1, <1>2, <1>3, <1>4, <1>7, StepOfJob

\* ... and writes it while it is still so, unless it is astray.
LEMMA WriteStep ==
    ASSUME ImportTypeOK, Order, Orderly', NEW t \in TaskId, WriteBatch(t)
    PROVE  Order'
<1>1. /\ UNCHANGED <<starter, session, importJob, importRow>> /\ batch' = task[t].next
      /\ task[t].step = "write" /\ task[t].step # "none"
  BY DEF WriteBatch, OnlyTask
<1>2. batch = IF t[1] = "scan" THEN "scanning" ELSE "committing"
  BY DEF WriteBatch, Orderly
<1>3. t[1] \in {"scan", "commit"}
  BY DEF TaskId
<1>4. JobPart(t)
  BY DEF Order
<1>5. /\ t[1] = "scan" => batch' \in {"scan_failed", "needs_review"}
      /\ t[1] = "commit" => batch' \in {"commit_failed", "completed"}
      /\ batch' = "completed" => NoAccepted
  BY <1>1, <1>2, <1>3, <1>4 DEF JobPart, VerdictPart, CommitPart, Started
<1>6. Onward
  BY <1>1, <1>2, <1>3, <1>5 DEF Onward, Started
<1>7. BatchPart'
  BY <1>3, <1>5, <1>6, SeenStays DEF BatchPart
<1>8. \A u \in TaskId \ {t} : LeftAlone(u)
  BY DEF WriteBatch, OnlyTask, LeftAlone, ImportTypeOK
<1>9. JobPart(t)'
  <2>1. task'[t] = Advanced(t)
    BY DEF WriteBatch, OnlyTask, ImportTypeOK
  <2>2. task'[t].step \in {"ended", "enqueue"} /\ (t[1] = "scan" => task'[t].step = "ended")
    BY <2>1, ShapesAfter
  <2>3. QED
    BY <1>1, <1>4, <1>6, <2>2, JobMoved
<1>10. QED
  BY <1>1, <1>6, <1>7, <1>8, <1>9, StepOfJob


\* A job that queues what is ready, whatever becomes of it.
LEMMA QueueStep ==
    ASSUME ImportTypeOK, Order, NEW t \in TaskId, EnqueueReady(t) \/ WorkerFails(t)
    PROVE  Order'
<1>1. /\ UNCHANGED <<starter, session, batch, importJob, importRow>> /\ task[t].step # "none"
  BY DEF EnqueueReady, WorkerFails
<1>2. Onward
  BY <1>1 DEF Onward, Started
<1>3. BatchPart'
  BY <1>1, <1>2, SeenStays DEF Order, BatchPart
<1>4. JobPart(t)
  BY DEF Order
<1>5. ASSUME task[t].step = "enqueue", NEW e \in Ready(importJob)
      PROVE  MayQueue(<<"commit", e>>)
  <2>1. t[1] = "commit"
    BY <1>4, <1>5 DEF JobPart, VerdictPart, TaskId
  <2>2. Started /\ AllJobs
    BY <1>1, <1>4, <2>1 DEF JobPart, CommitPart
  <2>3. QED
    BY <2>2, ReadyMayQueue
<1>6. \E new : \E es \in SUBSET {e \in Ready(importJob) : task[t].step = "enqueue"} :
        /\ task' = [Added(task, Commits(es)) EXCEPT ![t] = new]
        /\ new.step \in {"fail", "waiting", "ended"}
  <2>1. CASE EnqueueReady(t)
    <3>1. [NoTask EXCEPT !.step = "ended"].step = "ended"
      BY DEF NoTask
    <3>2. /\ task' = [Added(task, Commits(Ready(importJob))) EXCEPT ![t] = [NoTask EXCEPT !.step = "ended"]]
          /\ task[t].step = "enqueue"
      BY <2>1 DEF EnqueueReady
    <3>3. Ready(importJob) \in SUBSET {e \in Ready(importJob) : task[t].step = "enqueue"}
      BY <3>2
    <3>4. QED
      BY <3>1, <3>2, <3>3
  <2>2. CASE WorkerFails(t)
    <3> DEFINE new == IF FinalAttempt(t) /\ ~task[t].caught
                      THEN [task[t] EXCEPT !.step = "fail", !.caught = TRUE] ELSE Thrown(t)
    <3>1. PICK es \in SUBSET {e \in Ready(importJob) : task[t].step = "enqueue"} :
              task' = [Added(task, Commits(es)) EXCEPT ![t] = new]
      BY <2>2 DEF WorkerFails
    <3>2. task[t] \in Task
      BY DEF ImportTypeOK
    <3>3. [task[t] EXCEPT !.step = "fail", !.caught = TRUE].step = "fail"
      BY <3>2 DEF Task
    <3>4. new.step \in {"fail", "waiting", "ended"}
      BY <3>3, ShapesAfter
    <3> HIDE DEF new
    <3>5. QED
      BY <3>1, <3>4
  <2>3. QED
    BY <2>1, <2>2
<1>7. PICK new : \E es \in SUBSET {e \in Ready(importJob) : task[t].step = "enqueue"} :
        /\ task' = [Added(task, Commits(es)) EXCEPT ![t] = new]
        /\ new.step \in {"fail", "waiting", "ended"}
  BY <1>6
<1>8. PICK es \in SUBSET {e \in Ready(importJob) : task[t].step = "enqueue"} :
          task' = [Added(task, Commits(es)) EXCEPT ![t] = new]
  BY <1>7
<1>9. /\ task'[t] = new
      /\ \A u \in TaskId \ {t} : task'[u] = task[u] \/ (task'[u].step = "waiting" /\ u \in Commits(es))
  BY <1>8, TaskSet
<1>10. \A u \in Commits(es) : MayQueue(u)
  BY <1>5, <1>8 DEF Commits
<1>11. \A u \in TaskId \ {t} : LeftAlone(u)
  BY <1>1, <1>9, <1>10 DEF LeftAlone
<1>12. JobPart(t)'
  <2>1. task'[t].step \in {"fail", "waiting", "ended"}
    BY <1>7, <1>9
  <2>2. QED
    BY <1>1, <1>2, <1>4, <2>1, JobMoved
<1>13. QED
  BY <1>1, <1>2, <1>3, <1>11, <1>12, StepOfJob

\* The start of the scan: it goes before every commit.
LEMMA StarterOrderStep ==
    ASSUME ImportTypeOK, Order, StarterStep \/ StarterFails \/ StarterDies
    PROVE  Order'
<1>1. /\ UNCHANGED <<session, importJob, importRow>> /\ starter' # "draft"
      /\ \/ batch' = batch
         \/ batch' = "scanning" /\ starter = "draft"
         \/ batch' = "scan_failed"
  BY DEF StarterStep, StartScanning, EnqueueScans, ScanFailed, StarterFails, StarterDies
<1>2. starter = "draft" => batch = "draft"
  BY DEF Order, StarterPart
<1>3. Onward
  BY <1>1, <1>2 DEF Onward, Started
<1>4. BatchPart'
  BY <1>1, <1>3, SeenStays DEF Order, BatchPart
<1>5. \A a \in ImportAdmin : SessionPart(a)'
  BY <1>1, <1>3, SessionKept DEF Order
<1>6. \A t \in TaskId : task'[t] = task[t] \/ (task'[t].step = "waiting" /\ t[1] = "scan")
  <2>1. \/ task' = task
        \/ \E ts \in SUBSET {t \in TaskId : t[1] = "scan"} : task' = Added(task, ts)
    BY DEF StarterStep, StartScanning, EnqueueScans, ScanFailed, StarterFails, StarterDies
  <2>2. CASE task' = task
    BY <2>2
  <2>3. ASSUME NEW ts \in SUBSET {t \in TaskId : t[1] = "scan"}, task' = Added(task, ts),
               NEW t \in TaskId, task'[t] # task[t]
        PROVE  task'[t].step = "waiting" /\ t[1] = "scan"
    <3>1. t \in ts /\ task'[t] = [task[t] EXCEPT !.step = "waiting"]
      BY <2>3 DEF Added
    <3>2. task[t] \in Task
      BY DEF ImportTypeOK
    <3>3. QED
      BY <2>3, <3>1, <3>2 DEF Task
  <2>4. QED
    BY <2>1, <2>2, <2>3
<1>7. \A t \in TaskId : JobPart(t)'
  <2>1. \A t \in TaskId : LeftAlone(t)
    BY <1>1, <1>6 DEF LeftAlone, MayQueue
  <2>2. QED
    BY <1>3, <2>1, JobKept DEF Order
<1>8. StarterPart'
  BY <1>1 DEF StarterPart
<1>9. QED
  BY <1>4, <1>5, <1>7, <1>8 DEF Order


-----------------------------------------------------------------------------
(***************************************************************************)
(* The requests of the admins.                                             *)
(***************************************************************************)

\* A step of the request of a, from what its part and the jobs have to show.
LEMMA StepOfSession ==
    ASSUME ImportTypeOK, Order, Onward, NEW a \in ImportAdmin, starter' = starter, BatchPart',
           StarterPart', NEW new, session' = [session EXCEPT ![a] = new], SessionPart(a)',
           \A t \in TaskId : LeftAlone(t)
    PROVE  Order'
<1>1. \A b \in ImportAdmin \ {a} : session'[b] = session[b]
  BY DEF ImportTypeOK
<1>2. \A b \in ImportAdmin : SessionPart(b)'
  BY <1>1, SessionKept DEF Order
<1>3. \A t \in TaskId : JobPart(t)'
  BY JobKept DEF Order
<1>4. QED
  BY <1>2, <1>3 DEF Order

\* The steps that leave the jobs alone.
LEMMA RequestStep ==
    ASSUME ImportTypeOK, Order, NEW a \in ImportAdmin,
           ReadAccepted(a) \/ SetCommitting(a) \/ CommitFailed(a) \/ SessionDies(a)
    PROVE  Order'
<1>1. /\ UNCHANGED <<importJob, task, importRow, starter>>
      /\ \/ batch' = batch
         \/ batch' = "committing" /\ batch = "needs_review" /\ session[a].step = "commit"
         \/ batch' = "commit_failed"
  BY DEF ReadAccepted, SetCommitting, CommitFailed, SessionDies
<1>2. /\ batch' # batch => session[a].step # "idle"
      /\ batch' # batch => batch' \notin {"draft", "scanning", "needs_review", "completed"}
  BY <1>1 DEF ReadAccepted, SetCommitting, CommitFailed, SessionDies
<1>3. SessionPart(a)
  BY DEF Order
<1>4. Onward
  BY <1>1, <1>2 DEF Onward, Started
<1>5. BatchPart'
  <2>1. batch' = "committing" => AllJobs
    BY <1>1, <1>3 DEF Order, BatchPart, SessionPart
  <2>2. batch' = "completed" => NoAccepted
    BY <1>1 DEF Order, BatchPart
  <2>3. QED
    BY <1>4, <2>1, <2>2, SeenStays DEF BatchPart
<1>6. StarterPart'
  BY <1>1, <1>2, <1>3 DEF Order, StarterPart, SessionPart
<1>7. \A t \in TaskId : LeftAlone(t)
  BY <1>1 DEF LeftAlone
<1>8. session \in [ImportAdmin -> Session] /\ session[a] \in Session
  BY DEF ImportTypeOK, Session
<1>9. CASE ReadAccepted(a)
  <2> DEFINE types == {r[1] : r \in {q \in RowId : importRow[q] = "accepted"}}
             new == [NoSession EXCEPT !.step = "insert", !.types = types]
  <2>1. session' = [session EXCEPT ![a] = new] /\ batch = "needs_review" /\ batch' = batch
    BY <1>9 DEF ReadAccepted
  <2>2. \A r \in RowId : importRow'[r] = "accepted" => r[1] \in types
    BY <1>1
  <2> HIDE DEF types
  <2>3. new.step = "insert" /\ new.types = types
    BY DEF NoSession
  <2> HIDE DEF new
  <2>4. session'[a] = new
    BY <1>8, <2>1
  <2>5. SessionPart(a)'
    BY <2>1, <2>2, <2>3, <2>4 DEF SessionPart, Accepted
  <2>6. QED
    BY <1>1, <1>4, <1>5, <1>6, <1>7, <2>1, <2>5, StepOfSession
<1>10. CASE SetCommitting(a) /\ batch = "needs_review"
  <2> DEFINE new == [session[a] EXCEPT !.step = "enqueue"]
  <2>1. session' = [session EXCEPT ![a] = new] /\ batch' = "committing" /\ session[a].step = "commit"
    BY <1>8, <1>10 DEF SetCommitting
  <2>2. new.step = "enqueue" /\ new.ready = session[a].ready
    BY <1>8 DEF Session
  <2> HIDE DEF new
  <2>3. session'[a] = new
    BY <1>8, <2>1
  <2>4. AllJobs' /\ (session[a].ready \cap OperationalEntity # {} => SetupDone')
    BY <1>3, <1>4, <2>1, SeenStays DEF SessionPart
  <2>5. SessionPart(a)'
    BY <2>1, <2>2, <2>3, <2>4 DEF SessionPart, Started
  <2>6. QED
    BY <1>1, <1>4, <1>5, <1>6, <1>7, <2>1, <2>5, StepOfSession
<1>11. CASE ~ReadAccepted(a) /\ ~(SetCommitting(a) /\ batch = "needs_review")
  <2>1. session' = [session EXCEPT ![a] = NoSession]
    BY <1>11 DEF SetCommitting, CommitFailed, SessionDies
  <2>2. session'[a] = NoSession
    BY <1>8, <2>1
  <2>3. SessionPart(a)'
    BY <2>2 DEF SessionPart, NoSession
  <2>4. QED
    BY <1>1, <1>4, <1>5, <1>6, <1>7, <2>1, <2>3, StepOfSession
<1>12. QED
  BY <1>9, <1>10, <1>11

\* A request queues what it got back as ready.
LEMMA EnqueueStep ==
    ASSUME ImportTypeOK, Order, NEW a \in ImportAdmin, EnqueueCommits(a) \/ EnqueueFails(a)
    PROVE  Order'
<1>1. /\ UNCHANGED <<batch, importJob, importRow, starter>>
      /\ session[a].step = "enqueue"
  BY DEF EnqueueCommits, EnqueueFails
<1>2. Onward
  BY <1>1 DEF Onward, Started
<1>3. BatchPart'
  BY <1>1, <1>2, SeenStays DEF Order, BatchPart
<1>4. SessionPart(a)
  BY DEF Order
<1>5. StarterPart'
  BY <1>1, <1>4 DEF Order, StarterPart, SessionPart
<1>6. session \in [ImportAdmin -> Session] /\ session[a] \in Session
  BY DEF ImportTypeOK, Session
<1>7. \A u \in Commits(session[a].ready) : MayQueue(u)
  BY <1>1, <1>4 DEF SessionPart, MayQueue, Commits
<1>8. \A u \in TaskId : LeftAlone(u)
  <2>1. PICK ts \in SUBSET Commits(session[a].ready) : task' = Added(task, ts)
    BY DEF EnqueueCommits, EnqueueFails
  <2>2. SUFFICES ASSUME NEW u \in TaskId, task'[u] # task[u]
                 PROVE  task'[u].step = "waiting" /\ u \in ts
    BY <1>1, <1>7, <2>1 DEF LeftAlone
  <2>3. u \in ts /\ task'[u] = [task[u] EXCEPT !.step = "waiting"]
    BY <2>1, <2>2 DEF Added
  <2>4. task[u] \in Task
    BY DEF ImportTypeOK
  <2>5. QED
    BY <2>3, <2>4 DEF Task
<1>9. CASE EnqueueCommits(a)
  <2>1. session' = [session EXCEPT ![a] = NoSession] /\ session'[a] = NoSession
    BY <1>6, <1>9 DEF EnqueueCommits
  <2>2. SessionPart(a)'
    BY <2>1 DEF SessionPart, NoSession
  <2>3. QED
    BY <1>1, <1>2, <1>3, <1>5, <1>8, <2>1, <2>2, StepOfSession
<1>10. CASE EnqueueFails(a)
  <2> DEFINE new == [session[a] EXCEPT !.step = "fail"]
  <2>1. session' = [session EXCEPT ![a] = new]
    BY <1>6, <1>10 DEF EnqueueFails
  <2>2. new.step = "fail" /\ new.ready = session[a].ready
    BY <1>6 DEF Session
  <2> HIDE DEF new
  <2>3. session'[a] = new
    BY <1>6, <2>1
  <2>4. /\ AllJobs' /\ (session[a].ready \cap OperationalEntity # {} => SetupDone')
        /\ Started'
    BY <1>1, <1>2, <1>4, SeenStays DEF SessionPart, Started
  <2>5. SessionPart(a)'
    BY <2>2, <2>3, <2>4 DEF SessionPart, Started
  <2>6. QED
    BY <1>1, <1>2, <1>3, <1>5, <1>8, <2>1, <2>5, StepOfSession
<1>11. QED
  BY <1>9, <1>10

\* The jobs are created for all types of which it has seen accepted rows, so all accepted
\* rows have jobs from then on; and what it takes as ready are absences and work periods
\* only when the jobs of the setup among them are completed.
LEMMA InsertStep ==
    ASSUME ImportTypeOK, Order, NEW a \in ImportAdmin, InsertJobs(a)
    PROVE  Order'
<1> DEFINE types == session[a].types
           jobs == [t \in TaskId |-> IF t \in Commits(types) /\ importJob[t] = "none"
                                     THEN "queued" ELSE importJob[t]]
           returned == [t \in TaskId |-> IF t \in Commits(types) THEN jobs[t] ELSE "none"]
           ready == Ready(returned)
           new == [NoSession EXCEPT !.step = "commit", !.ready = ready]
<1>1. /\ UNCHANGED <<batch, task, importRow, starter>> /\ session[a].step = "insert"
      /\ importJob' = jobs
      /\ session' = [session EXCEPT ![a] = new]
  BY DEF InsertJobs, Commits
<1>2. SessionPart(a)
  BY DEF Order
<1>3. Onward
  BY <1>1 DEF Onward, Started
<1>4. BatchPart'
  BY <1>1, <1>3, SeenStays DEF Order, BatchPart
<1>5. StarterPart'
  BY <1>1 DEF Order, StarterPart
<1>6. \A t \in TaskId : LeftAlone(t)
  BY <1>1 DEF LeftAlone
<1>7. AllJobs'
  <2> SUFFICES ASSUME NEW r \in RowId, importRow'[r] = "accepted"
               PROVE  importJob'[<<"commit", r[1]>>] # "none"
    BY DEF AllJobs, Accepted
  <2>1. r[1] \in types
    BY <1>1, <1>2 DEF SessionPart, Accepted
  <2>2. <<"commit", r[1]>> \in TaskId /\ <<"commit", r[1]>> \in Commits(types)
    BY <2>1 DEF TaskId, RowId, Commits
  <2>3. QED
    BY <1>1, <2>2
<1>8. ready \cap OperationalEntity # {} => SetupDone'
  <2> SUFFICES ASSUME NEW e \in ready, e \in OperationalEntity,
                      NEW r \in RowId, r[1] \in SetupEntity, Accepted(r)
               PROVE  FALSE
    BY <1>1 DEF SetupDone, Accepted
  <2> DEFINE t == <<"commit", r[1]>>
  <2>1. t \in TaskId /\ t[1] = "commit" /\ t[2] = r[1]
    BY DEF TaskId, RowId
  <2>2. returned[t] \in {"none", "completed"}
    BY ReadyAfterSetup
  <2>3. t \in Commits(types)
    BY <1>1, <1>2 DEF SessionPart, Commits
  <2>4. importJob[t] = "completed"
    BY <2>1, <2>2, <2>3
  <2>5. CommitPart(t)
    BY <2>1 DEF Order, JobPart
  <2>6. QED
    BY <2>1, <2>4, <2>5 DEF CommitPart
<1> HIDE DEF ready
<1>9. new.step = "commit" /\ new.ready = ready
  BY DEF NoSession
<1> HIDE DEF new
<1>10. session'[a] = new
  BY <1>1 DEF ImportTypeOK
<1>11. SessionPart(a)'
  BY <1>1, <1>2, <1>7, <1>8, <1>9, <1>10 DEF SessionPart
<1>12. QED
  BY <1>1, <1>3, <1>4, <1>5, <1>6, <1>11, StepOfSession

\* A decision that is not late falls into a review of which no request knows anything.
LEMMA DecideStep ==
    ASSUME ImportTypeOK, Order, Orderly', NEW r \in RowId,
           NEW status \in {"accepted", "blocked", "rejected"}, Decide(r, status)
    PROVE  Order'
<1>1. UNCHANGED <<batch, importJob, task, starter, session>> /\ batch = "needs_review"
  BY DEF Decide
<1>2. \A a \in ImportAdmin : session[a].step \notin {"insert", "commit"}
  BY DEF Decide, Orderly
<1>3. ~Started
  BY <1>1 DEF Started
<1>4. \A a \in ImportAdmin : session[a].step = "idle"
  BY <1>2, <1>3 DEF Order, SessionPart, ImportTypeOK
<1>5. \A t \in TaskId : t[1] = "commit" =>
          task[t].step = "none" /\ importJob[t] \in {"none", "queued"}
  BY <1>3 DEF Order, JobPart, CommitPart
<1>6. BatchPart'
  BY <1>1 DEF BatchPart
<1>7. StarterPart'
  BY <1>1 DEF Order, StarterPart
<1>8. \A a \in ImportAdmin : SessionPart(a)'
  BY <1>1, <1>4 DEF SessionPart
<1>9. \A t \in TaskId : JobPart(t)'
  BY <1>1, <1>5 DEF Order, JobPart, VerdictPart, CommitPart, Started
<1>10. QED
  BY <1>6, <1>7, <1>8, <1>9 DEF Order


-----------------------------------------------------------------------------
(***************************************************************************)
(* The theorems of the order.                                              *)
(***************************************************************************)

\* What has gone wrong is remembered.
LEMMA MishapsStay == ASSUME ImportNext PROVE mishaps \subseteq mishaps'
<1>1. ASSUME NEW t \in TaskId, WorkerStep(t) \/ WorkerFails(t) \/ WorkerDies(t)
      PROVE  mishaps \subseteq mishaps'
  BY <1>1 DEF WorkerStep, WorkerFails, WorkerDies, MarkRunning, StageRows, ReadRows, CommitRow, RowFails,
     RowsDone, MarkCompleted, MarkFailed, AdvanceBatch, WriteBatch, EnqueueReady
<1>2. ASSUME NEW a \in ImportAdmin, ReadAccepted(a) \/ SessionStep(a) \/ EnqueueFails(a) \/ SessionDies(a)
      PROVE  mishaps \subseteq mishaps'
  BY <1>2 DEF ReadAccepted, SessionStep, InsertJobs, SetCommitting, EnqueueCommits, CommitFailed,
     EnqueueFails, SessionDies
<1>3. ASSUME StarterStep \/ StarterFails \/ StarterDies PROVE mishaps \subseteq mishaps'
  BY <1>3 DEF StarterStep, StartScanning, EnqueueScans, ScanFailed, StarterFails, StarterDies
<1>4. ASSUME NEW r \in RowId, NEW status \in {"accepted", "blocked", "rejected"}, Decide(r, status)
      PROVE  mishaps \subseteq mishaps'
  BY <1>4 DEF Decide
<1>5. QED
  BY <1>1, <1>2, <1>3, <1>4, SMTT(60) DEF ImportNext, ServerStep

\* The invariant of the order holds at first ...
LEMMA OrderStart == ASSUME ImportInit PROVE OrderInv
<1>1. NoTask.step = "none" /\ NoSession.step = "idle"
  BY DEF NoTask, NoSession
<1>2. \A t \in TaskId : task[t] = NoTask /\ importJob[t] \in {"none", "queued"}
  BY DEF ImportInit
<1>3. \A a \in ImportAdmin : session[a] = NoSession
  BY DEF ImportInit
<1>4. batch = "draft"
  BY DEF ImportInit
<1>5. StarterPart /\ BatchPart
  BY <1>1, <1>2, <1>4 DEF StarterPart, BatchPart
<1>6. \A a \in ImportAdmin : SessionPart(a)
  BY <1>1, <1>3 DEF SessionPart
<1>7. \A t \in TaskId : JobPart(t)
  BY <1>1, <1>2 DEF JobPart, VerdictPart, CommitPart
<1>8. QED
  BY <1>5, <1>6, <1>7 DEF OrderInv, Order

\* ... and through every step.
LEMMA OrderStep ==
    ASSUME ImportTypeOK, OrderInv, [ImportNext]_importVars
    PROVE  OrderInv'
<1>1. CASE UNCHANGED importVars
  <2>1. UNCHANGED <<Orderly, StarterPart, BatchPart>>
    BY <1>1 DEF importVars, Orderly, StarterPart, BatchPart, AllJobs, NoAccepted, Accepted
  <2>2. \A a \in ImportAdmin : UNCHANGED SessionPart(a)
    BY <1>1 DEF importVars, SessionPart, AllJobs, SetupDone, Started, Accepted
  <2>3. \A t \in TaskId : UNCHANGED JobPart(t)
    BY <1>1 DEF importVars, JobPart, VerdictPart, CommitPart, AllJobs, NoAccepted, SetupDone, Started,
       Accepted
  <2>4. QED
    BY <2>1, <2>2, <2>3 DEF OrderInv, Order
<1>2. CASE ImportNext
  <2> SUFFICES ASSUME Orderly' PROVE Order'
    BY DEF OrderInv
  <2>1. Order
    BY <1>2, MishapsStay DEF OrderInv, Orderly
  <2>2. ASSUME NEW t \in TaskId, WorkerStep(t) \/ WorkerFails(t) \/ WorkerDies(t)
        PROVE  Order'
    BY <2>1, <2>2, PlainJobStep, RowsJobStep, AdvanceStep, WriteStep, QueueStep DEF WorkerStep
  <2>3. ASSUME NEW a \in ImportAdmin,
               ReadAccepted(a) \/ SessionStep(a) \/ EnqueueFails(a) \/ SessionDies(a)
        PROVE  Order'
    BY <2>1, <2>3, RequestStep, EnqueueStep, InsertStep DEF SessionStep
  <2>4. ASSUME StarterStep \/ StarterFails \/ StarterDies PROVE Order'
    BY <2>1, <2>4, StarterOrderStep
  <2>5. ASSUME NEW r \in RowId, NEW status \in {"accepted", "blocked", "rejected"}, Decide(r, status)
        PROVE  Order'
    BY <2>1, <2>5, DecideStep
  <2>6. QED
    BY <1>2, <2>2, <2>3, <2>4, <2>5 DEF ImportNext, ServerStep
<1>3. QED
  BY <1>1, <1>2

LEMMA OrderAlways == ImportSpec => []OrderInv
<1>1. ImportTypeOK /\ OrderInv /\ [ImportNext]_importVars => OrderInv'
  BY OrderStep
<1>2. ImportInit => OrderInv
  BY OrderStart
<1>3. QED
  BY <1>1, <1>2, ImportTypeCorrect, PTL DEF ImportSpec

\* A completed import has committed every accepted row, unless a decision fell into the
\* start of a commit or a job wrote the batch out of its phase.
THEOREM CompletedLeavesNothingCorrect == ImportSpec => []CompletedLeavesNothing
<1>1. OrderInv => CompletedLeavesNothing
  BY DEF OrderInv, Order, BatchPart, Orderly, NoAccepted, Accepted, CompletedLeavesNothing
<1>2. QED
  BY <1>1, OrderAlways, PTL

\* Absences and work periods are committed when no accepted row is left of what they
\* refer to, with the same exceptions.
THEOREM OperationalAfterSetupCorrect == ImportSpec => OperationalAfterSetup
<1> DEFINE Moves == \A r \in OperationalEntity \X (1..RowsPerEntity),
                      s \in SetupEntity \X (1..RowsPerEntity) :
                       targets'[r] > targets[r] /\ mishaps \cap {"late", "astray"} = {} =>
                           importRow[s] # "accepted"
<1>1. CommitInv /\ OrderInv /\ [ImportNext]_importVars => [Moves]_importVars
  <2> SUFFICES ASSUME CommitInv, OrderInv, ImportNext,
                      NEW r \in OperationalEntity \X (1..RowsPerEntity),
                      NEW s \in SetupEntity \X (1..RowsPerEntity),
                      targets'[r] > targets[r], mishaps \cap {"late", "astray"} = {}
               PROVE  importRow[s] # "accepted"
    OBVIOUS
  <2>1. r \in RowId /\ s \in RowId /\ r[1] \in OperationalEntity /\ s[1] \in SetupEntity
    BY DEF RowId, Entity
  <2>2. targets \in [RowId -> Nat] /\ targets[r] \in Nat
    BY <2>1 DEF CommitInv, ImportTypeOK
  <2>3. targets' # targets
    BY <2>2
  <2>4. PICK t \in TaskId, q \in RowId : CommitRow(t, q)
    <3>1. ASSUME NEW t \in TaskId, WorkerStep(t) \/ WorkerFails(t) \/ WorkerDies(t)
          PROVE  \E q \in RowId : CommitRow(t, q)
      BY <2>3, <3>1 DEF WorkerStep, WorkerFails, WorkerDies, MarkRunning, StageRows, ReadRows, RowFails,
         RowsDone, MarkCompleted, MarkFailed, AdvanceBatch, WriteBatch, EnqueueReady
    <3>2. ASSUME NEW a \in ImportAdmin,
                 ReadAccepted(a) \/ SessionStep(a) \/ EnqueueFails(a) \/ SessionDies(a)
          PROVE  FALSE
      BY <2>3, <3>2 DEF ReadAccepted, SessionStep, InsertJobs, SetCommitting, EnqueueCommits,
         CommitFailed, EnqueueFails, SessionDies
    <3>3. ~(StarterStep \/ StarterFails \/ StarterDies)
      BY <2>3 DEF StarterStep, StartScanning, EnqueueScans, ScanFailed, StarterFails, StarterDies
    <3>4. \A p \in RowId, status \in {"accepted", "blocked", "rejected"} : ~Decide(p, status)
      BY <2>3 DEF Decide
    <3>5. QED
      BY <3>1, <3>2, <3>3, <3>4 DEF ImportNext, ServerStep
  <2>5. q = r
    BY <2>1, <2>2, <2>4 DEF CommitRow
  <2>6. t = <<"commit", r[1]>> /\ task[t].step = "rows"
    BY <2>4, <2>5 DEF CommitRow, CommitInv, TodoInv
  <2>7. CommitPart(t)
    BY <2>6 DEF OrderInv, Orderly, Order, JobPart
  <2>8. SetupDone
    BY <2>1, <2>6, <2>7 DEF CommitPart
  <2>9. QED
    BY <2>1, <2>8 DEF SetupDone, Accepted
<1>2. QED
  BY <1>1, CommitInvAlways, OrderAlways, PTL DEF ImportSpec, OperationalAfterSetup
===============================================================================
