---------------------------- MODULE ImportReview ----------------------------
(***************************************************************************)
(* One import batch, from the scan through the review to the commit:       *)
(*   app/[locale]/(app)/settings/import/review-actions.ts,                 *)
(*   lib/import-review/worker.ts, repository.ts, state.ts, committers.ts   *)
(*                                                                         *)
(* A batch has one scan job for each entity type (the partitions by month  *)
(* are one) and one commit job for each entity type with accepted rows.    *)
(* A job has a row in import_batch_job (importJob) and, under an id of its *)
(* own, a place in the queue (task), which keeps it when it has ended.     *)
(***************************************************************************)
EXTENDS Integers, FiniteSets

CONSTANTS
    SetupEntity,        \* dependency group 0: team, holiday, ...
    OperationalEntity,  \* COMMIT_OPERATIONAL_ENTITIES: absence, work_period, ...
    RowsPerEntity,      \* bound: rows the provider has of an entity type
    ImportAdmin,        \* admins with the review open
    Attempts,           \* attempts of a queued job (3 in the code)
    MaxTrouble          \* bound: deaths and failed statements

ASSUME ImportBounds == RowsPerEntity \in Nat /\ Attempts \in Nat \ {0} /\ MaxTrouble \in Nat
\* An entity type has one dependency group.
ASSUME GroupAssumption == SetupEntity \cap OperationalEntity = {}

VARIABLES
    batch,       \* import_batch.status
    importJob,   \* importJob[t]: import_batch_job.status
    task,        \* task[t]: the job in the queue and its worker
    importRow,   \* importRow[r]: the staged row
    targets,     \* targets[r]: the entities that were created from r
    starter,     \* how far startImportReviewScan is
    session,     \* session[a]: how far startImportCommitAction of a is
    mishaps,     \* history: what went wrong
    trouble      \* deaths and failed statements so far

importVars == <<batch, importJob, task, importRow, targets, starter, session, mishaps, trouble>>

Entity == SetupEntity \cup OperationalEntity

RowId == Entity \X (1..RowsPerEntity)

TaskId == {"scan", "commit"} \X Entity

BatchStatus == {"draft", "scanning", "scan_failed", "needs_review", "committing",
                "commit_failed", "completed"}

RowStatus == {"absent", "staged", "accepted", "rejected", "blocked", "committed", "commit_failed"}

Undecided == {"staged", "accepted", "rejected", "blocked"}

\* step: where the queue has it or what its worker does next; todo: the accepted rows it
\* has read; erred: a row failed; next: the status it has decided on; caught: it is in
\* its catch block.
Task == [attempt : 1..Attempts, again : BOOLEAN, todo : SUBSET RowId, erred : BOOLEAN,
         next : BatchStatus, caught : BOOLEAN,
         step : {"none", "waiting", "work", "rows", "complete", "advance", "write", "enqueue",
                 "fail", "ended"}]

NoTask == [attempt |-> 1, again |-> FALSE, todo |-> {}, erred |-> FALSE, next |-> "draft",
           caught |-> FALSE, step |-> "none"]

NoSession == [step |-> "idle", types |-> {}, ready |-> {}]

ImportInit ==
    /\ batch = "draft"
    /\ importJob = [t \in TaskId |-> IF t[1] = "scan" THEN "queued" ELSE "none"]
    /\ task = [t \in TaskId |-> NoTask]
    /\ importRow = [r \in RowId |-> "absent"]
    /\ targets = [r \in RowId |-> 0]
    /\ starter = "draft"
    /\ session = [a \in ImportAdmin |-> NoSession]
    /\ mishaps = {} /\ trouble = 0

-----------------------------------------------------------------------------
\* addJob with the id of the job: a job the queue knows is not added again.
Added(tasks, ts) ==
    [t \in TaskId |-> IF t \in ts /\ tasks[t].step = "none"
                      THEN [tasks[t] EXCEPT !.step = "waiting"] ELSE tasks[t]]

\* Variant: the dependency groups are forgotten.
ReadyIgnoringGroups(jobs) == {e \in Entity : jobs[<<"commit", e>>] = "queued"}

\* readyCommitJobsFromJobs: the queued jobs of the first group that is not completed.
Ready(jobs) ==
    LET open(group) == {e \in group : jobs[<<"commit", e>>] \notin {"none", "completed"}}
        first == IF open(SetupEntity) # {} THEN open(SetupEntity) ELSE open(OperationalEntity)
    IN  {e \in first : jobs[<<"commit", e>>] = "queued"
                       /\ \A d \in Entity : jobs[<<"commit", d>>] # "failed"}

Commits(types) == {<<"commit", e>> : e \in types}

\* Variant: a batch is done as soon as one job is.
NextBatchStatusEarly(kind) ==
    LET jobs == {importJob[t] : t \in {u \in TaskId : u[1] = kind}} \ {"none"} IN
    IF batch \notin {"scanning", "committing"} THEN batch
    ELSE IF "failed" \in jobs THEN IF batch = "scanning" THEN "scan_failed" ELSE "commit_failed"
    ELSE IF "completed" \in jobs THEN IF batch = "scanning" THEN "needs_review" ELSE "completed"
    ELSE batch

\* nextBatchStatusAfterJobs: the status comes from the batch, the jobs from the kind of
\* the job that has ended.
NextBatchStatus(kind) ==
    LET jobs == {importJob[t] : t \in {u \in TaskId : u[1] = kind}} \ {"none"} IN
    IF batch \notin {"scanning", "committing"} THEN batch
    ELSE IF "failed" \in jobs THEN IF batch = "scanning" THEN "scan_failed" ELSE "commit_failed"
    ELSE IF jobs = {"completed"} THEN IF batch = "scanning" THEN "needs_review" ELSE "completed"
    ELSE batch

Troubled == trouble < MaxTrouble /\ trouble' = trouble + 1

-----------------------------------------------------------------------------
(***************************************************************************)
(* startImportReviewScan: the batch and its jobs are there.                *)
(***************************************************************************)
StartScanning ==
    /\ starter = "draft" /\ starter' = "enqueue"
    /\ batch' = "scanning"
    /\ UNCHANGED <<importJob, task, importRow, targets, session, mishaps, trouble>>

EnqueueScans ==
    /\ starter = "enqueue" /\ starter' = "done"
    /\ task' = Added(task, {t \in TaskId : t[1] = "scan"})
    /\ UNCHANGED <<batch, importJob, importRow, targets, session, mishaps, trouble>>

\* A statement fails; any of the jobs may be queued already.
StarterFails ==
    /\ Troubled
    /\ starter \in {"draft", "enqueue"} /\ starter' = "fail"
    /\ \E ts \in SUBSET {t \in TaskId : starter = "enqueue" /\ t[1] = "scan"} :
          task' = Added(task, ts)
    /\ UNCHANGED <<batch, importJob, importRow, targets, session, mishaps>>

ScanFailed ==
    /\ starter = "fail" /\ starter' = "done"
    /\ batch' = "scan_failed"
    /\ UNCHANGED <<importJob, task, importRow, targets, session, mishaps, trouble>>

StarterDies ==
    /\ Troubled
    /\ starter # "done" /\ starter' = "done"
    /\ mishaps' = mishaps \cup {"lost"}
    /\ UNCHANGED <<batch, importJob, task, importRow, targets, session>>

-----------------------------------------------------------------------------
(***************************************************************************)
(* The review.                                                             *)
(***************************************************************************)
\* applyImportRowDecision, with the batch locked.  Accepting a row blocks it when it has a
\* blocking issue, which is not kept.  It is late when a commit has read the rows already.
Decide(r, status) ==
    /\ batch = "needs_review" /\ importRow[r] \in Undecided
    /\ importRow' = [importRow EXCEPT ![r] = status]
    /\ mishaps' = IF \E a \in ImportAdmin : session[a].step \in {"insert", "commit"}
                  THEN mishaps \cup {"late"} ELSE mishaps
    /\ UNCHANGED <<batch, importJob, task, targets, starter, session, trouble>>

\* startImportCommitAction: with no blocked rows createCommitJobsForAcceptedRows reads the
\* entity types of the accepted rows (three queries, taken as one) ...
ReadAccepted(a) ==
    LET types == {r[1] : r \in {q \in RowId : importRow[q] = "accepted"}} IN
    /\ session[a].step = "idle"
    /\ \A r \in RowId : importRow[r] # "blocked"
    /\ batch = "needs_review" /\ types # {}
    /\ session' = [session EXCEPT ![a] = [NoSession EXCEPT !.step = "insert", !.types = types]]
    /\ UNCHANGED <<batch, importJob, task, importRow, targets, starter, mishaps, trouble>>

\* ... creates the jobs that are not there ...
InsertJobs(a) ==
    LET new == {t \in Commits(session[a].types) : importJob[t] = "none"}
        jobs == [t \in TaskId |-> IF t \in new THEN "queued" ELSE importJob[t]]
        returned == [t \in TaskId |-> IF t \in Commits(session[a].types) THEN jobs[t] ELSE "none"]
    IN  /\ session[a].step = "insert"
        /\ importJob' = jobs
        /\ session' = [session EXCEPT ![a] =
               [NoSession EXCEPT !.step = "commit", !.ready = Ready(returned)]]
        /\ UNCHANGED <<batch, task, importRow, targets, starter, mishaps, trouble>>

\* ... takes the batch if it is still in review ...
SetCommitting(a) ==
    /\ session[a].step = "commit"
    /\ \/ /\ batch = "needs_review" /\ batch' = "committing"
          /\ session' = [session EXCEPT ![a].step = "enqueue"]
       \/ /\ batch # "needs_review"
          /\ session' = [session EXCEPT ![a] = NoSession]
          /\ UNCHANGED batch
    /\ UNCHANGED <<importJob, task, importRow, targets, starter, mishaps, trouble>>

\* ... and queues what is ready of the jobs it got back.
EnqueueCommits(a) ==
    /\ session[a].step = "enqueue"
    /\ task' = Added(task, Commits(session[a].ready))
    /\ session' = [session EXCEPT ![a] = NoSession]
    /\ UNCHANGED <<batch, importJob, importRow, targets, starter, mishaps, trouble>>

EnqueueFails(a) ==
    /\ Troubled
    /\ session[a].step = "enqueue"
    /\ session' = [session EXCEPT ![a].step = "fail"]
    /\ \E ts \in SUBSET Commits(session[a].ready) : task' = Added(task, ts)
    /\ UNCHANGED <<batch, importJob, importRow, targets, starter, mishaps>>

CommitFailed(a) ==
    /\ session[a].step = "fail"
    /\ session' = [session EXCEPT ![a] = NoSession]
    /\ batch' = "commit_failed"
    /\ UNCHANGED <<importJob, task, importRow, targets, starter, mishaps, trouble>>

\* The request dies, or a statement of it fails before the batch is taken.
SessionDies(a) ==
    /\ Troubled
    /\ session[a].step # "idle"
    /\ session' = [session EXCEPT ![a] = NoSession]
    /\ mishaps' = IF session[a].step \in {"enqueue", "fail"} THEN mishaps \cup {"lost"} ELSE mishaps
    /\ UNCHANGED <<batch, importJob, task, importRow, targets, starter>>

-----------------------------------------------------------------------------
(***************************************************************************)
(* processImportReviewJob, statement by statement.                         *)
(***************************************************************************)
OnlyTask(t, fields) ==
    /\ task' = [task EXCEPT ![t] = fields]
    /\ UNCHANGED <<starter, session, trouble>>

Mark(t, status) == importJob' = [importJob EXCEPT ![t] = status]

MarkRunning(t) ==
    /\ task[t].step = "waiting"
    /\ Mark(t, "running")
    /\ OnlyTask(t, [task[t] EXCEPT !.step = "work"])
    /\ UNCHANGED <<batch, importRow, targets, mishaps>>

\* scan...Partition: what the provider has now and is not staged yet.
StageRows(t) ==
    /\ t[1] = "scan" /\ task[t].step = "work"
    /\ \E found \in SUBSET {r \in RowId : r[1] = t[2] /\ importRow[r] = "absent"} :
          importRow' = [r \in RowId |-> IF r \in found THEN "staged" ELSE importRow[r]]
    /\ OnlyTask(t, [task[t] EXCEPT !.step = "complete"])
    /\ UNCHANGED <<batch, importJob, targets, mishaps>>

\* Variant: one attempt late.
FinalAttemptLate(t) == task[t].attempt > Attempts

\* isFinalAttempt.
FinalAttempt(t) == task[t].attempt >= Attempts

\* Variant: the rows of the entity, whatever their status.
RowsOfEntity(e) == {r \in RowId : r[1] = e /\ importRow[r] # "absent"}

AcceptedRows(e) == {r \in RowId : r[1] = e /\ importRow[r] = "accepted"}

\* commitAcceptedRowsForEntity reads the rows ...
ReadRows(t) ==
    /\ t[1] = "commit" /\ task[t].step = "work"
    /\ OnlyTask(t, [task[t] EXCEPT !.step = "rows", !.todo = AcceptedRows(t[2])])
    /\ UNCHANGED <<batch, importJob, importRow, targets, mishaps>>

\* ... and commits each in a transaction of its own, without reading it again ...
CommitRow(t, r) ==
    /\ task[t].step = "rows" /\ r \in task[t].todo
    /\ targets' = [targets EXCEPT ![r] = @ + 1]
    /\ importRow' = [importRow EXCEPT ![r] = "committed"]
    /\ OnlyTask(t, [task[t] EXCEPT !.todo = @ \ {r}])
    /\ UNCHANGED <<batch, importJob, mishaps>>

\* ... or not: only the last attempt marks the row (rows of the entities that need a
\* mapping as blocked, here the same).
RowFails(t, r) ==
    /\ task[t].step = "rows" /\ r \in task[t].todo
    /\ importRow' = IF FinalAttempt(t)
                    THEN [importRow EXCEPT ![r] = "commit_failed"] ELSE importRow
    /\ OnlyTask(t, [task[t] EXCEPT !.todo = @ \ {r}, !.erred = TRUE])
    /\ UNCHANGED <<batch, importJob, targets, mishaps>>

\* What the queue makes of an attempt that threw.
Thrown(t) == IF task[t].attempt < Attempts
             THEN [NoTask EXCEPT !.step = "waiting", !.attempt = task[t].attempt + 1,
                                 !.again = task[t].again]
             ELSE [NoTask EXCEPT !.step = "ended"]

RowsDone(t) ==
    /\ task[t].step = "rows" /\ task[t].todo = {}
    /\ OnlyTask(t, IF ~task[t].erred THEN [task[t] EXCEPT !.step = "complete"]
                   ELSE IF FinalAttempt(t) THEN [task[t] EXCEPT !.step = "fail"]
                   ELSE Thrown(t))
    /\ UNCHANGED <<batch, importJob, importRow, targets, mishaps>>

MarkCompleted(t) ==
    /\ task[t].step = "complete"
    /\ Mark(t, "completed")
    /\ OnlyTask(t, [task[t] EXCEPT !.step = "advance"])
    /\ UNCHANGED <<batch, importRow, targets, mishaps>>

MarkFailed(t) ==
    /\ task[t].step = "fail"
    /\ Mark(t, "failed")
    /\ OnlyTask(t, [task[t] EXCEPT !.step = "advance"])
    /\ UNCHANGED <<batch, importRow, targets, mishaps>>

\* What is left after the batch was advanced.
Advanced(t) ==
    IF task[t].erred \/ task[t].caught \/ t[1] = "scan" THEN [NoTask EXCEPT !.step = "ended"]
    ELSE [task[t] EXCEPT !.step = "enqueue", !.next = "draft"]

\* advanceImportBatchAfterJob reads the batch and the jobs ...
AdvanceBatch(t) ==
    /\ task[t].step = "advance"
    /\ OnlyTask(t, IF NextBatchStatus(t[1]) = batch THEN Advanced(t)
                   ELSE [task[t] EXCEPT !.step = "write", !.next = NextBatchStatus(t[1])])
    /\ UNCHANGED <<batch, importJob, importRow, targets, mishaps>>

\* ... and writes the status without asking whether it is still the one it has read; it
\* is astray when the batch is not in the phase of the job.
WriteBatch(t) ==
    /\ task[t].step = "write"
    /\ batch' = task[t].next
    /\ mishaps' = IF batch = (IF t[1] = "scan" THEN "scanning" ELSE "committing")
                  THEN mishaps ELSE mishaps \cup {"astray"}
    /\ OnlyTask(t, Advanced(t))
    /\ UNCHANGED <<importJob, importRow, targets>>

EnqueueReady(t) ==
    /\ task[t].step = "enqueue"
    /\ task' = [Added(task, Commits(Ready(importJob))) EXCEPT ![t] = [NoTask EXCEPT !.step = "ended"]]
    /\ UNCHANGED <<batch, importJob, importRow, targets, starter, session, mishaps, trouble>>

-----------------------------------------------------------------------------
\* A statement fails, or the queueing after some of the jobs.  The last attempt goes on
\* in its catch block; there the failure is the end, whatever the row of the job says.
WorkerFails(t) ==
    /\ Troubled
    /\ task[t].step \notin {"none", "ended"}
    /\ \E es \in SUBSET {e \in Ready(importJob) : task[t].step = "enqueue"} :
       task' = [Added(task, Commits(es)) EXCEPT ![t] =
           IF FinalAttempt(t) /\ ~task[t].caught THEN [task[t] EXCEPT !.step = "fail", !.caught = TRUE]
           ELSE Thrown(t)]
    /\ mishaps' = IF task[t].caught THEN mishaps \cup {"lost"} ELSE mishaps
    /\ UNCHANGED <<batch, importJob, importRow, targets, starter, session>>

\* The worker dies: the queue gives the job out once more, but not a second time.
WorkerDies(t) ==
    /\ Troubled
    /\ task[t].step \notin {"none", "waiting", "ended"}
    /\ task' = [task EXCEPT ![t] =
           IF task[t].again THEN [NoTask EXCEPT !.step = "ended"]
           ELSE [NoTask EXCEPT !.step = "waiting", !.again = TRUE, !.attempt = task[t].attempt]]
    /\ mishaps' = IF task[t].again THEN mishaps \cup {"lost"} ELSE mishaps
    /\ UNCHANGED <<batch, importJob, importRow, targets, starter, session>>

-----------------------------------------------------------------------------
WorkerStep(t) ==
    \/ MarkRunning(t)
    \/ StageRows(t)
    \/ ReadRows(t)
    \/ \E r \in RowId : CommitRow(t, r) \/ RowFails(t, r)
    \/ RowsDone(t)
    \/ MarkCompleted(t)
    \/ MarkFailed(t)
    \/ AdvanceBatch(t)
    \/ WriteBatch(t)
    \/ EnqueueReady(t)

StarterStep == StartScanning \/ EnqueueScans \/ ScanFailed

SessionStep(a) ==
    InsertJobs(a) \/ SetCommitting(a) \/ EnqueueCommits(a) \/ CommitFailed(a)

\* What the server does of itself.
ServerStep ==
    \/ \E t \in TaskId : WorkerStep(t)
    \/ StarterStep
    \/ \E a \in ImportAdmin : SessionStep(a)

ImportNext ==
    \/ ServerStep
    \/ StarterFails \/ StarterDies
    \/ \E r \in RowId, status \in {"accepted", "blocked", "rejected"} : Decide(r, status)
    \/ \E a \in ImportAdmin : ReadAccepted(a) \/ EnqueueFails(a) \/ SessionDies(a)
    \/ \E t \in TaskId : WorkerFails(t) \/ WorkerDies(t)

\* Whatever is started goes on, as long as its process lives: the jobs of the queue, which
\* end, and the requests of the admins, which are as few as the times a batch is taken.
ImportSpec == ImportInit /\ [][ImportNext]_importVars /\ WF_importVars(ServerStep)

-----------------------------------------------------------------------------
(***************************************************************************)
(* Properties.                                                             *)
(***************************************************************************)

\* Every variable has the type its column or value has.
ImportTypeOK ==
    /\ batch \in BatchStatus
    /\ importJob \in [TaskId -> {"none", "queued", "running", "completed", "failed"}]
    /\ task \in [TaskId -> Task]
    /\ importRow \in [RowId -> RowStatus]
    /\ targets \in [RowId -> Nat]
    /\ starter \in {"draft", "enqueue", "fail", "done"}
    /\ session \in [ImportAdmin ->
           [step : {"idle", "insert", "commit", "enqueue", "fail"},
            types : SUBSET Entity, ready : SUBSET Entity]]
    /\ mishaps \subseteq {"late", "lost", "astray"} /\ trouble \in 0..MaxTrouble

\* Through retries, deaths of workers and repeated commits, one entity is created from a
\* committed row and none from any other.
CommittedOnce ==
    \A r \in RowId : targets[r] = IF importRow[r] = "committed" THEN 1 ELSE 0

\* Absences and work periods are committed when no accepted row is left of what they
\* refer to, unless a decision fell into the start of a commit or a job wrote the batch
\* out of its phase.
OperationalAfterSetup ==
    [][\A r \in OperationalEntity \X (1..RowsPerEntity), s \in SetupEntity \X (1..RowsPerEntity) :
          targets'[r] > targets[r] /\ mishaps \cap {"late", "astray"} = {} =>
              importRow[s] # "accepted"]_importVars

\* A completed import has committed every accepted row, with the same exceptions.
CompletedLeavesNothing ==
    batch = "completed" /\ mishaps \cap {"late", "astray"} = {} =>
        \A r \in RowId : importRow[r] # "accepted"

\* No import hangs: in the end it is not in a scan or a commit any more, whatever failed,
\* unless a job or request is lost for good or a job wrote the batch out of its phase.
EveryImportEnds ==
    <>[](batch \in {"scanning", "committing"} => mishaps \cap {"lost", "astray"} # {})
=============================================================================
