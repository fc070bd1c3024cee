# A TLA+ model of z8

z8 is a workforce application: time clock, absences, travel expenses, shifts,
approvals, exports. The web application (`src/apps/webapp`, Next.js, Drizzle on
PostgreSQL, Effect, BullMQ on Redis) holds nearly all of its logic; the other
applications are user interfaces over it. These modules model the parts where
several people and processes write the same few rows, most of them without a
lock, many without a transaction:

* **approvals**, and the absences and travel expense claims they decide, with
  the chat bots that decide next to the web application;
* the **work balance**, a materialized sum that many callers invalidate and a batch
  refreshes;
* the **time clock** with its corrections, and the **hash chain** of the time entries;
* **webhook deliveries** and **import batches**, which run in the job queue and
  survive the death of its workers;
* **invite codes** with the members they bring, and **shifts** with the requests to
  swap them;
* **billing**: the subscription row that Stripe's events write, and the seats that are
  reported back.

Paths below are relative to `src/apps/webapp/src` unless they begin with
`src/`.

## 1. Inventory

| Component | State | Operations | Interacts with | What is hard |
|---|---|---|---|---|
| Approval store and policy chains (`lib/approvals/policies/chain-service.ts`, `server/shared.ts`, `db/schema/approval*.ts`) | `approval_request`, `approval_chain_instance`, `approval_chain_stage_instance` | create request or chain from a policy; decide a request; advance, complete or reject the chain | called in the transaction of the entity's own module | two deciders at once; a chain is spread over three tables |
| Approval inbox (`lib/approvals/inbox`) | none of its own | open a request by id, decide it, decide in bulk | reads the store *outside* the transaction, then calls the entity's module | what it read is stale when it decides |
| Travel expense claims (`app/.../travel-expenses/actions.ts`, `server/travel-expense-approvals.ts`) | `travel_expense_claim`, `travel_expense_decision_log`, notifications | draft, submit, decide by claim id or from the inbox, notify the requester | store, inbox, notification queue | deciding once; notifying after the commit |
| Absence requests (`app/.../absences`, `server/absence-approvals.ts`) | `absence_entry`, `time_record` | request, automatic approval, decide, cancel | store, inbox, time records, calendar and balance jobs | cancellation and automatic approval run without a transaction |
| Sick override of vacations (`lib/absences/sick-vacation-override.ts`) | the same rows | cover, shorten or split vacations a sick absence overlaps | absences, store | writes by a status it read before |
| Chat bots (`lib/{teams,slack,telegram,discord}`) | escalation rows, cards in the chat | escalate an undecided request, decide by a click on a card, clock in and out | write requests, absences and periods by id | no transaction, no chain, next to the web decisions |
| Time correction approvals (`server/time-correction-approvals.ts`, `actions/corrections.ts`) | `approval_request`, work periods, time entries | ask for a correction or a deletion, decide it | store, inbox, time clock | an entry corrected again meanwhile |
| Time clock (`app/.../time-tracking/actions`, `app/api/time-entries`) | `work_period`, `time_entry` | clock in, clock out, break, manual entry, split, edit, break rule | hash chain, approvals, balances | four kinds of client; only the API takes a lock; entry and period are separate statements |
| Time entry hash chain (`lib/effect/services/time-entry.service.ts`, `lib/time-tracking/blockchain.ts`) | `time_entry.hash`, `previous_hash`, `created_at` | append one entry or two, verify | time clock | read of the last hash and insert are not atomic; "last" is by a time that can repeat |
| Work balance (`lib/work-balance`, `lib/jobs/work-balance.ts`) | balance rows with `dirtyFromDate` | mark dirty, batch refresh, rebuild | time clock, absences, job queue | a mark set while a refresh runs |
| Job queue and cron (`lib/queue`, `worker.ts`, `lib/cron`) | BullMQ jobs, `cron_job_execution` | enqueue, process, retry, give a stalled job out again, reconcile schedules | all background jobs | retries, overlapping runs, lost jobs |
| Webhooks (`lib/webhooks`) | `webhook_endpoint`, `webhook_delivery`, jobs | publish, deliver, retry, disable a failing endpoint | job queue | a death between database and queue; a counter read and written apart |
| Import review (`app/.../settings/import/review-actions.ts`, `lib/import-review`) | `import_batch`, `import_batch_job`, staged rows, jobs | scan, decide rows, commit by groups, retry, complete | job queue, the entities it creates | a batch advances when its *last* job ends; rows decided while a commit starts |
| Exports (`lib/scheduled-exports`, `lib/payroll-export`, `lib/jobs/export-processor.ts`) | schedules, executions | select due work, execute, deliver | job queue, storage, mail | two runs select the same schedule |
| Shifts and shift requests (`lib/effect/services/*shift*`) | shifts, requests | plan, publish, delete, request swap or pickup, approve, assign | notifications | check and assignment in separate statements |
| Invite codes and pending members (`lib/effect/services/{invite-code,pending-member}.service.ts`) | codes with a use counter, usage rows, members, employees | redeem, approve or reject a member, set a limit, close | seats, membership | the last use redeemed twice; no unique key on members or decisions; members the code approved can be rejected |
| Billing (`lib/effect/services/billing`, `lib/billing`, `app/api/billing`, `lib/jobs/billing-seat-reconciliation.ts`) | `subscription`, `stripe_event` | start a trial, check out, process an event, sync the seats, reconcile hourly | Stripe, members | events come again and in any order; syncs overlap; a half of a sync fails |
| SCIM provisioning, calendar synchronisation | own tables, external services | see their sources | external services | mostly the external side |
| Regulations, surcharges, reports | none | arithmetic over dates | time clock | boundaries of dates; better reached by unit tests |

What makes each component correct, in one sentence each:

* **Store and chains**: a submitted entity has exactly one open request; under a
  policy it is that of the current stage; all stages consent before the entity
  is approved; a refusal ends it.
* **Inbox**: whoever decides a stage was entitled to decide *that* stage, however
  old the list he clicked in.
* **Claims**: one decision, one log row with that decision, no notification of
  another.
* **Absences**: absence and time record agree; what was cancelled or rejected
  does not come back; an approved absence asks nobody.
* **Override**: a vacation that was covered asks nobody and cannot be approved.
* **Bots**: a click closes a request once and leaves the policy's record
  truthful; an escalation hands the request to somebody who can decide it.
* **Hash chain**: one successor per entry, so that verification never fails on
  entries nobody touched.
* **Clock**: one open period per employee where the lock is taken; an entry that
  waits for approval counts nowhere; a closed period has exactly its two entries.
* **Balances**: a mark is removed only by a refresh that recomputed from it.
* **Webhooks, exports, jobs**: everything accepted is eventually delivered or
  recorded as failed; nothing due is executed twice.
* **Imports**: one entity from each committed row, what others refer to first, and
  no batch that is "committing" for ever.
* **Shifts, invites**: one assignee per shift, who got it from an approved request
  or a manager; no more uses than allowed, and a member for every use.
* **Billing**: access as Stripe has it, if events are taken in turn, however often each is
  repeated; the seats that are paid are, after a while, the members that count.

The hazards, each at its line, are in `PROJECT.json`.

## 2. Modules

```
SequentialApproval           what a policy promises (abstract specification)
      ^ PromiseSpec
ApprovalStore                the three tables and the statements on them
  ├─ ApprovalStoreProofs     lemmas about the statements
  └─ ApprovalInbox           sessions that read first and decide later
       ├─ TravelExpense      claims: submit, decide, log, notify
       │    ├─ TravelExpenseProofs     theorems (and ApprovalStoreProofs)
       │    └─ MCTravelExpense         TLC
       └─ AbsenceRequests    absences: decide, cancel, auto-approve, override
            ├─ MCAbsenceRequests       TLC
            └─ ChatApproval  the same with escalation and card clicks
                 ├─ AbsenceProofs      theorems about both (and ApprovalStoreProofs)
                 └─ MCChatApproval     TLC

WorkBalance                  one balance: marks, rebuilds, the batch's refreshes
  ├─ WorkBalanceProofs       theorems
  └─ MCWorkBalance           TLC

TimeEntries                  the hash chain           ─┬─ TimeTrackingProofs
TimeClock                    periods and corrections  ─┘
WebhookPromise               what a delivery is promised (abstract specification)
      ^ DeliveriesAsPromised
WebhookDelivery              deliveries and their jobs ─┬─ JobQueueProofs
ImportReview                 one batch and its jobs    ─┘
InviteCodes                  a code and its members    ─┬─ MembersAndShifts ── MembersAndShiftsProofs
ShiftRequests                a shift and its requests  ─┘
Billing                      row, events and seats
  └─ MCSideBySide            TLC: the seven above, which share no state
       └─ SideBySideProofs   theorems about Billing and about the seven together;
                             extends the three modules of proofs above
MCTimeEntries                TLC: the chain alone
```

`TimeEntries` and `TimeClock` write the same table. The clock's actions append
entries and care which entries a period points at; the chain cares in which
transaction an append reads its predecessor. Neither reads what the other one
writes, which is why they are two modules.

**Approvals.** `request[r]`, `chain[e]` and `stage[e][s]` are the
rows of the three approval tables. An entity is submitted once, so its chain is
indexed by the entity. A waiting stage has the status `"cancelled"`, as the code
inserts it (`chain-service.ts:787-877`). Row ids are random UUIDs in the code: an insert
takes any unused id, which is why ids are symmetric in the TLC models.
`claim[e]`, `absence[e]`, `canonical[e]` are the status columns of the claim, the
absence and its time record; `decisionLog` and `notified` are the log rows and
the notifications of a claim; `escalated` and `card` are the bots' escalation
rows and the cards sent. `session[x]` is one running server call with what it
has read so far: its existence is what makes a stale read possible in the model.

**Work balance.** `row` is the `employee_work_balance` row and `bucket` the closed
monthly rows of `employee_work_balance_period`; `caller[c]` is a server call that
has changed time data and still owes its mark, `worker[x]` a refresh and what it has
read. Each employee is refreshed in a transaction under a lock of its own, so one
employee stands for all. Dates are months, as the tiers are. Minutes are versions:
`source[m]` counts the changes of month `m`, and a sum is known by the version of
each month it includes. A timestamp is the set of refreshes that had started
before it, which is all the code compares it with. `missed` is a history variable: the
months of which a change was lost sight of, and the step that lost it (below).

**Time entries.** `entries` are the committed rows in commit order, each with its
predecessor and `created_at`; `append[a]` is a call with what it has read. What differs
between the callers is what surrounds the read and the insert, the *lane*: nothing
(`"plain"`: web actions, break rule, bots), a transaction with one insert or with two,
or a transaction under the advisory lock of the API routes. A hash is the entry
it belongs to: two hashes are equal only if the entries are.

**Time clock.** `period`, `punch` and `correction` are the rows of `work_period`,
`time_entry` and of the approval requests about them, for one employee;
`clockCall[s]` is a call with the period as it read it, the entries it has
inserted and the step it is at. Every statement that stands alone in the code is one
action (`PunchIn`, then `InsertPeriod`; `SplitNotes`, `SplitUpdate`,
`SplitInsert`; ...), so that another call, or the end of the process, fits between any two.

**Webhooks.** `record[d]` is the `webhook_delivery` row of a delivery, `event[d]` how far
the subscriber is with it, `job[j]` the queue's jobs, `endpoint` the row with its
consecutive failures. The subscriber reads the active endpoints (`GetActiveWebhooks`) and
records the delivery afterwards without asking again (`CreateDeliveryRecord`): an endpoint
that is switched off in between gets a delivery, which a worker then refuses. The receiver and BullMQ are external: a send is accepted or
not, and a job whose worker died is given out once more, then dropped
(`Stall`). A worker reads the endpoint (`TakeJob`) and then begins the attempt
(`StartAttempt`) or fails the delivery (`RefuseDelivery`), so that the endpoint may be
switched in between. The statements after a send are a step each: outcome, counter,
check, disable, retry. `deaths[d]` counts the workers that died on a job of `d`.

**Imports.** `batch`, `importJob[t]` and `importRow[r]` are the three status columns,
`task[t]` the job's place in the queue and what its worker has read, `session[a]` an
admin's call of the commit action, `starter` the call that begins the scan. `targets[r]`
counts the entities created from a row.

**Invites.** `code` is the row, `joined` the member rows with their usage rows,
`pendingCode` the users who must verify their address first, `joinCall[a]` and
`review[v]` the calls of users and admins. **Shifts.** `shift` is the row, `wish` its
requests, `shiftCall[s]` the calls.

**Billing.** `billingRow` is the `subscription` row of one organization, `processed` the
`stripe_event` rows that are marked, `sync[c]` a delivery or a seat sync with what it
has read. Stripe is external: `account[s]` is its subscription, `sent` the events in the
order of what they report. Any event may be taken again until it is marked, also while
another delivery of it is at work, since the row that is inserted at the start
(`billing-events.service.ts:701`) stops nobody and the mark comes last (`:774`). Seats are
the *approved* members without demo users, as `seat-sync.service.ts` counts them; the local
trial and the checkout count all members (`StartTrial`, `OpenCheckout` choose any number
from the billable ones on). The billing documentation speaks of active employees, but
nothing in the count looks at an employee row, and deactivation is not modelled. An event carries the status as it was when it was sent, but the handler
of a completed checkout fetches the subscription (`FetchSubscription`), and those of
invoices write a status of their own (`StatusOf`). The status `"past_due"` stands for
each that denies access to a subscription that lives.

**Correspondence of steps.** An action is what the database makes atomic.

* A *transaction* is one step when its first write is a conditional `UPDATE` that
  locks the row it decides on: the decision of a request (`updatePendingApprovalRequest`
  with `status = 'pending'`), and the submission of a claim. A conflict or a
  failed check rolls back and is a call that ends in `Abandon`.
* Reads *before* a transaction are a step of their own. The inbox loads the request
  by id (`Open`), then decides (`CommitInbox`). When the caller is the approver of
  the row he opened, the code passes no request id on and looks the request up by
  entity and caller inside the transaction (`LoadPending`).
* Code *without* a transaction is one step for each statement: the three `DELETE`s
  of a cancellation in any order, the two statements of an automatic approval,
  the insert, update and card of an escalation, the two `UPDATE`s of a click, and
  nearly everything in the clock, the imports, the invites and the shifts.
* The override runs in a transaction that locks nothing a decision locks, so it is
  its read and its write; its `UPDATE` of the open requests may miss a row inserted
  while it waits for a lock (READ COMMITTED), which `Cover` offers as a choice.
* The mark of a balance is two steps, because the call takes its time first and
  writes it later; the batch is six for each employee: list, take the start time,
  wait for the lock, compute the closed months, compute the hot window, and the
  write with the commit.
* A call that fails, or whose process dies, between any two steps is `Abandon`
  (approvals), `ForgetMark` and `Fail` (balance), `GiveUp` (chain), `Die` (clock),
  `Break`, `Stall` and `LoseEvent` (webhooks), `WorkerFails`, `WorkerDies`,
  `StarterFails`, `StarterDies`, `EnqueueFails` and `SessionDies` (imports),
  `InviteCallDies`, `ShiftCallDies` and `BillingFails`.

**History variables.** Some promises hold only for calls that do not meet. Those
properties name their exception by a variable that no action reads: `disturbed`
(two appends overlapped, or met in a way the lock does not order), `unsettled` and `entangled` (calls
of a clock or a shift overlapped or died halfway), `tangled` (calls of a code overlapped),
`unhired` (users whose approval died between its two rows), `keptOn` (users rejected after
the code itself had approved them), `crossed` (`"early"`: an event of Stripe was taken before
an earlier one was processed; `"late"`: while a delivery of another one was at work), `mishaps`, `lost`, `deaths`, `turnedAway` and
`missed`. Each is set by the step in which it happens.

Definitions introduced by the comment "Variant:" are deliberately wrong forms of
the operator that follows them (a dropped guard, a missing write). No
specification uses them. Each shows that a property discriminates: with the
variant in place of the operator the property fails.

## 3. Runs

| Run | Question | Result |
|---|---|---|
| `travel` | Do claims keep their promises with two calls at a time? | holds (72,885 states) |
| `absences` | Do absences, with cancellation, automatic approval and override statement by statement? | holds (977,349 states) |
| `chat` | What survives escalation and clicks next to web decisions? | holds (360,606 states) |
| `work_balance` | Do marks, rebuilds and overlapping refreshes keep the balance sound, and does an old balance say that it is old, and is every mark served? | holds (1,076,290 states) |
| `side_by_side` | Do the chain, the clock, webhooks, imports, invites, shifts and billing keep theirs, each by itself, with two calls at a time and deaths at any step? | holds (638,333 states) |
| `stale_click` | "Stale stage approvals return conflict errors" | violated |
| `cancel_requests` | Cancellation "deletes any related approval request" | violated |
| `overridden_vacation` | The override removes "any related approval request" | violated |
| `chat_bypass` | "If no stages remain, the chain is marked approved and the … final approval side effects run" | violated |
| `lost_mark` | "Keep dirty state when a newer refresh request arrives while a worker is processing" | violated |
| `month_boundary` | "At month boundary, close the month that just left the hot window" | violated |
| `entry_order` | "all links are valid" in the chain of time entries | violated |

A behaviour of `side_by_side` is one of a single component: the seven share no state,
so that their composition would only multiply the states of one by those of the others.

### What holds

Approvals:

* `OneStageOpen`, `DecidedByItsStages`: a claim is never stuck, never open twice, not
  open once it is decided, and never decided without its stages.
* `LoggedOnce`, `DecisionsAreFinal`: no interleaving decides a claim twice or
  changes a decision.
* `StageDecidersEntitled`: even a stale call decides only stages its caller may
  decide. It is not obvious, because entitlement is checked against the row read
  before the transaction.
* `NotifiedOfTheDecision`: the notification follows the commit and reads again.
* `PromiseSpec`: the claim implements `SequentialApproval`, the in-memory form of
  the policies that the code keeps beside the database one.
* `RecordAgrees`, `ApprovedByAllStages` (and no stage is still asked), `RejectedIsFinal`,
  `CancelledStaysCancelled` for absences. `RecordAgrees` excludes the absences
  that need no approver: between the two statements of their approval the row
  and the time record differ by design of the code.
* `ChainApprovedByItsStages`, `BypassedChainIsFrozen`, `DecidedRequestStaysClosed`
  are what is left of these in an organization with a bot.

Work balance:

* `BalanceIsCurrent`: each month that the row claims counts its source rows as they are, or
  the row asks for it, or a call has still to ask. It is what the three steps of a call
  (change, timestamp, mark) and the six of a refresh are for, in whatever order they
  meet. The months in `missed` are excepted, and a month gets there in one of six ways only:
  the call dies before its mark (`ForgetMark`); the mark names no date, as the
  organization's does, and the row keeps a later one or does not exist
  (`NotAskedFor`); a dated mark makes the row, which then claims months before the
  date that nobody computes (`NotCounted`); a slow call writes an older
  timestamp over a newer one (`ToldTooEarly`); a refresh clears a mark without having
  computed its months, or leaves a month that left the hot window in no tier
  (`PassedOver`, the causes of `lost_mark` and `month_boundary`). Each is needed: without
  any one of them TLC finds a balance that is old with nothing to say so (for
  `ToldTooEarly` with two callers). A requested rebuild ends all of them, and so does
  every refresh for the months it counts right.
* `ReadModelIsItsTiers`: a clean balance counts each closed month as its period row
  does, although refreshes overlap and resets delete the period rows.
  `HotWindowNeverOlder`: a refresh that was delayed does not put an older reading of
  the hot window over a newer one. Both rest on the advisory lock.
* `ResetEndsInFullRebuild`: marks with a date that come after a requested rebuild do
  not turn it into a partial refresh.
* `EveryMarkServed` (liveness): a dirty row is clean again at some time.

Time entries and clock:

* `UndisturbedChainValidates`: calls that come one after the other, or queue for the
  advisory lock in the order they began in, keep the chain whole, as long as no call reads
  right after a pair. This names exactly what the chain does not survive.
* `OneOpenUnderLock`: the API never opens two periods. It checks and inserts under
  one lock; the browser and the bots take none, so the property is about the
  API's periods.
* `ActiveHasNoEnd`: no write by a stale reading makes a closed period active again or
  puts an end on one that stays active, although every close, split and edit writes by id.
* `UnapprovedNeverCounts`: an entry that waits for approval, or was refused, is neither
  live nor part of a period, whatever is edited, split or approved next to it.
* `SettledPeriodsSound`: calls that come one after the other leave at most one period
  open, and each live entry in exactly one period.

Webhooks and imports:

* `FailedAfterAllAttempts`: whatever dies, a delivery is given up only after all attempts
  or because its endpoint was off.
* `DeliveriesAsPromised`: deliveries implement `WebhookPromise`. A delivery is recorded only
  for an event that found the endpoint on, though the endpoint may be off by then. A recorded success was
  accepted by the receiver; a delivery is sent at most `MaxAttempts` times, and as often
  again for each worker that died on it; and as long as none did, nothing is sent or
  written once it has ended, whatever happens to the other deliveries of the endpoint.
* `EveryQueuedDeliveryEnds` (liveness): a queued delivery ends, also when its worker dies,
  unless the queue drops the job.
* `CommittedOnce`: one entity from each committed row and none from another, through
  retries, dying workers and repeated commits. It rests on the transaction of
  `committers.ts`, which creates the entity and marks the row in one.
* `OperationalAfterSetup`: absences and work periods are committed after what they refer
  to; `CompletedLeavesNothing`: a completed batch has no accepted row left. Both
  exclude decisions made while a commit starts, and jobs that write the batch out of
  its phase, which are among the hazards.
* `EveryImportEnds` (liveness): a batch does not stay in a scan or a commit.

Invites and shifts:

* `UsesAddUp`: a code has a use for each member, and exceeds its limit by no more than
  the calls that can run next to each other. `Redeem` asks nothing again, so the limit
  itself does not hold; the bound is the sharpest that does.
* `SettledAgree` joins two promises about what calls leave behind once none is at work.
  `SettledMembersAgree`: whatever overlapped or died, a user with a membership that the code
  or an admin approved is an employee, unless his approval died between the approval row and
  the employee row (`unhired`). If no two calls overlapped, deaths or not, he has one
  membership and one employee row at most, and an employee row only with an approved
  membership or when he was rejected after the code itself had approved him (`keptOn`). That
  exception is in the code and takes no second call: the list of pending members holds every
  use of a code without an approval row (`pending-member.service.ts:227`), also of codes that
  need no approval; a rejection deletes the member (`:464`), and the employee row of
  `invite-code.service.ts:714` stays active. What calls that *do* overlap may leave behind is
  a limit of the code too: two memberships from two redemptions, which both find the user no
  member yet (`invite-code.service.ts:662`), and an employee without a membership from an
  approval and a rejection, which both find no decision (`pending-member.service.ts:292`).
  `SettledShiftsAgree`: after calls that came one after the other, whoever got a shift by a
  request has an approved one, nobody waits twice or to pick up a shift that is taken, and a
  shift that is not published has no requests.

Billing:

* `AccessFollowsStripe`: when all events are processed, each taken after the earlier ones
  were and while no delivery of *another* event was at work, the row is that of the last
  checkout and grants access exactly if Stripe's subscription does. It covers an event that
  is repeated as often as Stripe likes, also by deliveries of it that overlap, and whatever
  failed between the statements. It rests on the mark being the last statement, on handlers
  that can be repeated, and on the check that refuses what is marked: an event that is
  applied again after later ones would undo them. The two exceptions are limits of the code.
  *Early*: no handler compares the times of events, so that an `updated` event taken after a
  `deleted` one grants access again. *Late*: a repetition that is let in before its event is
  marked, and is slow, writes its status after a newer event was written and marked, and
  nothing corrects it. The check at the start of `processEvent`
  (`billing-events.service.ts:672`) does not cover that, although `docs/refs/billing-stripe.md:28`
  asks for idempotency "via persisted Stripe event records". Both are among the hazards.
* `SeatsSettle` (liveness): when members stop coming and going, row and subscription get
  the right number and keep it, although syncs overlap (an older count can be
  written last), their second half can fail, and a checkout brings a quantity of its
  own. The hourly job is what brings it about, which is why it must not skip
  organizations without access.

### What does not

* `stale_click`: a call on a request that was decided meanwhile does not conflict
  when its caller is also the approver of the next stage: it decides that stage
  (a double click passes two stages).
* `cancel_requests`: the chain's foreign key blocks the `DELETE` of the requests,
  and the other two `DELETE`s have happened: the approver keeps a request for a
  vacation that is gone.
* `overridden_vacation`: a decision that is being committed while the override
  runs leaves the next stage's request pending on the rejected vacation, with
  which the vacation can still be approved.
* `chat_bypass`: a click sets the absence and knows no chain: the absence is
  approved although later stages were never asked. `ApprovedByAllStages` is for
  this reason not among the properties of `chat`.
* `lost_mark`: the batch lists `dirtyFromDate`, then takes the start time of the
  refresh. An earlier date marked between the two counts as older than the refresh,
  which therefore removes it, but starts at the date it was listed with.
* `month_boundary`: a row that is clean and merely stale is refreshed from the hot
  window on. The month that has just left it is materialized by nobody and is
  missing from the balance until an older mark or a rebuild.
* `entry_order`: a single caller breaks the chain. The two entries of a break have the
  creation time of their transaction, which is the same, so the next entry may link to
  the first of them and two entries have one predecessor.

### Bounds, and why they are enough

* Two concurrent calls (`Session`, `Appender`, `Clocker`, `JoinCall`, `Review`,
  `ShiftCall`). Every race in this code is between two
  calls: each call holds at most one stale read of a row, and decisions serialize on the
  request's row. The theorems (section 4) remove this bound and the others below from all
  safety properties.
* `travel`: one claim, policies of up to three stages (first, middle and last
  differ; a fourth adds another middle), three request ids (one for each stage),
  three employees: two eligible managers and an admin who is none. Calls on
  different claims share no row. The theorems cover any number of each.
* `absences`: one vacation and one id for the segment a split leaves behind, up
  to two stages, three requests (two stages and a copy). The employees are
  interchangeable, hence the larger symmetry.
* `chat`: one vacation, one platform that reassigns (Teams; its checker does
  everything the others do and the reassignment besides). With two platforms the
  same properties hold in 3.8 million states; the run is kept small.
  `chat_bypass` has two platforms and one call at a time: it needs no race.
* `work_balance`: a hot window of one month and one month that is closed when the
  clock moves (or from the start, as `Init` chooses the month); a longer window
  only adds months that are treated alike. Two refreshes, which is what overlaps
  (the lock admits one at a time, and a third could only wait too); one caller, which
  makes its changes in turn; two changes or requested rebuilds; one failure. Two
  callers do not end within the time of a run; `BalanceIsCurrent` is proved for any
  number. The two
  violations have three months, one refresh and one caller: neither needs a race of
  refreshes.
* `side_by_side`, chain: two callers in any lanes and three timestamps, enough for
  a pair, an entry that links to it and a third that overlaps. `entry_order` has one caller.
* `side_by_side`, clock: three calls on up to three periods. `ClockInit` starts with
  nothing, an open period, a closed one or one with a correction that waits, so
  that three calls reach a split and an edit of a corrected period.
* `side_by_side`, webhooks: two deliveries, two attempts (6 in the code: what matters is a
  first and a last one), an endpoint disabled after two failures (10 in the code: here
  one delivery reaches it alone, or two together, and a success in between resets the
  count), two jobs at a time; one delivery of the two has a worker that dies, or an admin
  switches the endpoint once.
* `side_by_side`, imports: an entity type of either group with one row each, one
  admin, two attempts (three in the code: first and last), one failure or death.
* `side_by_side`, invites: two users, two calls of theirs and two of admins at a time,
  three in all, a limit of one or two, where calls overlap only if the limit was never two
  (otherwise they come one after the other, but may die). Shifts: two employees, two calls at a time, three in all.
* `side_by_side`, billing: two instances. In the one for access: two subscriptions (one
  that replaces another), three events (a checkout, a change, and one more), two
  deliveries at a time, one failure, no seats that change; behaviours end where an event
  would be taken out of turn, as the property claims nothing afterwards. In the one for
  seats: one subscription, two members at most, two moves, two events in any order, one
  failure, and one call at a time next to the hourly job. `AccessFollowsStripe` is proved for
  any of these numbers.
* `SideNext` restricts the combinations, to keep the run within minutes: no
  switch and death in one behaviour of webhooks, no late decision and failure in one
  of imports, the third call of a clock, code or shift waits for the first two if they
  overlapped (or, for the clock and the shift, died), and in the instance for seats nothing
  fails when events were taken out of turn. Without these restrictions, and with larger
  constants, the same properties were checked once and hold: the clock in
  318,069 states, imports in 354,000 (and with two admins, without failures, in 322,000),
  shifts in 48,928, and access in 485,212 (there events are taken out of turn too, after which
  Stripe changes nothing more and nothing fails).
* Deadlock is not checked: when all entities are decided or cancelled, all calls made
  and all jobs done, the system has nothing left to do, and when the balance is clean
  and the month does not change the batch lists nobody.

### Fairness

*Approvals, chain, clock, invites, shifts*: none. People act or do not, a call can die at
any step, and nothing retries it, so no step is guaranteed to happen, and all their
properties are safety properties.

*Work balance*: weak fairness of listing a row that needs a refresh, because the
scheduler runs the batch every three hours (`lib/cron/registry.ts:331`), and of the
next step of a refresh that runs, because it waits for nothing but the lock, whose
holder ends or fails. Nobody is obliged to change, mark or rebuild anything, and the
month need not move. `EveryMarkServed` holds with finitely many failures and
changes, which the bounds provide: employees who are changed during every single
refresh, or whose refresh always fails, are promised nothing by the code either.

*Webhooks and imports*: weak fairness of a worker step (`WorkOnSomeJob`) and of a step
of the server (`ServerStep`). `worker.ts` keeps a BullMQ worker on each queue, which
takes a waiting job whenever it has a slot and runs it to its end; for imports also the
calls that admins started go on as long as their process lives. One condition for all jobs
is enough because there are finitely many steps of theirs. It is an assumption about
processes that live: they may die at any step, as often as the bounds allow. Nobody is
obliged to decide rows, start a commit, publish an event or switch an endpoint, and no
send is obliged to succeed.

*Billing*: weak fairness of the hourly job (`Reconcile`), which the cron registry schedules
(`lib/cron/registry.ts:255`) and which waits for nobody. Stripe is not obliged to deliver
anything: `AccessFollowsStripe` speaks of the moment when it has.

## 4. Proofs

Every safety invariant and every action property that a passing run checks is also a
theorem of its component's specification, for every value of the constants: any number of
claims, absences, employees, calls, months, deliveries, rows, users, and any bound. The
only assumptions are those that the modules name about their constants. The specification
is the component's own (`Spec`, `ChainSpec`, `ClockSpec`, ...), so that none of the
restrictions of `SideNext` is assumed. Only `SideTypeOK`, which belongs to the combination
itself, is proved of `SideSpec`.

| Module | Theorems | For any number of |
|---|---|---|
| `ApprovalStoreProofs` | lemmas only: types and shape of the store | entities, requests, employees, stages |
| `TravelExpenseProofs` | all invariants and action properties of `travel`, and `PromiseSpec` | claims, requests, employees, calls, stages |
| `AbsenceProofs` | all properties of `absences` (`TypeOK`, `RecordAgrees`, `ApprovedByAllStages`, `RejectedIsFinal`, `CancelledStaysCancelled`) and of `chat` (`ChatTypeOK`, `ChainApprovedByItsStages`, `BypassedChainIsFrozen`, `DecidedRequestStaysClosed`); `RejectedAsksLaterStages`, which bounds what `overridden_vacation` shows | absences, requests, employees, calls, stages, platforms |
| `WorkBalanceProofs` | `TypeOK`, `ReadModelIsItsTiers`, `BalanceIsCurrent`, `HotWindowNeverOlder`, `ResetEndsInFullRebuild` | months, callers, refreshes at a time, changes, failures |
| `TimeTrackingProofs` | `ChainTypeOK`, `UndisturbedChainValidates`; `ClockTypeOK`, `OneOpenUnderLock`, `ActiveHasNoEnd`, `UnapprovedNeverCounts`, `SettledPeriodsSound` | calls, timestamps, periods |
| `JobQueueProofs` | `WebhookTypeOK`, `FailedAfterAllAttempts`, `DeliveriesAsPromised` (and `SuccessWasReceived`, which it implies); `ImportTypeOK`, `CommittedOnce`, `CompletedLeavesNothing`, `OperationalAfterSetup` | deliveries, attempts, workers, deaths; entity types, rows, admins, failures |
| `MembersAndShiftsProofs` | `InviteTypeOK`, `UsesAddUp`; `ShiftTypeOK`; `SettledMembersAgree`, `SettledShiftsAgree` and so `SettledAgree` | users, calls at a time, admins, limits; employees |
| `SideBySideProofs` | `BillingTypeOK`, `AccessFollowsStripe`; `SideTypeOK` | subscriptions, events, deliveries and syncs at a time, failures; and what the parts' modules name |

Assumptions that are more than a bound being a number: `StagesAssumption` (a policy may
have a stage), `NoneAssumption`, `NullAssumption`, `SubscriptionAssumption` and part of
`ShiftBounds` (`NULL` is no id and no number), `EmployeeAssumption` (managers and admins
are employees), `SegmentAssumption`, `PlatformAssumption` (subsets of absences and
platforms), `MonthsAssumption` (the hot window has a month), `GroupAssumption` (an entity
type has one dependency group, as `commitDependencyGroup` in
`lib/import-review/repository.ts` gives it),
`InviteCalls` (finitely many calls at a time, without which the bound of `UsesAddUp`
means nothing) and `HourlyAssumption` (the job is not one of the deliveries).

### Travel expense claims

*The inductive invariant* `IInv` is the conjunction of

* `TypeOK`;
* `StoreInv`: `RowInv` (a row that exists has an entity and an approver), and for
  each entity `ChainInv` (stages before the current one approved, the current one in
  the state of the chain and of the claim, later ones waiting without a request),
  `LinkInv` (a stage's request belongs to its entity and approver, and only the
  current stage's can be pending) and `OpenInv` (a draft has no rows, a submitted
  claim one pending request, a decided one none);
* `SessionInv`: a call that has opened a request is entitled to decide it, also
  now;
* `LoggedOnce`, `NotifiedOfTheDecision` and `StageDecidersEntitled`.

It is needed because none of the checked invariants is inductive:
`OneStageOpen` says nothing of which request a *waiting* stage has, and a state in which an old request is linked to a later stage would satisfy it
and break it in the next step. `LinkInv` excludes such states.
`StageDecidersEntitled` needs `SessionInv`, which holds since approvers of rows
never change, and the fact that a call which lost its request only ever finds a
request of *its own* (`LoadPending`).

*The argument*: each statement on the tables (`CreateDefault`, `CreateChain`,
`AdvanceChain`, `FinishApproval`/`FinishRejection`) has one lemma for types
(`…Type`, in `ApprovalStoreProofs`), one for `StoreInv` (`…Inv`) and one for what it leaves alone (`…Keeps`);
`FrameInv` covers the entities a step does not touch. `DecideStep` joins them to
what a decision is: it advances the chain or ends the claim, never both. One lemma
for each action of `Next` then gives `IInv'`. `Finality` and
`ImplementsSequentialApproval` follow from `NextClaims`, the only three things a
step can do to a claim.

### Absences and chat bots

A claim's requests only ever move with its chain. An absence's do not: a
cancellation deletes what it can, an override rejects what it sees, a split copies a
request without its chain, and a click decides a request and leaves the chain. What survives all of
these is `StoreShape` (in `ApprovalStoreProofs`): a chain's stages before the current one
are approved, later ones wait without a request, a completed chain has all stages
approved, a stage's request is one of its own entity, and a request that is pending is the
only one, under a policy that of the current stage. It never says that a request *is*
pending, so that whatever only closes requests keeps it at once.
`FreshInv` adds that an absence which is not submitted, or needs no approver, has no
request; `AutoInv` that only those are approved automatically.

Each step is described once, from the point of view of one absence: submitted, split off,
advanced, finished, approved automatically, or at most closed (`AbsenceStep`).
`SessionStep` shows that every action is one of these six for every absence. After that
the interleaving is gone, and each property is a statement about six cases.
`DoneInv` is what makes `ApprovedByAllStages` inductive: an approved absence has nobody to
ask *and* its chain is complete, so that a stale decision finds no pending request.

`overridden_vacation` shows that somebody may still be asked about a vacation that a sick
absence has overridden. `RejectedAsksLaterStages` says who: only the approver of a stage that is
not the first one of its policy. Under a policy of one stage, or none, the design's
promise holds. The invariant is `OverrideInv`: a call that overrides a vacation has read
every request of it, except that of a later stage (`OverrideKnows`). It is preserved because
the only step that asks somebody anew about a submitted absence is an approval that
advances its chain (`AskedStep`), and because an override that read an approved vacation,
and therefore closes nothing, finds nobody to ask (`DoneInv`).

The bots' steps (`BotStep`) change the status or the approver of requests that exist and
the absence they belong to. They keep the shape (`BotRows`), but neither `RecordAgrees` nor
`DoneInv`, which is why the theorems about `ChatSpec` are the three that need the shape alone.
`BypassedStage` is the heart of `BypassedChainIsFrozen`: a chain moves only together with
the pending request of its current stage.

### Work balance

`IInv` consists of the types, of `ReadModelIsItsTiers` itself and of four parts. `VersionInv`:
no total is of a version its month does not have yet. `LockInv`: one refresh holds the lock. `ResetInv`: a row that was
reset is dirty without a date until a refresh replaces it. `RefreshInv` says what each
refresh has read: as long as it holds the lock, what it has at hand of the closed months is
what the period rows will be, its reading of the hot window is at least as new as the row's,
and if the row is reset the refresh recomputes everything. The last is the subtle one: a
refresh may be listed for a few months before a rebuild is requested and get the lock
after it. It does not lose the rebuild, because it reads the marker again under the lock,
and no rebuild is requested while it holds it.

`BalanceIsCurrent` needs `CurrentInv`, which says the same of three places: the row, the
period rows (a row that keeps its mark has older minutes than the period rows that were
written under it, and the next refresh adds up those), and what each refresh has read. For the last
it is not enough that somebody asks for the month again (`Expected`): the refresh must
be *told*, that is, see a request that is newer than its start when it ends (`Told`). A
change makes all refreshes under way told, because its call takes the timestamp
afterwards (`Fresh`, then `StampCurrent`); a mark hands this on to the row, and a refresh
that starts is told of nothing, but has read nothing either. One lemma (`CurrentStable`) has the
argument for all steps that write no minutes, and `UpsertCurrent` the one for the step that
does.

### The hash chain

`ChainInv` is `ChainTypeOK` and, while nothing was disturbed, `Undisturbed`: the chain is
whole, sorted by time and not from the future (`Sorted`); calls overlap only in the
queue for the lock, which one of them holds (`Apart`); and what a call has read is the
end of the chain, and its rows will be the newest (`Current`). `Current` is what makes it
inductive: that the *stored* chain is whole says nothing about the predecessor that a
call carries with it. A step of one call leaves the others current because it either
happens alone or in turn under the lock (`AloneOrLocked`, `OthersUntouched`). The two
inserts (`GrowByOne`, `GrowByTwo`) extend a sorted chain.

### The time clock

`ClockInv` adds to the types `RowsOK`, `LockOK` and `CallOK(s)` for each call. An entry is
`Known` when it exists and is no correction that nobody has approved (`Drafted`).
`RowsOK` says that periods point at known entries, that drafted ones are not live and
belong to one correction; `CallOK` says the same of what a call carries (the period as it
read it, the entries it has inserted) and that a call which works on a
closed period still finds it inactive.

Calls overlap freely here, so the argument cannot be that nobody interferes. It
is that what a call relies on cannot be undone: `Grows` says that tables only grow, no period becomes
active, and no known entry becomes drafted. Every action satisfies
`Grows` (`StepKeeps` and the lemmas of the actions), and `CallOK` is stable under it
(`CallStable`), which settles all the *other* calls at once. For the call that
moves, one lemma for each action establishes its next `CallOK` and `RowsOK`.
`LockOK` is a part of its own: at most one call is between the API's check and
its insert, and then no period of the API is open.

The type and lock parts alone are not inductive for `UnapprovedNeverCounts`: an approval
of one correction writes entries it read earlier into the period, and only `CallOK` says
that these are not drafted by another one.

`SettledPeriodsSound` is about calls that do not meet, and its invariant is another one:
`TurnInv`, which holds while nothing is `unsettled`. At most one call runs then, and between its
statements the rows are *not* sound. `SoundRows(period, punch, loose, stale)` says exactly
what they are instead: sound except for entries that are live and not yet in a period
(`Loose`), and entries in a period that are superseded already (`Stale`), both of which
the step and the memory of the running call determine. `KnowsEntries` says what the call
has inserted, `KnowsRows` that what it has read is still so. When no call runs nothing is
loose or stale, which is the property. For each kind of write there is one lemma that
turns one such state into the next (a row appended, its end set, its entries replaced, ...), and one
for each action that applies it.

### Webhooks, imports, invites, shifts

*Webhooks*: deliveries die and are repeated on their own, so there are three invariants.
`SoundInv` holds whatever dies: what a job knows of its attempt and answer is true of
its delivery (`JobSound`), and so is what is recorded (`DeliverySound`). What the subscriber
has found is read off the event (`foundOn`), which maps to the promise's `noticed`: between
the reading and the record nothing is asked about the endpoint any more. The answer and
its record are two steps, between which the worker may die, so `SuccessWasReceived` and
`FailedAfterAllAttempts` are not inductive without it. `CalmInv` holds for each delivery
until a worker dies on *it*: one of its jobs at a time has work left, and the job's step
says how many requests have been sent and what the record must be (`JobInv`). The retry
queues the next job in the step that ends its own, which is the one place where two jobs of
a delivery could overlap. `SentInv` bounds the requests by counting: each request not yet
sent is a ticket, held by a job for its own attempt and those after it (`Tickets`). A send
spends one, a retry passes the rest on, and only a death buys new ones, so that requests
and tickets together never exceed `MaxAttempts` for the first time and for each death. With the three,
each step is one of the promise or a stutter (`PromiseStep`, by `WorkPromised` for
the steps of a job).

*Imports*: `CommitInv` adds `TodoInv` to `CommittedOnce`: a job has rows of its own entity
type left to do, none of which is committed. It holds since the job drops a row in the
transaction that commits it, and a retry reads only accepted rows; and since jobs of
different entity types have no row in common, no other job commits it meanwhile.

`OperationalAfterSetup` and `CompletedLeavesNothing` follow from `OrderInv`, which holds
while no decision was late and no job wrote the batch out of its phase. Rows leave
`"accepted"` and never enter it again once a commit has started, so what any process has
*seen* of them stays true (`SeenStays`): that every accepted row has a job (`AllJobs`),
that none of the setup is left (`SetupDone`), or none at all (`NoAccepted`).
`Order` says which of these each process has seen at each of its steps: the starter,
the admins' sessions (`SessionPart`) and the jobs (`VerdictPart`, `CommitPart`). One
lemma (`JobKept`) covers what a step of another process does to a job.
The attempt at this proof found an error in an earlier form of the model: `NextBatchStatus`
was a `CASE` whose guards overlapped, where the code returns from the first condition
that holds (`lib/import-review/state.ts:12`). It is an `IF` with an `ELSE` now.

*Invites*: `UsesInv` counts, besides the uses, the calls that have found the code usable
and have not added theirs (`Redeeming`): together they never exceed the highest
limit by more than the calls that fit next to one. `UsesAddUp` speaks of finished uses
only, which a step of a call that checked long ago would break. `SettledMembersAgree`
needs two invariants. `EmployedInv` holds whatever overlaps or dies: an employee row is never
taken away, the code's own approval writes it with the membership, and an admin's approval
has it, or is about to write it (`AboutToHire`), or died (`unhired`). `InTurnInv` holds while
nothing is `tangled`: one call runs at most, and knows that what it has checked is still so
(`JoinKnows`, `ReviewKnows`), so each user has one membership and one employee row at most, the
row for an approval that still stands or one that was rejected since (`OneEmployee`).

*Shifts*: `TidyInv` has the same form. `Backed` says that whoever has the shift by a request has
an approved one, *or* that the running call is about to approve it; `PickedUp` that nobody
else waits, *or* the running call is about to refuse them; `PendingOnce` and `Unpublished`
hold at every step. The planner's form writes the shift next to a running call without
entangling anything; it only makes `Backed` and `PickedUp` easier.

### Billing

`IInv` has a part that always holds and one that holds while no event was `crossed`.
The first: `CallInv` (what a call has at hand in each step), `AccountInv` (the last event
about a subscription carries a status that grants access exactly if Stripe's does) and
`RowInv`. The second: `InOrderInv` (the processed events are the first ones, and all
deliveries at work are of one event, the next one, or the last that is processed if they
repeat it) and `FollowInv`, which says of every event that is
*applied* what the property says when all are processed: the row is that of the last
checkout (`RowFollows`) and grants what the last event about its subscription
says (`GrantFollows`). An event is applied from the statement that writes the row on, not from the mark,
and a delivery that fails in between makes it not applied again while the row
stays. `ReadFollows` says the same of a subscription that was fetched and not written: Stripe
may change it meanwhile, but then another event is the last one, and nobody has applied it.
`AppendInv` is that step; `CallInvStep` covers every step of a sync or a failure at
once, and `AppliedBefore` is what order gives the two steps that write the row.

### The seven side by side

Each step of `SideNext`, with its restrictions, is a step or a stutter of every one of the
seven (`PartsStep`), and their initial states are initial states of each. `SideInv` is
therefore nothing but the conjunction of what the seven prove their types with: the types
themselves where these are inductive, `ClockInv` and Billing's `IInv` where they are not.

### What is only model-checked

* Liveness under fairness, which is out of the prover's reach, as `ENABLED` is:
  `EveryMarkServed`, `EveryQueuedDeliveryEnds`, `EveryImportEnds`, `SeatsSettle`.
* What a specification does *not* satisfy: the counterexamples of the seven runs
  that expect a violation.

Nothing here is an induction over data: no definition is recursive, and what the model
computes from a sequence or a set it says with a quantifier.

## 5. Not modelled, and why

Components:

* **Exports**: a schedule that is due is selected, executed and given its next date in
  separate statements (`orchestrator.ts`), and two overlapping runs both find it due. It
  is the next component to model (section 6); what an execution produces are files.
* **SCIM**: the provisioning service has no caller in `src/`. **Calendar
  synchronisation**: depends on external calendars; what is the code's own is the
  queue, which `WebhookDelivery` has.
* **Regulations, surcharges, reports**: arithmetic over dates without state.
* **Desktop, mobile, extension, marketing, documentation**: user interfaces over the
  web application.

Parts of modelled components:

* *Approvals*: which policy matches and who its approvers are. Any approvers are allowed, which
  covers all policies. That approvers are resolved when the chain is created and not
  again later *is* modelled. Editing drafts, attachments, audit log, calendar and mail:
  no property here is about them.
* Organizations with a bot are modelled for absences only: cards are sent for
  requests about absences. `TravelExpense` is the organization without a bot, in
  which nothing changes the approver of a request.
* *Absences*: dates, overlapping ranges, half days, holidays, allowances. Vacations are
  single entities, and the override chooses freely between covering and splitting;
  shortening alone changes no status. Two overlapping requests can both pass the overlap
  check (`request-absence-effect.ts:615`): see the hazards.
* *Work balance*: start dates that change or lie ahead of the refresh, the yearly rows
  (derived from the monthly ones), the order and limit of the batch (1000
  employees, oldest request first), clocks of hosts that differ, and
  `deleteEmployeeWorkBalance`, which nothing calls.
* *Time clock and corrections*: times of day, the approval status of a period and who
  decides (that is the store's), projects, locations, notes, the canonical time record.
* *Hash chain*: contents of entries, which no append depends on, and the chain heads an
  import caches.
* *Webhooks*: several endpoints (they share nothing but the queue), test deliveries,
  signatures, delays between attempts (a retry may be taken at any time).
* *Imports*: issues, mappings and what a row becomes; cancelled batches, which no code
  creates. *Invites*: creation of codes, teams, codes without a limit. *Shifts*: templates,
  skills, recurrences, coverage.
* *Billing*: deactivated members, e-mails, the event types that only write metadata, prices and periods, the
  date on which a local trial ends, the portal. Subscriptions of several organizations
  share nothing.
* *Job queue*: reconciliation of schedules and records of cron executions.

### Further hazards

`PROJECT.json` lists the hazards the properties are for, and some that none
covers. These were seen while modelling and need parts that are left out; each is given at
its line:

* `app/.../time-tracking/actions/clocking.ts:379`: the approval request of a clock-out is
  created after the period was written; a failure in between leaves the period
  without one.
* `lib/effect/services/break-enforcement.service.ts:441`: the break rule splits a period
  that was read before the split.
* `lib/approvals/server/time-correction-approvals.ts:750`: the canonical record of a
  correction is written apart from the period.
* `lib/work-balance/service.ts:533`: an organization's mark sets no date, so a row that is
  dirty stays dirty from the date it had, even if the change is earlier; `:513`: a mark
  that comes before the first refresh makes a row that is computed from its date only;
  `:527`: a mark writes its own time over a later one. All three are modelled, and
  `BalanceIsCurrent` excepts the months they miss.
* `lib/webhooks/webhook-service.ts:320`: failures are counted and compared in separate
  statements, so that an endpoint may be disabled by failures a success has since
  reset.
* `lib/import-review/committers.ts:494`: the head of an employee's hash chain is kept across
  the rows of a commit; an entry that the employee makes meanwhile is forked off.
* `lib/webhooks/webhook-subscriber.ts:55`: the delivery is recorded before its job is
  enqueued, and a death in between leaves a delivery that nobody sends.
* `app/.../absences/request-absence-effect.ts:615`: the overlap check runs before the
  transaction and takes no lock, so two requests for the same days both pass.
* `lib/teams/jobs/escalation-checker.ts:207`: the escalation row is inserted before the
  approver is changed; a crash in between marks the request as escalated for ever.
* `lib/scheduled-exports` (`orchestrator.ts:253`): two runs select the same schedule.
* `lib/effect/services/shift-request.service.ts:462`: the shift is assigned before the request
  is marked; `shift.service.ts:674`: a shift is deleted by id after its status was read.
* `lib/slack/jobs/escalation-checker.ts:161`: the card goes to a backup whom the handler
  refuses.
* `lib/effect/services/pending-member.service.ts`: an approval does not set the status of
  the member row (`:338`), and the seats count approved members only.
* `app/api/billing/webhook/route.ts:84`: the comment announces a 200 for an event that
  failed, the code answers 500 (which makes Stripe try again, as the model has it); and
  the `catch` around the handlers does not see the failures of an Effect, so that the
  error is never stored with the event.

## 6. What could follow

1. **Exports**: schedules, executions and deliveries with overlapping runs of the job.
2. **An abstract specification** for the work balance (a sum that is invalidated and
   recomputed in one step), which `BalanceIsCurrent` prepares, and for imports.
3. **Escalation**: that an escalated request can be decided by the person asked, which
   the chat checkers that do not reassign break.
4. **Two callers** of `WorkBalance` in one run, for the liveness property; safety is proved
   for any number.
