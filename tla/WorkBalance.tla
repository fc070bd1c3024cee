----------------------------- MODULE WorkBalance -----------------------------
(***************************************************************************)
(* The materialized work balance of one employee, the callers that mark it *)
(* dirty and the batch that refreshes it:                                  *)
(*   lib/work-balance/service.ts, lib/work-balance/period-aggregation.ts   *)
(*   lib/jobs/work-balance.ts                                              *)
(*                                                                         *)
(* The batch refreshes each employee in a transaction of its own, under an *)
(* advisory lock of that employee, so one employee stands for all.  Time   *)
(* is kept in months.  Minutes are versions: source[m] counts the changes  *)
(* of month m's periods, absences and policies, and a total is known by    *)
(* the version of each month it includes (None: the month is left out).    *)
(* The employee's start date lies in month 1.                              *)
(*                                                                         *)
(* Timestamps are only compared between a request and a refresh ("was it   *)
(* requested after I started?"), so a timestamp is modelled by the set of  *)
(* refreshes that had started before it.                                   *)
(***************************************************************************)
EXTENDS Integers

CONSTANTS
    Worker,      \* refreshes of this employee, by overlapping runs of the batch
    Caller,      \* server calls that change time data and mark the balance
    MaxMonth,    \* bound: months that pass
    HotMonths,   \* months of the hot window (3 in the code)
    MaxEdits,    \* bound: changes, policy changes and requested rebuilds
    MaxFailures, \* bound: refreshes that fail
    None         \* SQL NULL

ASSUME MonthsAssumption == MaxMonth \in Nat \ {0} /\ HotMonths \in 1..MaxMonth
ASSUME BoundsAssumption == MaxEdits \in Nat /\ MaxFailures \in Nat
ASSUME NullAssumption == None \notin Int

Month == 1..MaxMonth

VARIABLES
    today,       \* the current month
    source,      \* source[m]: version of month m's source rows
    edits,       \* changes made so far
    failures,    \* refreshes failed so far
    bucket,      \* bucket[m]: version in the closed employee_work_balance_period row of m
    row,         \* the employee_work_balance row
    caller,      \* caller[c]: what the call c has still to mark
    worker,      \* worker[x]: how far the refresh x is and what it has read
    missed       \* history: months whose balance may be old with nothing to say so

vars == <<today, source, edits, failures, bucket, row, caller, worker, missed>>

Version == 0..MaxEdits
Totals == [Month -> Version \cup {None}]
NoTotals == [m \in Month |-> None]

\* getHotWindowRange
HotStart(m) == IF m > HotMonths THEN m - HotMonths + 1 ELSE 1

\* from: dirtyFromDate; after: refreshRequestedAt; reset: computedFromDate is the
\* reset marker; through: computedThroughDate; counted: the minutes.
BalanceRow == [exists : BOOLEAN, dirty : BOOLEAN, from : Month \cup {None}, reset : BOOLEAN,
               through : 0..MaxMonth, after : SUBSET Worker, counted : Totals]

NoRow == [exists |-> FALSE, dirty |-> FALSE, from |-> None, reset |-> FALSE,
          through |-> 0, after |-> {}, counted |-> NoTotals]

Idle == [phase |-> "idle"]

Owing == [phase : {"changed"}, from : Month \cup {None}]
         \cup [phase : {"stamped"}, from : Month \cup {None}, after : SUBSET Worker]

Listed == [phase : {"listed"}, from : Month \cup {None}, force : BOOLEAN]
Refreshing == [phase : {"started", "locked", "closed", "computed"}, from : Month \cup {None},
               force : BOOLEAN, month : Month, totals : Totals, closed : Totals]

Started == {x \in Worker : worker[x].phase \notin {"idle", "listed"}}
LockHolders == {x \in Worker : worker[x].phase \in {"locked", "closed", "computed"}}

Init ==
    /\ today \in Month
    /\ source = [m \in Month |-> 0]
    /\ edits = 0 /\ failures = 0
    /\ bucket = NoTotals
    /\ row = NoRow
    /\ caller = [c \in Caller |-> Idle]
    /\ worker = [x \in Worker |-> Idle]
    /\ missed = {}

\* What is still to be recomputed: the months from the date of a mark, or all of them.
Asks(r, m) == r.dirty /\ (r.from = None \/ r.from <= m)
Owes(c, m) == caller[c].phase # "idle" /\ (caller[c].from = None \/ caller[c].from <= m)

-----------------------------------------------------------------------------
(***************************************************************************)
(* Callers: the change commits, then markEmployeeWorkBalanceDirty or       *)
(* markOrganizationWorkBalancesDirty takes a timestamp and writes it.      *)
(* Marking is best effort: the call may die before it.                     *)
(***************************************************************************)
\* The change may lie ahead: a vacation that is still to come.
ChangeMonth(c, m) ==
    /\ caller[c].phase = "idle" /\ edits < MaxEdits
    /\ source' = [source EXCEPT ![m] = @ + 1]
    /\ edits' = edits + 1
    /\ caller' = [caller EXCEPT ![c] = [phase |-> "changed", from |-> m]]
    /\ UNCHANGED <<today, failures, bucket, row, worker, missed>>

\* A work policy changes all months; its mark names no date.
ChangePolicy(c) ==
    /\ caller[c].phase = "idle" /\ edits < MaxEdits
    /\ source' = [m \in Month |-> source[m] + 1]
    /\ edits' = edits + 1
    /\ caller' = [caller EXCEPT ![c] = [phase |-> "changed", from |-> None]]
    /\ UNCHANGED <<today, failures, bucket, row, worker, missed>>

Stamp(c) ==
    /\ caller[c].phase = "changed"
    /\ caller' = [caller EXCEPT ![c] =
          [phase |-> "stamped", from |-> caller[c].from, after |-> Started]]
    /\ UNCHANGED <<today, source, edits, failures, bucket, row, worker, missed>>

\* Variant: a mark with a date replaces the NULL that stands for "everything".
EarlierDate(m) == IF row.from = None \/ row.from > m THEN m ELSE row.from

\* The dirtyFromDate of a row that is marked from m: NULL on a dirty row asks for
\* everything and stays.
DirtyFrom(m) ==
    IF row.dirty /\ row.from = None THEN None
    ELSE IF row.from = None \/ row.from > m THEN m ELSE row.from

Marked(m, after) ==
    CASE row.exists /\ m # None -> [row EXCEPT !.dirty = TRUE, !.after = after, !.from = DirtyFrom(m)]
      [] row.exists /\ m = None -> [row EXCEPT !.dirty = TRUE, !.after = after]
      [] ~row.exists /\ m # None -> [NoRow EXCEPT !.exists = TRUE, !.dirty = TRUE, !.from = m,
                                                  !.through = m, !.after = after]
      [] OTHER -> row

\* The organization's mark names no date: a row keeps the later date it has, and an
\* employee without a row gets none.
NotAskedFor(c) ==
    {m \in Month : Owes(c, m) /\ ~Asks(Marked(caller[c].from, caller[c].after), m)}

\* A mark that makes the row claims the months before its date as well.
NotCounted(c) ==
    {m \in Month : ~row.exists /\ caller[c].from # None /\ m < caller[c].from}

\* A timestamp older than the one it replaces: a refresh under way is not told any more.
ToldTooEarly(c) ==
    {m \in Month : Asks(row, m) /\ ~(row.after \cap Started \subseteq caller[c].after)}

Mark(c) ==
    /\ caller[c].phase = "stamped"
    /\ row' = Marked(caller[c].from, caller[c].after)
    /\ missed' = missed \cup NotAskedFor(c) \cup NotCounted(c) \cup ToldTooEarly(c)
    /\ caller' = [caller EXCEPT ![c] = Idle]
    /\ UNCHANGED <<today, source, edits, failures, bucket, worker>>

ForgetMark(c) ==
    /\ caller[c].phase # "idle"
    /\ missed' = missed \cup {m \in Month : Owes(c, m)}
    /\ caller' = [caller EXCEPT ![c] = Idle]
    /\ UNCHANGED <<today, source, edits, failures, bucket, row, worker>>

\* requestEmployeeWorkBalanceFullRebuild: a transaction under the lock.
RequestRebuild ==
    /\ edits < MaxEdits /\ edits' = edits + 1
    /\ LockHolders = {}
    /\ bucket' = NoTotals
    /\ row' = [NoRow EXCEPT !.exists = TRUE, !.dirty = TRUE, !.reset = TRUE, !.after = Started]
    /\ missed' = {}
    /\ UNCHANGED <<today, source, failures, caller, worker>>

-----------------------------------------------------------------------------
(***************************************************************************)
(* The batch: listEmployeesForWorkBalanceBatch, then a timestamp for the   *)
(* refresh, then refreshEmployeeWorkBalanceFromPeriods under the lock.     *)
(***************************************************************************)
List(x) ==
    /\ worker[x].phase = "idle"
    /\ ~row.exists \/ row.dirty \/ row.through < today
    /\ worker' = [worker EXCEPT ![x] =
          [phase |-> "listed", from |-> row.from, force |-> ~row.exists \/ (row.dirty /\ row.from = None)]]
    /\ UNCHANGED <<today, source, edits, failures, bucket, row, caller, missed>>

\* What was requested before is not after x any more.
Start(x) ==
    /\ worker[x].phase = "listed"
    /\ worker' = [worker EXCEPT ![x] =
          [phase |-> "started", from |-> worker[x].from, force |-> worker[x].force,
           month |-> today, totals |-> NoTotals, closed |-> NoTotals]]
    /\ row' = [row EXCEPT !.after = @ \ {x}]
    /\ caller' = [c \in Caller |->
          IF caller[c].phase = "stamped" THEN [caller[c] EXCEPT !.after = @ \ {x}] ELSE caller[c]]
    /\ UNCHANGED <<today, source, edits, failures, bucket, missed>>

\* isEmployeeWorkBalanceResetMarker
IsResetMarker == row.reset /\ row.dirty /\ row.from = None

\* Variant: does not wait for the lock.
LockWithoutWaiting(x) ==
    /\ worker[x].phase = "started"
    /\ worker' = [worker EXCEPT ![x].phase = "locked",
                                ![x].force = @ \/ ~row.exists \/ IsResetMarker]
    /\ UNCHANGED <<today, source, edits, failures, bucket, row, caller, missed>>

Lock(x) ==
    /\ worker[x].phase = "started"
    /\ LockHolders = {}
    /\ worker' = [worker EXCEPT ![x].phase = "locked",
                                ![x].force = @ \/ ~row.exists \/ IsResetMarker]
    /\ UNCHANGED <<today, source, edits, failures, bucket, row, caller, missed>>

\* The first month a refresh computes: of the first relevant date when it is
\* forced, else of the date it was listed with, else of the hot window.
AffectedStart(w) ==
    IF w.force THEN 1 ELSE IF w.from # None THEN w.from ELSE HotStart(w.month)

Read(w, months) == [m \in Month |-> IF m \in months THEN source[m] ELSE w.totals[m]]

\* Variant: the upsert of a period row adds to the minutes that are there.
AddedBuckets(w) ==
    [m \in Month |-> IF m < HotStart(w.month) /\ w.totals[m] # None
                     THEN w.totals[m] + (IF bucket[m] = None THEN 0 ELSE bucket[m]) ELSE bucket[m]]

\* The closed period rows as the transaction of w sees them, its own upserts included.
Buckets(w) ==
    [m \in Month |-> IF m < HotStart(w.month) /\ w.totals[m] # None THEN w.totals[m] ELSE bucket[m]]

ComputeClosed(x) ==
    /\ worker[x].phase = "locked"
    /\ worker' = [worker EXCEPT ![x].phase = "closed",
          ![x].totals = Read(worker[x], AffectedStart(worker[x])..(HotStart(worker[x].month) - 1))]
    /\ UNCHANGED <<today, source, edits, failures, bucket, row, caller, missed>>

\* The hot window is computed while sumClosedMonthlyPeriodTotalsBefore adds up the
\* closed period rows.
ComputeHot(x) ==
    /\ worker[x].phase = "closed"
    /\ worker' = [worker EXCEPT ![x].phase = "computed",
          ![x].totals = Read(worker[x], HotStart(worker[x].month)..worker[x].month),
          ![x].closed = [m \in Month |->
              IF m < HotStart(worker[x].month) THEN Buckets(worker[x])[m] ELSE None]]
    /\ UNCHANGED <<today, source, edits, failures, bucket, row, caller, missed>>

\* Variant: keeps a request whether or not it is newer than the refresh.
KeepsAnyRequest(x) == row.dirty

\* Variant: takes every request for answered.
KeepsNoRequest(x) == FALSE

\* refreshRequestedAt > refreshStartedAt
KeepsRequest(x) == row.dirty /\ x \in row.after

\* The row of a refresh: the sum of the closed period rows and the hot window.
Refreshed(w) ==
    [exists |-> TRUE, dirty |-> FALSE, from |-> None, reset |-> FALSE, through |-> w.month, after |-> {},
     counted |-> [m \in Month |-> IF m < HotStart(w.month) THEN w.closed[m] ELSE w.totals[m]]]

\* Months the row of w counts as they are, whatever was missed before.
CountedAsIs(w) == {m \in Month : Refreshed(w).counted[m] = source[m]}

\* Months that x has not computed, though the row asks for them or no period row was
\* written when they left the hot window.
PassedOver(x) ==
    {m \in 1..worker[x].month :
        worker[x].totals[m] = None /\ (Asks(row, m) \/ m >= HotStart(row.through))}

\* upsertEmployeeWorkBalance and the commit of the refresh.
Upsert(x) ==
    /\ worker[x].phase = "computed"
    /\ missed' = IF KeepsRequest(x) THEN missed
                 ELSE (missed \ CountedAsIs(worker[x])) \cup PassedOver(x)
    /\ bucket' = Buckets(worker[x])
    /\ row' = IF KeepsRequest(x) THEN row ELSE Refreshed(worker[x])
    /\ worker' = [worker EXCEPT ![x] = Idle]
    /\ UNCHANGED <<today, source, edits, failures, caller>>

\* The refresh fails and rolls back, or its process dies.
Fail(x) ==
    /\ worker[x].phase # "idle" /\ failures < MaxFailures
    /\ failures' = failures + 1
    /\ worker' = [worker EXCEPT ![x] = Idle]
    /\ UNCHANGED <<today, source, edits, bucket, row, caller, missed>>

NextMonth ==
    /\ today < MaxMonth
    /\ today' = today + 1
    /\ UNCHANGED <<source, edits, failures, bucket, row, caller, worker, missed>>

-----------------------------------------------------------------------------
Continue(x) == Start(x) \/ Lock(x) \/ ComputeClosed(x) \/ ComputeHot(x) \/ Upsert(x)

Next ==
    \/ \E c \in Caller :
         \/ \E m \in Month : ChangeMonth(c, m)
         \/ ChangePolicy(c)
         \/ Stamp(c)
         \/ Mark(c)
         \/ ForgetMark(c)
    \/ RequestRebuild
    \/ \E x \in Worker : List(x) \/ Continue(x) \/ Fail(x)
    \/ NextMonth

\* The scheduler runs the batch again and again (cron:work-balance), and a refresh
\* that runs comes to its end unless it fails.  Nobody has to change or mark anything.
Fairness ==
    /\ \A x \in Worker : WF_vars(Continue(x))
    /\ WF_vars(\E x \in Worker : List(x))

Spec == Init /\ [][Next]_vars /\ Fairness

-----------------------------------------------------------------------------
(***************************************************************************)
(* Properties.                                                             *)
(***************************************************************************)

\* Every variable has the type its column or field has.
TypeOK ==
    /\ today \in Month /\ source \in [Month -> Version]
    /\ edits \in 0..MaxEdits /\ failures \in 0..MaxFailures
    /\ bucket \in Totals /\ row \in BalanceRow
    /\ caller \in [Caller -> {Idle} \cup Owing]
    /\ worker \in [Worker -> {Idle} \cup Listed \cup Refreshing]
    /\ missed \subseteq Month

\* A clean balance is what its tiers add up to: the closed months it counts are
\* exactly the period rows, however refreshes and resets overlap.
ReadModelIsItsTiers ==
    row.exists /\ ~row.dirty =>
        \A m \in Month : m < HotStart(row.through) => row.counted[m] = bucket[m]

\* The balance is current: whatever changes, marks and refreshes overlap, each month the
\* row claims to be computed through counts its source rows as they are, or the row is
\* marked from it, or a call has still to mark it.  The months missed, in the ways that
\* Mark, ForgetMark and Upsert name, are the only exceptions.
BalanceIsCurrent ==
    \A m \in (1..row.through) \ missed :
        row.counted[m] = source[m] \/ Asks(row, m) \/ \E c \in Caller : Owes(c, m)

\* A slow refresh never puts older minutes of the hot window over newer ones.
HotWindowNeverOlder ==
    [][\A m \in Month :
         (/\ row.counted[m] # None /\ m >= HotStart(row.through)
          /\ row'.counted[m] # None /\ m >= HotStart(row'.through))
             => row'.counted[m] >= row.counted[m]]_vars

\* A requested rebuild is never lost: whatever marks and refreshes come in
\* between, the row leaves the reset only with every month counted.
ResetEndsInFullRebuild ==
    [][row.reset /\ ~row'.reset =>
         ~row'.dirty /\ \A m \in 1..row'.through : row'.counted[m] # None]_vars

\* Every mark is served: the row is clean again at some time.
EveryMarkServed == row.dirty ~> ~row.dirty

\* "Keep dirty state when a newer refresh request arrives while a worker is
\* processing" (the work balance design): a mark is only removed by a refresh that
\* recomputed the months it names.
MarkRemovedByItsRefresh ==
    [][row.dirty /\ row.from # None /\ ~row'.dirty =>
         \E x \in Worker : \A m \in row.from..worker[x].month : worker[x].totals[m] # None]_vars

\* "At month boundary, close the month that just left the hot window by
\* materializing its monthly bucket" (the work balance design): a month that was
\* counted stays counted when the window moves on.
MonthLeavingWindowStaysCounted ==
    [][row'.through > row.through =>
         \A m \in Month : row.counted[m] # None => row'.counted[m] # None]_vars
=============================================================================
