------------------------------ MODULE TimeClock ------------------------------
(***************************************************************************)
(* The work periods of one employee, the entries they point at, and the    *)
(* calls that open, close, split, correct and delete them:                 *)
(*   app/[locale]/(app)/time-tracking/actions.ts, actions/clocking.ts,     *)
(*   actions/corrections.ts, app/api/time-entries/**/route.ts,             *)
(*   lib/effect/services/break-enforcement.service.ts,                     *)
(*   lib/approvals/server/time-correction-approvals.ts,                    *)
(*   lib/teams/commands/clock-{in,out}.ts                                  *)
(*                                                                         *)
(* Times of day are left out: a period is known by its two entries and by  *)
(* whether it is active and ended.  The chain of the entries is the        *)
(* subject of TimeEntries.  Ids are positions in the order of insertion,   *)
(* 0 is SQL NULL.                                                          *)
(***************************************************************************)
EXTENDS Integers, Sequences, FiniteSets

CONSTANTS
    Clocker,     \* server calls that run at a time
    MaxCalls,    \* bound: calls
    MaxPeriods   \* bound: periods after which no call inserts one

ASSUME ClockBounds == MaxCalls \in Nat /\ MaxPeriods \in Nat

VARIABLES
    period,      \* the work_period rows
    punch,       \* the time_entry rows
    correction,  \* the approval_request rows of corrections and deletions
    clockCall,   \* clockCall[s]: how far the call s is and what it has read
    calls,       \* calls begun so far
    unsettled    \* history: calls overlapped, died halfway or split with notes

clockVars == <<period, punch, correction, clockCall, calls, unsettled>>

Punch == [kind : {"in", "out", "fix"}, of : Nat, live : BOOLEAN]

\* active: isActive; ended: endTime is set; via: who inserted it; adjusted: wasAutoAdjusted.
Period == [in : Nat, out : Nat, active : BOOLEAN, ended : BOOLEAN, deleted : BOOLEAN,
           adjusted : BOOLEAN, via : {"api", "app"}]

Correction == [of : Nat, action : {"edit", "delete"}, in : Nat, out : Nat,
               status : {"pending", "approved", "rejected"}]

OpenPeriod(e, via) ==
    [in |-> e, out |-> 0, active |-> TRUE, ended |-> FALSE, deleted |-> FALSE, adjusted |-> FALSE,
     via |-> via]

ClosedPeriod(e, f, adjusted) ==
    [OpenPeriod(e, "app") EXCEPT !.out = f, !.active = FALSE, !.ended = TRUE, !.adjusted = adjusted]

Off == [step |-> "off"]

\* p: the period the call is about; was: the row as the call read it; es: the entries it
\* has inserted; c: the correction it decides.
Busy == [step : {"clock_in", "clock_in_period", "manual", "manual_period", "api_in", "api_out",
                 "web_out", "web_out_update", "bot_out", "app_out", "break", "enforce",
                 "split", "split_notes", "split_update", "split_insert",
                 "edit_in", "edit_in_insert", "edit_out", "edit_out_insert", "edit_update",
                 "ask_edit", "ask_delete", "approve"},
         p : Nat, was : Period, es : Seq(Nat), c : Nat]

Blank == OpenPeriod(0, "app")
ActingOn(p, step) == [step |-> step, p |-> p, was |-> IF p = 0 THEN Blank ELSE period[p],
                      es |-> <<>>, c |-> 0]

\* Variant: a correction that waits for approval is inserted like any other entry.
DraftLive(e) == [kind |-> "fix", of |-> e, live |-> TRUE]

\* A correction that waits for approval: isSuperseded from the start.
Draft(e) == [kind |-> "fix", of |-> e, live |-> FALSE]

ThePunches == <<[kind |-> "in", of |-> 0, live |-> TRUE], [kind |-> "out", of |-> 0, live |-> TRUE]>>
TheCorrection == [of |-> 1, action |-> "edit", in |-> 3, out |-> 4, status |-> "pending"]

\* The employee starts with nothing, with one open period, with a closed one, or with a
\* closed one that he has asked to correct.
ClockInit ==
    /\ \/ period = <<>> /\ punch = <<>> /\ correction = <<>>
       \/ period = <<OpenPeriod(1, "app")>> /\ punch = <<ThePunches[1]>> /\ correction = <<>>
       \/ /\ period = <<ClosedPeriod(1, 2, FALSE)>>
          /\ \/ punch = ThePunches /\ correction = <<>>
             \/ punch = ThePunches \o <<Draft(1), Draft(2)>> /\ correction = <<TheCorrection>>
    /\ clockCall = [s \in Clocker |-> Off]
    /\ calls = 0 /\ unsettled = FALSE

-----------------------------------------------------------------------------
\* getActiveWorkPeriod looks at endTime only.
WithoutEnd == {p \in DOMAIN period : ~period[p].ended}
Open == {p \in DOMAIN period : period[p].active /\ ~period[p].ended}
PendingFor(p) == {c \in DOMAIN correction : correction[c].of = p /\ correction[c].status = "pending"}

New(i) == Len(punch) + i
WithPunches(kinds) == punch \o [i \in DOMAIN kinds |-> [kind |-> kinds[i], of |-> 0, live |-> TRUE]]
SetLive(ps, es, live) == [e \in DOMAIN ps |-> IF e \in es THEN [ps[e] EXCEPT !.live = live] ELSE ps[e]]

AtStep(s, step) == clockCall[s].step = step
Others(s) == {r \in Clocker \ {s} : clockCall[r].step # "off"}

Begin(s, call) ==
    /\ AtStep(s, "off") /\ calls < MaxCalls
    /\ calls' = calls + 1
    /\ clockCall' = [clockCall EXCEPT ![s] = call]
    /\ unsettled' = (unsettled \/ Others(s) # {})
    /\ UNCHANGED <<period, punch, correction>>

Go(s, step) == clockCall' = [clockCall EXCEPT ![s].step = step]
GoWith(s, step, es) == clockCall' = [clockCall EXCEPT ![s].step = step, ![s].es = @ \o es]
End(s) == clockCall' = [clockCall EXCEPT ![s] = Off]

\* A check inside the call fails: it ends and its transaction, if any, rolls back.
Refuse(s) == End(s) /\ UNCHANGED <<period, punch, correction, calls, unsettled>>

-----------------------------------------------------------------------------
(***************************************************************************)
(* Clocking in, and the manual entry of a finished period: check, insert   *)
(* the entries, insert the period, each a statement of its own.            *)
(***************************************************************************)
CheckIn(s) == WithoutEnd = {} /\ Begin(s, ActingOn(0, "clock_in"))

\* Only an open period of the same day refuses a manual entry.
CheckManual(s) == Begin(s, ActingOn(0, "manual"))

PunchIn(s) ==
    /\ AtStep(s, "clock_in")
    /\ punch' = WithPunches(<<"in">>)
    /\ GoWith(s, "clock_in_period", <<New(1)>>)
    /\ UNCHANGED <<period, correction, calls, unsettled>>

\* Two inserts; nothing else reads them before the period points at them.
PunchManual(s) ==
    /\ AtStep(s, "manual")
    /\ punch' = WithPunches(<<"in", "out">>)
    /\ GoWith(s, "manual_period", <<New(1), New(2)>>)
    /\ UNCHANGED <<period, correction, calls, unsettled>>

InsertPeriod(s) ==
    /\ AtStep(s, "clock_in_period") \/ AtStep(s, "manual_period")
    /\ Len(period) < MaxPeriods
    /\ LET es == clockCall[s].es IN
       period' = Append(period, IF AtStep(s, "clock_in_period") THEN OpenPeriod(es[1], "app")
                                ELSE ClosedPeriod(es[1], es[2], FALSE))
    /\ End(s)
    /\ UNCHANGED <<punch, correction, calls, unsettled>>

(***************************************************************************)
(* The API: a transaction under the employee's advisory lock.              *)
(***************************************************************************)
\* Variant: the route takes no lock.
ApiLockIgnored == TRUE

ApiLockFree == \A s \in Clocker : ~AtStep(s, "api_in") /\ ~AtStep(s, "api_out")

ApiBegin(s) ==
    /\ ApiLockFree
    /\ \/ Open = {} /\ Begin(s, ActingOn(0, "api_in"))
       \/ \E p \in Open : Begin(s, ActingOn(p, "api_out"))

ApiClockIn(s) ==
    /\ AtStep(s, "api_in") /\ Len(period) < MaxPeriods
    /\ punch' = WithPunches(<<"in">>)
    /\ period' = Append(period, OpenPeriod(New(1), "api"))
    /\ End(s)
    /\ UNCHANGED <<correction, calls, unsettled>>

\* Variant: the UPDATE forgets isActive.
CloseStillActive(p, e) == period' = [period EXCEPT ![p].out = e, ![p].ended = TRUE]

Close(p, e) ==
    period' = [period EXCEPT ![p].out = e, ![p].active = FALSE, ![p].ended = TRUE]

\* The API and the app close only what is still open, in the transaction of the entry.
CloseIfOpen(s) ==
    LET p == clockCall[s].p IN
    /\ AtStep(s, "api_out") \/ AtStep(s, "app_out")
    /\ \/ p \in Open /\ punch' = WithPunches(<<"out">>) /\ Close(p, New(1)) /\ End(s)
          /\ UNCHANGED <<correction, calls, unsettled>>
       \/ p \notin Open /\ Refuse(s)

-----------------------------------------------------------------------------
(***************************************************************************)
(* Clocking out in the browser, by the bot and in the app, and a break.    *)
(***************************************************************************)
CheckOut(s) ==
    \E p \in WithoutEnd, step \in {"web_out", "bot_out", "app_out", "break"} : Begin(s, ActingOn(p, step))

PunchOut(s) ==
    /\ AtStep(s, "web_out")
    /\ punch' = WithPunches(<<"out">>)
    /\ GoWith(s, "web_out_update", <<New(1)>>)
    /\ UNCHANGED <<period, correction, calls, unsettled>>

\* By id, whatever the period is by now; enforceBreaksAfterClockOut may follow.
WebClose(s) ==
    /\ AtStep(s, "web_out_update")
    /\ Close(clockCall[s].p, clockCall[s].es[1])
    /\ End(s) \/ Go(s, "enforce")
    /\ UNCHANGED <<punch, correction, calls, unsettled>>

BotClose(s) ==
    /\ AtStep(s, "bot_out")
    /\ punch' = WithPunches(<<"out">>)
    /\ Close(clockCall[s].p, New(1))
    /\ End(s)
    /\ UNCHANGED <<correction, calls, unsettled>>

\* addBreakToActiveSession: closes the active period and opens the next.
TakeBreak(s) ==
    LET p == clockCall[s].p IN
    /\ AtStep(s, "break")
    /\ \/ /\ period[p].active /\ Len(period) < MaxPeriods
          /\ punch' = WithPunches(<<"out", "in">>)
          /\ period' = Append([period EXCEPT ![p].out = New(1), ![p].active = FALSE, ![p].ended = TRUE],
                              OpenPeriod(New(2), "app"))
          /\ End(s)
          /\ UNCHANGED <<correction, calls, unsettled>>
       \/ ~period[p].active /\ Refuse(s)

-----------------------------------------------------------------------------
(***************************************************************************)
(* Splitting a closed period: by its employee, or by the break rule after  *)
(* a clock-out or in the daily job.  The second half keeps the clock-out   *)
(* the call has read.                                                      *)
(***************************************************************************)
CheckSplit(s) ==
    \E p \in DOMAIN period :
        /\ period[p].ended /\ period[p].out # 0 /\ ~period[p].deleted
        /\ Begin(s, ActingOn(p, "split"))

\* The cron job enforces the rule on every period of the day that is not active.
CheckEnforce(s) ==
    \E p \in DOMAIN period :
        /\ ~period[p].active /\ ~period[p].adjusted
        /\ Begin(s, ActingOn(p, "enforce"))

\* The period is read again; a deleted one ends where it starts, and no break fits.
Enforce(s) ==
    LET p == clockCall[s].p IN
    /\ AtStep(s, "enforce")
    /\ clockCall' = [clockCall EXCEPT ![s] =
          IF period[p].adjusted \/ ~period[p].ended \/ period[p].deleted THEN Off
          ELSE [ActingOn(p, "split") EXCEPT !.c = 1]]
    /\ UNCHANGED <<period, punch, correction, calls, unsettled>>

\* A split by the break rule is marked by c = 1.
ByRule(s) == clockCall[s].c = 1

\* Again two inserts.
PunchSplit(s) ==
    /\ AtStep(s, "split")
    /\ punch' = WithPunches(<<"out", "in">>)
    /\ \/ GoWith(s, "split_update", <<New(1), New(2)>>)
       \/ ~ByRule(s) /\ GoWith(s, "split_notes", <<New(1), New(2)>>)
    /\ UNCHANGED <<period, correction, calls, unsettled>>

\* Notes on the first half supersede the clock-out, which the second half keeps.
SplitNotes(s) ==
    /\ AtStep(s, "split_notes")
    /\ punch' = SetLive(punch, {clockCall[s].was.out}, FALSE)
    /\ unsettled' = TRUE
    /\ Go(s, "split_update")
    /\ UNCHANGED <<period, correction, calls>>

SplitUpdate(s) ==
    LET p == clockCall[s].p IN
    /\ AtStep(s, "split_update")
    /\ period' = IF ~ByRule(s) /\ period[p].deleted THEN period
                 ELSE [period EXCEPT ![p].out = clockCall[s].es[1], ![p].ended = TRUE,
                                     ![p].adjusted = @ \/ ByRule(s)]
    /\ Go(s, "split_insert")
    /\ UNCHANGED <<punch, correction, calls, unsettled>>

SplitInsert(s) ==
    /\ AtStep(s, "split_insert") /\ Len(period) < MaxPeriods
    /\ period' = Append(period, ClosedPeriod(clockCall[s].es[2], clockCall[s].was.out, ByRule(s)))
    /\ End(s)
    /\ UNCHANGED <<punch, correction, calls, unsettled>>

-----------------------------------------------------------------------------
(***************************************************************************)
(* editSameDayTimeEntry: a correction of the clock-in, one of the          *)
(* clock-out if it was changed, then the period.                           *)
(***************************************************************************)
CheckEdit(s) ==
    \E p \in DOMAIN period :
        /\ period[p].ended /\ ~period[p].deleted /\ PendingFor(p) = {}
        /\ Begin(s, ActingOn(p, "edit_in"))

\* createCorrectionEntry refuses an entry that is superseded ...
Replaceable(s, e, next) ==
    \/ punch[e].live /\ Go(s, next) /\ UNCHANGED <<period, punch, correction, calls, unsettled>>
    \/ ~punch[e].live /\ Refuse(s)

EditCheck(s) ==
    \/ AtStep(s, "edit_in") /\ Replaceable(s, clockCall[s].was.in, "edit_in_insert")
    \/ AtStep(s, "edit_out") /\ Replaceable(s, clockCall[s].was.out, "edit_out_insert")

\* ... inserts the correction and supersedes the entry.
Replace(s, e, next) ==
    /\ punch' = Append(SetLive(punch, {e}, FALSE), [kind |-> "fix", of |-> e, live |-> TRUE])
    /\ GoWith(s, next, <<New(1)>>)
    /\ UNCHANGED <<period, correction, calls, unsettled>>

EditInsert(s) ==
    LET was == clockCall[s].was IN
    \/ AtStep(s, "edit_in_insert") /\ Replace(s, was.in, "edit_update")
    \/ AtStep(s, "edit_in_insert") /\ was.out # 0 /\ Replace(s, was.in, "edit_out")
    \/ AtStep(s, "edit_out_insert") /\ Replace(s, was.out, "edit_update")

\* Variant: the period keeps the clock-out that was read, also when it was corrected.
EditUpdateKeepingOut(s) ==
    LET p == clockCall[s].p IN
    /\ AtStep(s, "edit_update")
    /\ period' = [period EXCEPT ![p].in = clockCall[s].es[1], ![p].out = clockCall[s].was.out]
    /\ End(s)
    /\ UNCHANGED <<punch, correction, calls, unsettled>>

EditUpdate(s) ==
    LET p == clockCall[s].p
        es == clockCall[s].es
    IN
    /\ AtStep(s, "edit_update")
    /\ period' = IF period[p].deleted THEN period
                 ELSE [period EXCEPT ![p].in = es[1], ![p].ended = TRUE,
                                     ![p].out = IF Len(es) = 2 THEN es[2] ELSE clockCall[s].was.out]
    /\ End(s)
    /\ UNCHANGED <<punch, correction, calls, unsettled>>

-----------------------------------------------------------------------------
(***************************************************************************)
(* Corrections and deletions that a manager approves.  The request is a    *)
(* transaction: corrections that are not live yet, and the approval.       *)
(***************************************************************************)
CheckRequest(s) ==
    \E p \in DOMAIN period :
        /\ ~period[p].deleted
        /\ \/ Begin(s, ActingOn(p, "ask_edit"))
           \/ /\ period[p].ended /\ period[p].out # 0 /\ PendingFor(p) = {}
              /\ Begin(s, ActingOn(p, "ask_delete"))

\* The clock-out is corrected too when the caller changed it, and always on deletion.
Request(s, action, both) ==
    LET p == clockCall[s].p
        was == clockCall[s].was
    IN
    /\ PendingFor(p) = {}
    /\ punch' = punch \o IF both THEN <<Draft(was.in), Draft(was.out)>> ELSE <<Draft(was.in)>>
    /\ correction' = Append(correction,
          [of |-> p, action |-> action, in |-> New(1), out |-> IF both THEN New(2) ELSE 0,
           status |-> "pending"])
    /\ End(s)
    /\ UNCHANGED <<period, calls, unsettled>>

RequestCorrection(s) ==
    LET was == clockCall[s].was IN
    /\ AtStep(s, "ask_edit")
    /\ \/ punch[was.in].live /\ Request(s, "edit", FALSE)
       \/ was.out # 0 /\ punch[was.in].live /\ punch[was.out].live /\ Request(s, "edit", TRUE)
       \/ ~punch[was.in].live /\ Refuse(s)
       \/ was.out # 0 /\ ~punch[was.out].live /\ Refuse(s)
       \/ PendingFor(clockCall[s].p) # {} /\ Refuse(s)

RequestDeletion(s) ==
    /\ AtStep(s, "ask_delete")
    /\ \/ Request(s, "delete", TRUE)
       \/ PendingFor(clockCall[s].p) # {} /\ Refuse(s)

\* The decision takes its request with a conditional UPDATE, then reads the period.
BeingDecided(c) == \E s \in Clocker : AtStep(s, "approve") /\ clockCall[s].c = c

CheckApprove(s) ==
    \E c \in DOMAIN correction :
        /\ correction[c].status = "pending" /\ ~BeingDecided(c)
        /\ ~period[correction[c].of].deleted
        /\ Begin(s, [ActingOn(correction[c].of, "approve") EXCEPT !.c = c])

\* resolveCorrectionEntryForApproval: the correction, unless the period has another entry
\* by now than the one it replaces.
Resolved(e, original) == IF e # 0 /\ original # 0 /\ punch[e].of = original THEN e ELSE 0

\* Variant: a clock-in correction that is not found is not refused.
MayApplyWithoutIn(action, newIn, newOut) == action = "delete" => newOut # 0

\* ensureClockInCorrection, and a deletion needs both.
MayApply(action, newIn, newOut) == newIn # 0 /\ (action = "delete" => newOut # 0)

\* activateApprovedTimeCorrectionEntries and applyTimeCorrection: written by id, from
\* the row that was read.
ApplyCorrection(s, c, p, was, newIn, newOut) ==
    /\ punch' = SetLive(SetLive(punch, {newIn, newOut}, TRUE),
                        {was.in} \cup (IF newOut # 0 THEN {was.out} ELSE {}), FALSE)
    /\ period' = [period EXCEPT ![p].in = newIn,
                                ![p].out = IF newOut # 0 THEN newOut ELSE was.out,
                                ![p].ended = newOut # 0 \/ was.ended,
                                ![p].deleted = @ \/ correction[c].action = "delete"]
    /\ correction' = [correction EXCEPT ![c].status = "approved"]
    /\ End(s)
    /\ UNCHANGED <<calls, unsettled>>

Approve(s) ==
    LET c == clockCall[s].c
        was == clockCall[s].was
        newIn == Resolved(correction[c].in, was.in)
        newOut == Resolved(correction[c].out, was.out)
    IN
    /\ AtStep(s, "approve")
    /\ \/ /\ MayApply(correction[c].action, newIn, newOut)
          /\ ApplyCorrection(s, c, clockCall[s].p, was, newIn, newOut)
       \* ... or the corrected range starts after the period ends by now.
       \/ Refuse(s)

\* A rejection leaves the corrections as they were inserted.
Reject(s) ==
    \E c \in DOMAIN correction :
        /\ AtStep(s, "off") /\ calls < MaxCalls
        /\ correction[c].status = "pending" /\ ~BeingDecided(c)
        /\ calls' = calls + 1
        /\ correction' = [correction EXCEPT ![c].status = "rejected"]
        /\ UNCHANGED <<period, punch, clockCall, unsettled>>

\* The call fails or its process dies between two steps.
Die(s) ==
    /\ ~AtStep(s, "off")
    /\ unsettled' = TRUE
    /\ End(s)
    /\ UNCHANGED <<period, punch, correction, calls>>

-----------------------------------------------------------------------------
ClockNext ==
    \E s \in Clocker :
        \/ CheckIn(s) \/ CheckManual(s) \/ PunchIn(s) \/ PunchManual(s) \/ InsertPeriod(s)
        \/ ApiBegin(s) \/ ApiClockIn(s) \/ CloseIfOpen(s)
        \/ CheckOut(s) \/ PunchOut(s) \/ WebClose(s) \/ BotClose(s) \/ TakeBreak(s)
        \/ CheckSplit(s) \/ CheckEnforce(s) \/ Enforce(s) \/ PunchSplit(s) \/ SplitNotes(s)
        \/ SplitUpdate(s) \/ SplitInsert(s)
        \/ CheckEdit(s) \/ EditCheck(s) \/ EditInsert(s) \/ EditUpdate(s)
        \/ CheckRequest(s) \/ RequestCorrection(s) \/ RequestDeletion(s)
        \/ CheckApprove(s) \/ Approve(s) \/ Reject(s)
        \/ Die(s)

ClockSpec == ClockInit /\ [][ClockNext]_clockVars

-----------------------------------------------------------------------------
(***************************************************************************)
(* Properties.                                                             *)
(***************************************************************************)

\* Every variable has the type its column or value has, and every reference is to a row.
ClockTypeOK ==
    /\ period \in Seq(Period) /\ punch \in Seq(Punch) /\ correction \in Seq(Correction)
    /\ \A p \in DOMAIN period : period[p].in \in DOMAIN punch /\ period[p].out \in 0..Len(punch)
    /\ clockCall \in [Clocker -> {Off} \cup Busy]
    /\ calls \in 0..MaxCalls /\ unsettled \in BOOLEAN

\* The API never has two periods open: its check and its insert are one under the lock.
OneOpenUnderLock ==
    \A p, q \in Open : period[p].via = "api" /\ period[q].via = "api" => p = q

\* However calls overlap, an active period is one that has no end and no clock-out: no
\* write by a stale reading makes a closed period active or ends one that stays active.
ActiveHasNoEnd ==
    \A p \in DOMAIN period : period[p].active => ~period[p].ended /\ period[p].out = 0

\* A correction counts only once its request is approved, also when calls overlap.
UnapprovedNeverCounts ==
    \A c \in DOMAIN correction : correction[c].status # "approved" =>
        \A e \in {correction[c].in, correction[c].out} \ {0} :
            /\ ~punch[e].live
            /\ \A p \in DOMAIN period : e # period[p].in /\ e # period[p].out

EntriesOf(p) == {period[p].in, period[p].out} \ {0}

\* Calls that come one after the other, and end, leave the periods sound in any order:
\* at most one is open, a period has an end exactly when it has a clock-out and is not
\* active, and each live entry belongs to exactly one period.
SettledPeriodsSound ==
    ~unsettled /\ (\A s \in Clocker : AtStep(s, "off")) =>
        /\ Cardinality(WithoutEnd) <= 1
        /\ \A p \in DOMAIN period :
              /\ period[p].ended = (period[p].out # 0) /\ period[p].active = ~period[p].ended
              /\ \A e \in EntriesOf(p) : punch[e].live
        /\ \A e \in DOMAIN punch : punch[e].live => \E p \in DOMAIN period : e \in EntriesOf(p)
        /\ \A p, q \in DOMAIN period : p # q => EntriesOf(p) \cap EntriesOf(q) = {}
=============================================================================
