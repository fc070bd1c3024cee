------------------------------ MODULE Billing ------------------------------
(***************************************************************************)
(* The subscription of one organization: the row Z8 keeps, the events by   *)
(* which Stripe reports changes, and the seats Z8 reports to Stripe:       *)
(*   lib/effect/services/billing/billing-events.service.ts,                *)
(*   lib/effect/services/billing/subscription.service.ts,                  *)
(*   lib/effect/services/billing/seat-sync.service.ts,                     *)
(*   lib/effect/services/billing/billing-access.ts,                        *)
(*   lib/billing/seat-sync-trigger.ts,                                     *)
(*   lib/jobs/billing-seat-reconciliation.ts,                              *)
(*   app/api/billing/webhook/route.ts, app/api/billing/checkout/route.ts   *)
(*                                                                         *)
(* Stripe is external.  It delivers an event any number of times, in any   *)
(* order, again while it is being processed, and until it is answered with *)
(* success; a canceled subscription cannot be updated.  Of the events that *)
(* report one change, with the same status, one stands for all.            *)
(***************************************************************************)
EXTENDS Integers, Sequences

CONSTANTS
    Subscription,      \* subscriptions at Stripe
    BillingCall,       \* deliveries and seat syncs that run at a time
    HourlyJob,         \* cron:billing-seat-reconciliation
    MaxSeats,          \* bound: members
    MaxEvents,         \* bound: events
    MaxMoves,          \* bound: members that come and go
    MaxBillingTrouble  \* bound: failed statements and deaths

ASSUME SeatsAssumption == MaxSeats \in Nat \ {0} /\ MaxEvents \in Nat
ASSUME TroubleAssumption == MaxMoves \in Nat /\ MaxBillingTrouble \in Nat
ASSUME HourlyAssumption == HourlyJob \notin BillingCall

NoSubscription == "no subscription"
ASSUME SubscriptionAssumption == NoSubscription \notin Subscription

VARIABLES
    billable,    \* approved members that are no demo users
    account,     \* account[s]: the subscription s at Stripe, "open" while in checkout
    sent,        \* the events of Stripe, in their order
    processed,   \* the stripe_event rows with processed = true
    billingRow,  \* the subscription row, with the status "none" if there is none
    sync,        \* sync[c]: how far the call c is and what it has read
    crossed,     \* history: "early" once an event was taken before an earlier one was
                 \* processed, "late" once it was while another was still at work
    moves,       \* members that came or went so far
    mishap       \* failed statements and deaths so far

billingVars == <<billable, account, sent, processed, billingRow, sync, crossed, moves, mishap>>

Seats == 0..MaxSeats
\* "past_due" also stands for "unpaid" and "paused", which deny access as well.
Live == {"trialing", "active", "past_due"}
Crossing == {"early", "late"}
Status == Live \cup {"canceled"}

\* evaluateBillingAccess: the statuses that grant access.
Granting == {"trialing", "active"}

\* What an event reports, of which subscription, and the status it carries.
StripeEvent == [type : {"checkout", "updated", "deleted", "paid", "unpaid"},
                of : Subscription, status : Status]

Account == [status : Status \cup {"none", "open"}, quantity : Seats]

BillingRow == [of : Subscription \cup {NoSubscription},
               status : Status \cup {"none", "incomplete"}, seats : Seats]

\* step: what the call does next; event: the event it was called with, none with 0.
Sync == [step : {"off", "change", "fetch", "create", "count", "seats", "read", "quantity", "mark"},
         event : 0..MaxEvents, of : Subscription \cup {NoSubscription},
         status : Status \cup {"none"}, seats : Seats]

NoSync == [step |-> "off", event |-> 0, of |-> NoSubscription, status |-> "none", seats |-> 0]

BillingInit ==
    /\ billable = 1
    /\ account = [s \in Subscription |-> [status |-> "none", quantity |-> 0]]
    /\ sent = <<>> /\ processed = {}
    /\ billingRow = [of |-> NoSubscription, status |-> "none", seats |-> 0]
    /\ sync = [c \in BillingCall \cup {HourlyJob} |-> NoSync]
    /\ crossed = {} /\ moves = 0 /\ mishap = 0

-----------------------------------------------------------------------------
(***************************************************************************)
(* Before Stripe: the local trial and the checkout session.                *)
(***************************************************************************)

\* checkBillingAccess of an organization that has no row (ensureLocalTrial likewise).  Its
\* seats also count the members that are not billable.
StartTrial ==
    /\ billingRow.status = "none"
    /\ \E n \in billable..MaxSeats :
          billingRow' = [billingRow EXCEPT !.status = "trialing", !.seats = n]
    /\ UNCHANGED <<billable, account, sent, processed, sync, crossed, moves, mishap>>

\* The checkout route: refused as long as the row tracks a subscription that is not
\* canceled.  Its quantity counts all members as well.
OpenCheckout(s) ==
    /\ account[s].status = "none"
    /\ billingRow.of = NoSubscription \/ billingRow.status = "canceled"
    /\ \E n \in billable..MaxSeats : account' = [account EXCEPT ![s] = [status |-> "open", quantity |-> n]]
    /\ billingRow' = [billingRow EXCEPT !.status = IF @ = "none" THEN "incomplete" ELSE @]
    /\ UNCHANGED <<billable, sent, processed, sync, crossed, moves, mishap>>

-----------------------------------------------------------------------------
(***************************************************************************)
(* Stripe.                                                                 *)
(***************************************************************************)
Event(type, s, status) == [type |-> type, of |-> s, status |-> status]

\* The session stays open for a day, so two of them can be completed.
CompleteCheckout(s) ==
    /\ account[s].status = "open" /\ Len(sent) < MaxEvents
    /\ \E status \in Granting :
          /\ account' = [account EXCEPT ![s].status = status]
          /\ sent' = Append(sent, Event("checkout", s, status))
    /\ UNCHANGED <<billable, processed, billingRow, sync, crossed, moves, mishap>>

\* A payment fails or succeeds, a trial ends, a subscription is paused or resumed.
ChangeStatus(s) ==
    /\ account[s].status \in Live /\ Len(sent) < MaxEvents
    /\ \E status \in {"active", "past_due"} \ {account[s].status} :
          /\ account' = [account EXCEPT ![s].status = status]
          /\ sent' = Append(sent, Event(IF account[s].status = "trialing" THEN "updated"
                                        ELSE IF status = "active" THEN "paid" ELSE "unpaid", s, status))
    /\ UNCHANGED <<billable, processed, billingRow, sync, crossed, moves, mishap>>

\* The invoice of a trial, over nothing, is paid at once.
PayTrialInvoice(s) ==
    /\ account[s].status = "trialing" /\ Len(sent) < MaxEvents
    /\ sent' = Append(sent, Event("paid", s, "trialing"))
    /\ UNCHANGED <<billable, account, processed, billingRow, sync, crossed, moves, mishap>>

CancelSubscription(s) ==
    /\ account[s].status \in Live /\ Len(sent) < MaxEvents
    /\ account' = [account EXCEPT ![s].status = "canceled"]
    /\ sent' = Append(sent, Event("deleted", s, "canceled"))
    /\ UNCHANGED <<billable, processed, billingRow, sync, crossed, moves, mishap>>

-----------------------------------------------------------------------------
(***************************************************************************)
(* processEvent, statement by statement.                                   *)
(***************************************************************************)
Become(c, read) == sync' = [sync EXCEPT ![c] = read]

AtStepOf(c, step) == sync[c].step = step

\* Variant: the stripe_event row is not asked.
TakenAnyway(e) == TRUE

\* The idempotency check: a repetition is let in as long as no delivery has marked the
\* event.  The row is inserted next, which nothing reads before it is marked and which
\* an existing one does not stop, so the insertion is part of this step.
NotProcessed(e) == e \notin processed

\* How the event e is out of turn: an earlier one is not processed yet, or a delivery of
\* another is at work, which may be a repetition of one that is processed.
CrossedBy(e) ==
    {k \in Crossing :
        \/ k = "early" /\ \E f \in 1..e - 1 : f \notin processed
        \/ k = "late" /\ \E d \in BillingCall : sync[d].event \notin {0, e}}

TakeEvent(c, e) ==
    /\ AtStepOf(c, "off") /\ NotProcessed(e)
    /\ Become(c, [NoSync EXCEPT !.event = e, !.of = sent[e].of,
                                !.step = IF sent[e].type = "checkout" THEN "fetch" ELSE "change"])
    /\ crossed' = crossed \cup CrossedBy(e)
    /\ UNCHANGED <<billable, account, sent, processed, billingRow, moves, mishap>>

\* The status that the handler of each event type writes.
StatusOf(e) ==
    CASE sent[e].type = "updated" -> sent[e].status
      [] sent[e].type = "deleted" -> "canceled"
      [] sent[e].type = "paid" -> "active"
      [] sent[e].type = "unpaid" -> "past_due"

\* The row the handler of a change updates, if there is one.
Tracks(s) == billingRow.of = s

ChangeRow(c) ==
    /\ AtStepOf(c, "change")
    /\ billingRow' = IF Tracks(sync[c].of)
                     THEN [billingRow EXCEPT !.status = StatusOf(sync[c].event)]
                     ELSE billingRow
    /\ Become(c, [sync[c] EXCEPT !.step = "mark"])
    /\ UNCHANGED <<billable, account, sent, processed, crossed, moves, mishap>>

\* handleCheckoutSessionCompleted asks Stripe for the subscription ...
FetchSubscription(c) ==
    /\ AtStepOf(c, "fetch")
    /\ LET s == sync[c].of IN
       Become(c, [sync[c] EXCEPT !.step = "create", !.status = account[s].status,
                                 !.seats = account[s].quantity])
    /\ UNCHANGED <<billable, account, sent, processed, billingRow, crossed, moves, mishap>>

\* ... and overwrites the row of the organization with it, or inserts one.
CreateRow(c) ==
    /\ AtStepOf(c, "create")
    /\ billingRow' = [of |-> sync[c].of, status |-> sync[c].status, seats |-> sync[c].seats]
    /\ Become(c, [sync[c] EXCEPT !.step = "count", !.of = NoSubscription, !.status = "none"])
    /\ UNCHANGED <<billable, account, sent, processed, crossed, moves, mishap>>

MarkProcessed(c) ==
    /\ AtStepOf(c, "mark")
    /\ processed' = processed \cup {sync[c].event}
    /\ Become(c, NoSync)
    /\ UNCHANGED <<billable, account, sent, billingRow, crossed, moves, mishap>>

-----------------------------------------------------------------------------
(***************************************************************************)
(* syncSeatsForOrganization, statement by statement.                       *)
(***************************************************************************)

\* A member is approved or leaves, and a sync follows in the same call.
MoveMember(c) ==
    /\ AtStepOf(c, "off") /\ moves < MaxMoves /\ moves' = moves + 1
    /\ billable' \in {billable - 1, billable + 1} \cap 1..MaxSeats
    /\ Become(c, [NoSync EXCEPT !.step = "count"])
    /\ UNCHANGED <<account, sent, processed, billingRow, crossed, mishap>>

\* Variant: organizations without access are left out.
ReconcilesGranting == billingRow.of # NoSubscription /\ billingRow.status \in Granting

\* The organizations the hourly job lists.
Reconciles == billingRow.of # NoSubscription

StartHourly ==
    /\ AtStepOf(HourlyJob, "off") /\ Reconciles
    /\ Become(HourlyJob, [NoSync EXCEPT !.step = "count"])
    /\ UNCHANGED <<billable, account, sent, processed, billingRow, crossed, moves, mishap>>

CountMembers(c) ==
    /\ AtStepOf(c, "count")
    /\ Become(c, [sync[c] EXCEPT !.step = "seats", !.seats = billable])
    /\ UNCHANGED <<billable, account, sent, processed, billingRow, crossed, moves, mishap>>

UpdateSeatCount(c) ==
    /\ AtStepOf(c, "seats")
    /\ billingRow' = IF billingRow.status = "none" THEN billingRow
                     ELSE [billingRow EXCEPT !.seats = sync[c].seats]
    /\ Become(c, [sync[c] EXCEPT !.step = "read"])
    /\ UNCHANGED <<billable, account, sent, processed, crossed, moves, mishap>>

\* What is left to do of a call whose seats are synced.
Synced(c) == IF sync[c].event = 0 THEN NoSync
             ELSE [NoSync EXCEPT !.step = "mark", !.event = sync[c].event]

ReadSubscription(c) ==
    /\ AtStepOf(c, "read")
    /\ Become(c, IF billingRow.of = NoSubscription THEN Synced(c)
                 ELSE [sync[c] EXCEPT !.step = "quantity", !.of = billingRow.of])
    /\ UNCHANGED <<billable, account, sent, processed, billingRow, crossed, moves, mishap>>

UpdateQuantity(c) ==
    /\ AtStepOf(c, "quantity")
    /\ \/ /\ account[sync[c].of].status \in Live
          /\ account' = [account EXCEPT ![sync[c].of].quantity = sync[c].seats]
          /\ Become(c, Synced(c))
       \/ /\ account[sync[c].of].status = "canceled"
          /\ Become(c, NoSync) /\ UNCHANGED account
    /\ UNCHANGED <<billable, sent, processed, billingRow, crossed, moves, mishap>>

\* A statement or a request to Stripe fails, or the process dies: Stripe gets no
\* success and delivers the event again, a seat sync is only logged.
BillingFails(c) ==
    /\ ~AtStepOf(c, "off") /\ mishap < MaxBillingTrouble /\ mishap' = mishap + 1
    /\ Become(c, NoSync)
    /\ UNCHANGED <<billable, account, sent, processed, billingRow, crossed, moves>>

-----------------------------------------------------------------------------
SyncStep(c) ==
    \/ CountMembers(c)
    \/ UpdateSeatCount(c)
    \/ ReadSubscription(c)
    \/ UpdateQuantity(c)

Reconcile == StartHourly \/ SyncStep(HourlyJob)

BillingNext ==
    \/ StartTrial
    \/ \E s \in Subscription :
          OpenCheckout(s) \/ CompleteCheckout(s) \/ ChangeStatus(s) \/ PayTrialInvoice(s)
          \/ CancelSubscription(s)
    \/ \E c \in BillingCall :
          \/ \E e \in 1..Len(sent) : TakeEvent(c, e)
          \/ ChangeRow(c) \/ FetchSubscription(c) \/ CreateRow(c) \/ MarkProcessed(c)
          \/ MoveMember(c) \/ SyncStep(c) \/ BillingFails(c)
    \/ Reconcile \/ BillingFails(HourlyJob)

\* The job runs every hour.
BillingSpec == BillingInit /\ [][BillingNext]_billingVars /\ WF_billingVars(Reconcile)

-----------------------------------------------------------------------------
(***************************************************************************)
(* Properties.                                                             *)
(***************************************************************************)

\* Every variable has the type its column or value has.
BillingTypeOK ==
    /\ billable \in 1..MaxSeats
    /\ account \in [Subscription -> Account]
    /\ sent \in Seq(StripeEvent) /\ Len(sent) <= MaxEvents
    /\ processed \subseteq 1..Len(sent)
    /\ billingRow \in BillingRow
    /\ sync \in [BillingCall \cup {HourlyJob} -> Sync]
    /\ crossed \subseteq Crossing /\ moves \in 0..MaxMoves /\ mishap \in 0..MaxBillingTrouble

\* The last checkout was of s.
LastCheckout(s) ==
    \E e \in 1..Len(sent) :
        /\ sent[e].type = "checkout" /\ sent[e].of = s
        /\ \A f \in e + 1..Len(sent) : sent[f].type # "checkout"

\* The organization has access exactly if the subscription of its last checkout grants it.
AccessAsGranted ==
    \A s \in Subscription : LastCheckout(s) =>
        /\ billingRow.of = s
        /\ billingRow.status \in Granting <=> account[s].status \in Granting

\* "Handles idempotency and state synchronization" (BillingEventsService): the access is
\* as granted when Stripe has got all its events processed, however often an event was
\* delivered, also by deliveries of it that overlapped, and whatever failed on the way.
\* Two things must not have happened: an event was taken before the earlier ones were
\* processed, or while a delivery of another one was at work.  The second is a real limit
\* of the code: a repetition that was let in before its event was marked, and then is slow,
\* writes the old status after a newer event was written and marked.
AccessFollowsStripe == crossed = {} /\ processed = 1..Len(sent) => AccessAsGranted

\* "Keep Stripe subscription quantities aligned with Z8 billable seats" (the seat
\* reconciliation design): when members no longer come and go, the row and the
\* subscription it tracks get the right number of seats and keep it as long as the
\* subscription lives, whatever syncs failed or overlapped.
SeatsSettle ==
    <>[](\A s \in Subscription : billingRow.of = s /\ account[s].status \in Live =>
            billingRow.seats = billable /\ account[s].quantity = billable)
=============================================================================
