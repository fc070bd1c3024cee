---------------------------- MODULE MCSideBySide ----------------------------
(***************************************************************************)
(* Instances of seven components that share no state, in one run: a        *)
(* behaviour is one of a single component, chosen at the start, and the    *)
(* others stay as they began.                                              *)
(***************************************************************************)
EXTENDS TimeEntries, TimeClock, WebhookDelivery, ImportReview, MembersAndShifts, Billing

VARIABLE which

sideVars == <<which, chainVars, clockVars, webhookVars, importVars, inviteVars, shiftVars, billingVars>>

\* Billing has two instances: what the events do to the access, and what syncs do to
\* the seats.
Component == {"entries", "clock", "webhooks", "imports", "invites", "shifts", "access", "seats"}

\* A component that is not chosen has one initial state.
SideInit ==
    /\ which \in Component
    /\ ChainInit /\ WebhookInit /\ ImportInit /\ BillingInit
    /\ ClockInit /\ (which # "clock" => period = <<>>)
    /\ InviteInit /\ (which # "invites" => code.approval /\ code.limit = 1)
    /\ ShiftInit /\ (which # "shifts" => shift.status = "draft" /\ shift.holder = Nobody)

Rest(of) ==
    /\ which = of /\ UNCHANGED which
    /\ of # "entries" => UNCHANGED chainVars
    /\ of # "clock" => UNCHANGED clockVars
    /\ of # "webhooks" => UNCHANGED webhookVars
    /\ of # "imports" => UNCHANGED importVars
    /\ of # "invites" => UNCHANGED inviteVars
    /\ of # "shifts" => UNCHANGED shiftVars
    /\ of \notin {"access", "seats"} => UNCHANGED billingVars

\* Bounds: workers die on one delivery, or an admin switches the endpoint; no decision is
\* late when a process dies or a statement fails; of the three calls of a clock, a code or
\* a shift the last waits for the others to end if they overlapped (or, on a shift, died),
\* and calls overlap only at a code that never had a limit of more than one.  Access is
\* followed with two deliveries at a time while no event is taken out of turn, as it says
\* nothing afterwards, and with no seats beside the billable ones, no member who comes or
\* goes and no hourly job, which write no status.  Seats change with one subscription, two
\* events and one call at a time next to the hourly job.
SideNext ==
    \/ Rest("entries") /\ ChainNext
    \/ Rest("clock") /\ ClockNext
          /\ (calls' > calls /\ calls = 2 /\ unsettled => \A s \in Clocker : AtStep(s, "off"))
    \/ Rest("webhooks") /\ WebhookNext
          /\ Cardinality({d \in Delivery : deaths'[d] > 0}) + switches' <= 1
    \/ Rest("imports") /\ ImportNext /\ (trouble' = 0 \/ "late" \notin mishaps')
    \/ Rest("invites") /\ InviteNext
          /\ (begun' > begun /\ begun = 2 /\ tangled => Calm) /\ (tangled' => topLimit' = 1)
    \/ Rest("shifts") /\ ShiftNext
          /\ (wishCalls' > wishCalls /\ wishCalls = 2 /\ entangled => ShiftCalm)
    \/ Rest("access") /\ BillingNext
          /\ crossed' = {} /\ moves' = 0 /\ AtStepOf(HourlyJob, "off")'
          /\ billingRow'.seats <= billable
          /\ \A s \in Subscription : account'[s].quantity <= billable
    \/ Rest("seats") /\ BillingNext
          /\ Len(sent') <= 2 /\ (crossed' # {} => mishap' = 0)
          /\ Cardinality({s \in Subscription : account'[s].status # "none"}) <= 1
          /\ \A c \in BillingCall \ {CHOOSE d \in BillingCall : TRUE} : AtStepOf(c, "off")'

\* With the fairness of WebhookSpec, of ImportSpec and of BillingSpec.
SideSpec ==
    /\ SideInit /\ [][SideNext]_sideVars
    /\ WF_sideVars((Rest("webhooks") /\ WorkOnSomeJob) \/ (Rest("imports") /\ ServerStep)
                        \/ (Rest("seats") /\ Reconcile))

\* The type invariants of the seven, each in its own behaviours.
SideTypeOK ==
    /\ which = "entries" => ChainTypeOK
    /\ which = "clock" => ClockTypeOK
    /\ which = "webhooks" => WebhookTypeOK
    /\ which = "imports" => ImportTypeOK
    /\ which = "invites" => InviteTypeOK
    /\ which = "shifts" => ShiftTypeOK
    /\ which \in {"access", "seats"} => BillingTypeOK
=============================================================================
