---------------------------- MODULE TravelExpense ----------------------------
(***************************************************************************)
(* A travel expense claim from draft to decision, and the approval inbox   *)
(* that decides it:                                                        *)
(*   app/.../travel-expenses/actions.ts    submit, approve, reject         *)
(*   lib/approvals/inbox/decision-service.ts   approve and reject by id    *)
(*   lib/approvals/server/shared.ts        the decision transaction        *)
(*   lib/approvals/server/travel-expense-approvals.ts   the claim's part   *)
(*                                                                         *)
(* An inbox call reads the request, then runs its transaction, then reads  *)
(* the claim again to notify the requester: three steps that interleave    *)
(* with those of other sessions.                                           *)
(* The transaction is one step: its first write is the conditional UPDATE  *)
(* of the request row, which it keeps locked until it commits.             *)
(***************************************************************************)
EXTENDS ApprovalInbox, Sequences

VARIABLES
    claim,        \* claim[e]: status of the travel_expense_claim row
    decisionLog,  \* decisionLog[e]: travel_expense_decision_log rows of e
    notified      \* notified[e]: decisions the requester of e was told of

claimVars == <<claim, decisionLog>>
vars == <<storeVars, claimVars, session, notified>>

LogRow == [actor : Employee, action : Verdict]

DecidedCall == [phase : {"decided"}, actor : Employee, entity : Entity, verdict : Verdict]

Init ==
    /\ StoreInit
    /\ claim = [e \in Entity |-> "draft"]
    /\ decisionLog = [e \in Entity |-> <<>>]
    /\ session = [x \in Session |-> Idle]
    /\ notified = [e \in Entity |-> {}]

-----------------------------------------------------------------------------
(***************************************************************************)
(* submitTravelExpenseClaim: the conditional UPDATE from draft and the     *)
(* approval workflow, in one transaction.                                  *)
(***************************************************************************)
\* Variant: the UPDATE to "submitted" does not require a draft.
SubmitAgain(e) ==
    /\ claim' = [claim EXCEPT ![e] = "submitted"]
    /\ \E r \in Request, a \in Eligible : CreateDefault(e, a, r)
    /\ UNCHANGED <<decisionLog, session, notified>>

Submit(e) ==
    /\ claim[e] = "draft"
    /\ claim' = [claim EXCEPT ![e] = "submitted"]
    /\ \E r \in Request :
         \/ \E a \in Eligible : CreateDefault(e, a, r)
         \/ \E n \in Step : \E approvers \in [1..n -> Employee] : CreateChain(e, approvers, n, r)
    /\ UNCHANGED <<decisionLog, session, notified>>

-----------------------------------------------------------------------------
(***************************************************************************)
(* The inbox: open a request, then decide it in a transaction.             *)
(***************************************************************************)
OpenRequest(x, a, r, v) ==
    /\ Open(x, a, r, v)
    /\ UNCHANGED <<storeVars, claimVars, notified>>

\* persistTravelExpenseDecision: a conditional UPDATE and its log row.
PersistDecision(e, a, v) ==
    /\ claim[e] = "submitted"
    /\ claim' = [claim EXCEPT ![e] = v]
    /\ decisionLog' = [decisionLog EXCEPT ![e] = Append(@, [actor |-> a, action |-> v])]

\* Variant: every stage writes a decision log row, not only the last.
DecideLoggingStages(e, r, a, v) ==
    /\ claim[e] = "submitted"
    /\ v = "approved"
    /\ \E q \in Request : AdvanceChain(r, q, a)
    /\ decisionLog' = [decisionLog EXCEPT ![e] = Append(@, [actor |-> a, action |-> v])]
    /\ UNCHANGED claim

\* The transaction of processApprovalWithCurrentEmployee, with the preflight
\* that the claim is still submitted.
Decide(e, r, a, v) ==
    /\ claim[e] = "submitted"
    /\ \/ /\ v = "approved"
          /\ \E q \in Request : AdvanceChain(r, q, a)
          /\ UNCHANGED claimVars
       \/ v = "approved" /\ FinishApproval(r, a) /\ PersistDecision(e, a, v)
       \/ v = "rejected" /\ FinishRejection(r, a) /\ PersistDecision(e, a, v)

Decided(x, e, a, v) ==
    session' = [session EXCEPT ![x] =
        [phase |-> "decided", actor |-> a, entity |-> e, verdict |-> v]]

CommitInbox(x) ==
    /\ session[x].phase = "opened"
    /\ LET c == session[x] IN
         /\ \E r \in LoadPending(c) : Decide(c.entity, r, c.actor, c.verdict)
         /\ Decided(x, c.entity, c.actor, c.verdict)
    /\ UNCHANGED notified

(***************************************************************************)
(* approveTravelExpenseClaim and rejectTravelExpenseClaim decide by claim  *)
(* id; everything they read is read in the transaction.  An admin passes   *)
(* the preflight, but still needs a pending request of his own.            *)
(***************************************************************************)
CommitPage(x, a, e, v) ==
    /\ session[x].phase = "idle"
    /\ \E r \in PendingFor(e) : request[r].approver = a /\ Decide(e, r, a, v)
    /\ Decided(x, e, a, v)
    /\ UNCHANGED notified

\* Variant: notifies the requester without reading the claim again.
NotifyUnchecked(x) ==
    /\ session[x].phase = "decided"
    /\ LET c == session[x] IN
         notified' = [notified EXCEPT ![c.entity] = @ \cup {[actor |-> c.actor, action |-> c.verdict]}]
    /\ session' = [session EXCEPT ![x] = Idle]
    /\ UNCHANGED <<storeVars, claimVars>>

\* notifyTravelExpenseRequesterAfterDecision: reads the claim again after the
\* commit and notifies the requester if it has the status the call decided.
Notify(x) ==
    /\ session[x].phase = "decided"
    /\ LET c == session[x] IN
         notified' = IF claim[c.entity] = c.verdict
                     THEN [notified EXCEPT ![c.entity] = @ \cup {[actor |-> c.actor, action |-> c.verdict]}]
                     ELSE notified
    /\ session' = [session EXCEPT ![x] = Idle]
    /\ UNCHANGED <<storeVars, claimVars>>

\* The call fails with a conflict or an authorization error, or its process
\* dies: an open transaction rolls back, a notification is not sent.
Abandon(x) ==
    /\ session[x].phase # "idle"
    /\ session' = [session EXCEPT ![x] = Idle]
    /\ UNCHANGED <<storeVars, claimVars, notified>>

Next ==
    \/ \E e \in Entity : Submit(e)
    \/ \E x \in Session :
         \/ \E a \in Employee, r \in Request, v \in Verdict : OpenRequest(x, a, r, v)
         \/ CommitInbox(x)
         \/ \E a \in Employee, e \in Entity, v \in Verdict : CommitPage(x, a, e, v)
         \/ Notify(x)
         \/ Abandon(x)

Spec == Init /\ [][Next]_vars

-----------------------------------------------------------------------------
(***************************************************************************)
(* Properties.                                                             *)
(***************************************************************************)

\* Every variable has the type its column or field has.
TypeOK ==
    /\ StoreTypeOK
    /\ claim \in [Entity -> {"draft", "submitted", "approved", "rejected"}]
    /\ decisionLog \in [Entity -> Seq(LogRow)]
    /\ session \in [Session -> {Idle} \cup OpenedCall \cup DecidedCall]
    /\ notified \in [Entity -> SUBSET LogRow]

\* A submitted claim is never stuck and never open twice: exactly one request
\* of it is pending, and under a policy that request belongs to the stage the
\* chain points at, with all earlier stages approved and all later ones waiting.
\* A draft or a decided claim has nothing in anybody's inbox.
OneStageOpen ==
    \A e \in Entity :
        /\ claim[e] = "submitted" =>
             \E r \in Request :
               /\ PendingFor(e) = {r}
               /\ chain[e].status # "absent" =>
                    /\ chain[e].status = "pending"
                    /\ LinkedSteps(r) = {chain[e].step}
                    /\ \A s \in 1..chain[e].last :
                         stage[e][s].status = IF s < chain[e].step THEN "approved"
                                              ELSE IF s = chain[e].step THEN "pending"
                                              ELSE "cancelled"
        /\ claim[e] # "submitted" => PendingFor(e) = {}

\* A claim under a policy is approved only when every stage approved it, and
\* rejected only by one refusal, after which no later stage got a request.
DecidedByItsStages ==
    \A e \in Entity : chain[e].status # "absent" =>
        /\ claim[e] = "approved" =>
             /\ chain[e].status = "approved"
             /\ \A s \in 1..chain[e].last : stage[e][s].status = "approved"
        /\ claim[e] = "rejected" =>
             /\ chain[e].status = "rejected"
             /\ \E s \in 1..chain[e].last :
                  /\ stage[e][s].status = "rejected"
                  /\ \A t \in 1..chain[e].last :
                       /\ t < s => stage[e][t].status = "approved"
                       /\ t > s => stage[e][t].status = "cancelled" /\ stage[e][t].request = None

\* The decision log has one row for a decided claim, with its decision, and
\* none before: no interleaving of sessions decides a claim twice.
LoggedOnce ==
    \A e \in Entity :
        IF claim[e] \in Verdict
        THEN Len(decisionLog[e]) = 1 /\ decisionLog[e][1].action = claim[e]
        ELSE decisionLog[e] = <<>>

\* Whoever decided a stage was its approver, or could decide for its approver.
StageDecidersEntitled ==
    \A e \in Entity, s \in Step :
        stage[e][s].status \in Verdict =>
            \/ stage[e][s].decidedBy = stage[e][s].approver
            \/ stage[e][s].decidedBy \in ManageAll
            \/ {stage[e][s].decidedBy, stage[e][s].approver} \subseteq Eligible

\* The requester is never told of a decision the claim does not have.
NotifiedOfTheDecision ==
    \A e \in Entity : \A n \in notified[e] : n.action = claim[e]

\* A decided claim and a decided stage never change again.
DecisionsAreFinal ==
    [][\A e \in Entity :
         /\ claim[e] \in Verdict => claim'[e] = claim[e] /\ decisionLog'[e] = decisionLog[e]
         /\ \A s \in Step : stage[e][s].status \in Verdict => stage'[e][s] = stage[e][s]]_vars

\* The claim, its request and its chain together implement the promise of
\* SequentialApproval: stages are neither skipped nor asked twice.
remainingStages ==
    [e \in Entity |->
        IF claim[e] # "submitted" THEN 0
        ELSE IF chain[e].status = "absent" THEN 1
        ELSE 1 + chain[e].last - chain[e].step]

Promise == INSTANCE SequentialApproval WITH decision <- claim, remaining <- remainingStages
PromiseSpec == Promise!Spec

\* "Stale stage approvals return conflict errors and do not create further
\* approval requests" (the approval policy design): a call that opened a request
\* which another call has decided since does not decide anything.
StaleApprovalsConflict ==
    [][\A x \in Session :
         (session[x].phase = "opened" /\ request[session[x].request].status # "pending")
             => session'[x].phase # "decided"]_vars
=============================================================================
