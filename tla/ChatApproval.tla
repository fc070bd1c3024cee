----------------------------- MODULE ChatApproval -----------------------------
(***************************************************************************)
(* AbsenceRequests in an organization that uses a chat bot: the checkers   *)
(* that escalate a request nobody decided in time, and the buttons of the  *)
(* cards they send:                                                        *)
(*   lib/teams/jobs/escalation-checker.ts      reassigns the request       *)
(*   lib/{slack,telegram,discord}/jobs/...     only send a card            *)
(*   lib/{teams,slack,...}/approval-handler.ts a click decides             *)
(*                                                                         *)
(* Neither runs a transaction: each statement is a step.  A click writes   *)
(* the request and the absence by id; it knows no chain and no time record. *)
(* The timeout may have passed at any time, and whoever the managers table *)
(* names is the backup: any employee but the approver.                     *)
(***************************************************************************)
EXTENDS AbsenceRequests

CONSTANTS
    Platform,    \* chat platforms the organization has enabled
    Reassigning  \* those whose checker changes the approver (Teams)

ASSUME PlatformAssumption == Reassigning \subseteq Platform

VARIABLES
    escalated,   \* escalated[p]: requests with an escalation row of platform p
    card         \* card[a]: requests that the employee a holds a card of

chatVars == <<escalated, card>>
allVars == <<vars, chatVars>>

ChatInit ==
    /\ Init
    /\ escalated = [p \in Platform |-> {}]
    /\ card = [a \in Employee |-> {}]

EscalateCall == [phase : {"escalating"}, platform : Platform, request : Request,
                 backup : Employee, next : {"record", "reassign", "card"}]
ClickCall == [phase : {"clicked"}, request : Request, entity : Entity,
              verdict : Verdict, next : {"request", "absence"}]

InUse(r) == Exists(request[r].status) /\ request[r].status # "absent"

-----------------------------------------------------------------------------
(***************************************************************************)
(* processTenantEscalations / processBotEscalations: select the pending    *)
(* requests that have no escalation row, then for each one insert that     *)
(* row, on Teams change the approver by id, and send the card.             *)
(***************************************************************************)
StartEscalation(x, p, r, b) ==
    /\ session[x].phase = "idle"
    /\ request[r].status = "pending" /\ r \notin escalated[p]
    /\ b # request[r].approver
    /\ Become(x, [phase |-> "escalating", platform |-> p, request |-> r, backup |-> b, next |-> "record"])
    /\ UNCHANGED <<storeVars, absenceVars, chatVars, autoApproved>>

NextStatement(x, step) == Become(x, [session[x] EXCEPT !.next = step])

RecordEscalation(x) ==
    /\ session[x].phase = "escalating" /\ session[x].next = "record"
    /\ LET c == session[x] IN
         /\ InUse(c.request)
         /\ escalated' = [escalated EXCEPT ![c.platform] = @ \cup {c.request}]
         /\ NextStatement(x, IF c.platform \in Reassigning THEN "reassign" ELSE "card")
    /\ UNCHANGED <<storeVars, absenceVars, card, autoApproved>>

\* Variant: the UPDATE of the approver also asks him again.
ReassignReopening(x) ==
    /\ session[x].phase = "escalating" /\ session[x].next = "reassign"
    /\ LET c == session[x] IN
         request' = [request EXCEPT ![c.request].approver = c.backup,
                                    ![c.request].status = "pending"]
    /\ NextStatement(x, "card")
    /\ UNCHANGED <<chain, stage, absenceVars, chatVars, autoApproved>>

Reassign(x) ==
    /\ session[x].phase = "escalating" /\ session[x].next = "reassign"
    /\ LET c == session[x] IN
         /\ request' = IF InUse(c.request) THEN [request EXCEPT ![c.request].approver = c.backup]
                                           ELSE request
         /\ NextStatement(x, "card")
    /\ UNCHANGED <<chain, stage, absenceVars, chatVars, autoApproved>>

SendCard(x) ==
    /\ session[x].phase = "escalating" /\ session[x].next = "card"
    /\ LET c == session[x] IN
         card' = IF InUse(c.request) THEN [card EXCEPT ![c.backup] = @ \cup {c.request}] ELSE card
    /\ Become(x, Idle)
    /\ UNCHANGED <<storeVars, absenceVars, escalated, autoApproved>>

-----------------------------------------------------------------------------
(***************************************************************************)
(* handleApprovalAction: read the request, require that it is pending and  *)
(* that the clicker is its approver, then UPDATE the request by id and     *)
(* UPDATE the absence by id.                                               *)
(***************************************************************************)
Click(x, a, r, v) ==
    /\ session[x].phase = "idle"
    /\ r \in card[a]
    /\ request[r].status = "pending" /\ request[r].approver = a
    /\ Become(x, [phase |-> "clicked", request |-> r, entity |-> request[r].entity,
                  verdict |-> v, next |-> "request"])
    /\ UNCHANGED <<storeVars, absenceVars, chatVars, autoApproved>>

DecideByCard(x) ==
    /\ session[x].phase = "clicked" /\ session[x].next = "request"
    /\ LET c == session[x] IN
         request' = IF InUse(c.request) THEN [request EXCEPT ![c.request].status = c.verdict]
                                        ELSE request
    /\ NextStatement(x, "absence")
    /\ UNCHANGED <<chain, stage, absenceVars, chatVars, autoApproved>>

\* Variant: a click closes the policy along with the absence.
SetAbsenceAndChain(x) ==
    /\ session[x].phase = "clicked" /\ session[x].next = "absence"
    /\ LET c == session[x] IN
         /\ absence' = Set(absence, c.entity, c.verdict)
         /\ chain' = [chain EXCEPT ![c.entity] = ChainAt(@, c.verdict, @.step)]
    /\ Become(x, Idle)
    /\ UNCHANGED <<request, stage, canonical, chatVars, autoApproved>>

SetAbsence(x) ==
    /\ session[x].phase = "clicked" /\ session[x].next = "absence"
    /\ absence' = Set(absence, session[x].entity, session[x].verdict)
    /\ Become(x, Idle)
    /\ UNCHANGED <<storeVars, canonical, chatVars, autoApproved>>

-----------------------------------------------------------------------------
ChatNext ==
    \/ Next /\ UNCHANGED chatVars
    \/ \E x \in Session :
         \/ \E p \in Platform, r \in Request, b \in Employee : StartEscalation(x, p, r, b)
         \/ \E a \in Employee, r \in Request, v \in Verdict : Click(x, a, r, v)
         \/ RecordEscalation(x)
         \/ Reassign(x)
         \/ SendCard(x)
         \/ DecideByCard(x)
         \/ SetAbsence(x)

ChatSpec == ChatInit /\ [][ChatNext]_allVars

-----------------------------------------------------------------------------
(***************************************************************************)
(* Properties.  ApprovedByAllStages, which holds without a bot, does not   *)
(* hold here; what the bot leaves intact is the policy's own record.       *)
(***************************************************************************)

\* Every variable has the type its column or field has.
ChatTypeOK ==
    /\ StoreTypeOK /\ autoApproved \subseteq Entity
    /\ absence \in [Entity -> RowStatus] /\ canonical \in [Entity -> RowStatus]
    /\ session \in [Session -> {Idle} \cup OpenedCall \cup AutoCall \cup CancelCall
                                \cup OverrideCall \cup EscalateCall \cup ClickCall]
    /\ escalated \in [Platform -> SUBSET Request]
    /\ card \in [Employee -> SUBSET Request]

\* A chain says "approved" only when all of its stages do: clicks and
\* escalations, in any order with page decisions, never complete a policy.
ChainApprovedByItsStages ==
    \A e \in Entity : chain[e].status = "approved" =>
        \A s \in 1..chain[e].last : stage[e][s].status = "approved"

\* A request that a click or an override decided behind the chain's back leaves
\* its stage pending for good: no later call moves that stage or its chain.
BypassedChainIsFrozen ==
    [][\A e \in Entity, s \in Step :
         (/\ stage[e][s].status = "pending" /\ stage[e][s].request # None
          /\ request[stage[e][s].request].status \in Verdict)
             => stage'[e] = stage[e] /\ chain'[e] = chain[e]]_allVars

\* A decided request may be decided differently by a late click, but it is never
\* open again: an escalation that lost the race reopens nothing.
DecidedRequestStaysClosed ==
    [][\A r \in Request : request[r].status \in Verdict =>
         request'[r].status \in Verdict \cup {"deleted"}]_allVars

\* "If no stages remain, the chain is marked approved and the source domain final
\* approval side effects run" (the approval policy design, Chain Progression): an
\* absence under a policy is approved only after each stage was asked.
EveryStageAsked ==
    \A e \in Entity : (absence[e] = "approved" /\ chain[e].status # "absent") =>
        \A s \in 1..chain[e].last : stage[e][s].request # None
=============================================================================
