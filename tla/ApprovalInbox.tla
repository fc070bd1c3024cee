---------------------------- MODULE ApprovalInbox ----------------------------
(***************************************************************************)
(* The part of a decision that the approval inbox shares between all kinds *)
(* of entities (lib/approvals/inbox/decision-service.ts,                   *)
(* lib/approvals/inbox/current-actor.ts, lib/approvals/server/shared.ts).  *)
(*                                                                         *)
(* A session is one server call.  An inbox call reads the request by id,   *)
(* then runs its transaction: other sessions step in between.  What the    *)
(* call read is kept in its session record.                                *)
(***************************************************************************)
EXTENDS ApprovalStore

CONSTANTS
    Session,     \* server calls in progress
    ManageAll,   \* employees that may manage every approval
    Eligible     \* eligible managers of the requester (manager-eligibility.ts)

ASSUME EmployeeAssumption == ManageAll \subseteq Employee /\ Eligible \subseteq Employee

VARIABLE session \* session[x]: what the call x has read or done so far

Verdict == {"approved", "rejected"}

Idle == [phase |-> "idle"]

OpenedCall == [phase : {"opened"}, actor : Employee, request : Request,
               entity : Entity, verdict : Verdict, own : BOOLEAN]

\* canDecideRequest, after the scope of resolveCurrentApprovalActor.
CanDecideRequest(a, r) ==
    \/ request[r].approver = a
    \/ a \in ManageAll
    \/ {a, request[r].approver} \subseteq Eligible

\* approveApprovalInboxItem and rejectApprovalInboxItem load the request by id,
\* outside the transaction.  own: the caller is the approver of that row.
Open(x, a, r, v) ==
    /\ session[x].phase = "idle"
    /\ request[r].status = "pending"
    /\ CanDecideRequest(a, r)
    /\ session' = [session EXCEPT ![x] =
          [phase |-> "opened", actor |-> a, request |-> r, entity |-> request[r].entity,
           verdict |-> v, own |-> request[r].approver = a]]

\* Variant: an opened request of the caller's own stands for whatever is pending.
LoadPendingOfEntity(call) ==
    IF call.own THEN PendingFor(call.entity) ELSE PendingFor(call.entity) \cap {call.request}

\* loadPendingApprovalRequest, in the transaction: by id for a caller that passed
\* one; the approver of the opened row passes none, and gets the pending request
\* of the entity whose approver he is.
LoadPending(call) ==
    IF call.own THEN {r \in PendingFor(call.entity) : request[r].approver = call.actor}
                ELSE PendingFor(call.entity) \cap {call.request}
=============================================================================
