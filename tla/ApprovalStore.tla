---------------------------- MODULE ApprovalStore ----------------------------
(***************************************************************************)
(* The three approval tables and the statements that lib/approvals runs on *)
(* them: approval_request, approval_chain_instance and                     *)
(* approval_chain_stage_instance (db/schema/approval.ts,                   *)
(* db/schema/approval-policy.ts; policies/chain-service.ts;                *)
(* server/shared.ts).                                                      *)
(*                                                                         *)
(* An entity is submitted once, so it has at most one chain and chain[e]   *)
(* stands for that row.  Stage orders are the positions 1..chain[e].last.  *)
(* Row ids are random UUIDs: an insert takes any id that is not in use.    *)
(***************************************************************************)
EXTENDS Naturals, FiniteSets

CONSTANTS
    Entity,      \* entities (claims, absences) that can be submitted
    Request,     \* ids of approval_request rows
    Employee,    \* employees of one organization
    MaxStages,   \* bound: the stages of the longest policy
    None         \* SQL NULL

ASSUME StagesAssumption == MaxStages \in Nat \ {0}
ASSUME NoneAssumption == None \notin Entity \cup Request \cup Employee

Step == 1..MaxStages

VARIABLES
    request,     \* request[r]: the approval_request row r
    chain,       \* chain[e]: the approval_chain_instance row of e
    stage        \* stage[e][s]: the s-th approval_chain_stage_instance row of e

storeVars == <<request, chain, stage>>

RequestRow == [status : {"absent", "pending", "approved", "rejected", "deleted"},
               entity : Entity \cup {None}, approver : Employee \cup {None}]

ChainRow == [status : {"absent", "pending", "approved", "rejected"},
             step : 0..MaxStages, last : 0..MaxStages]

StageRow == [status : {"absent", "cancelled", "pending", "approved", "rejected"},
             request : Request \cup {None}, approver : Employee \cup {None},
             decidedBy : Employee \cup {None}]

StoreTypeOK ==
    /\ request \in [Request -> RequestRow]
    /\ chain \in [Entity -> ChainRow]
    /\ stage \in [Entity -> [Step -> StageRow]]

StoreInit ==
    /\ request = [r \in Request |-> [status |-> "absent", entity |-> None, approver |-> None]]
    /\ chain = [e \in Entity |-> [status |-> "absent", step |-> 0, last |-> 0]]
    /\ stage = [e \in Entity |-> [s \in Step |->
          [status |-> "absent", request |-> None, approver |-> None, decidedBy |-> None]]]

-----------------------------------------------------------------------------
(***************************************************************************)
(* Queries.                                                                *)
(***************************************************************************)
PendingFor(e) == {r \in Request : request[r].status = "pending" /\ request[r].entity = e}

\* The stage row, if any, whose approvalRequestId is r.
LinkedSteps(r) == {s \in Step : stage[request[r].entity][s].request = r}

PendingRow(e, a) == [status |-> "pending", entity |-> e, approver |-> a]

\* Variant: writes the action where the status belongs.
DecidedRowAsAction(r, v) ==
    [status |-> IF v = "approved" THEN "approve" ELSE v,
     entity |-> request[r].entity, approver |-> request[r].approver]

DecidedRow(r, v) ==
    [status |-> v, entity |-> request[r].entity, approver |-> request[r].approver]

\* A new pending row can be inserted for e: the partial unique index
\* approvalRequest_pending_entity_unique_idx allows one pending row per entity.
Insertable(r, e) == request[r].status = "absent" /\ PendingFor(e) = {}

-----------------------------------------------------------------------------
(***************************************************************************)
(* resolvePolicyAndCreateApproval: the request of an entity no policy      *)
(* matches, or a chain whose first stage gets the request while the later  *)
(* stages wait with the status "cancelled" and no request.                 *)
(***************************************************************************)
CreateDefault(e, a, r) ==
    /\ Insertable(r, e)
    /\ request' = [request EXCEPT ![r] = PendingRow(e, a)]
    /\ UNCHANGED <<chain, stage>>

CreateChain(e, approvers, n, r) ==
    /\ Insertable(r, e)
    /\ request' = [request EXCEPT ![r] = PendingRow(e, approvers[1])]
    /\ chain' = [chain EXCEPT ![e] = [status |-> "pending", step |-> 1, last |-> n]]
    /\ stage' = [stage EXCEPT ![e] = [s \in Step |->
          IF s > n THEN stage[e][s]
          ELSE [status |-> IF s = 1 THEN "pending" ELSE "cancelled",
                request |-> IF s = 1 THEN r ELSE None,
                approver |-> approvers[s], decidedBy |-> None]]]

-----------------------------------------------------------------------------
(***************************************************************************)
(* updatePendingApprovalRequest followed by progressApprovalChainIfLinked, *)
(* by the employee a, in one transaction.  The three outcomes of the chain *)
(* are three actions; a conflict rolls the transaction back.               *)
(***************************************************************************)
DecidedStage(row, v, a) ==
    [status |-> v, request |-> row.request, approver |-> row.approver, decidedBy |-> a]

ActivatedStage(row, q) ==
    [status |-> "pending", request |-> q, approver |-> row.approver, decidedBy |-> row.decidedBy]

ChainAt(c, v, s) == [status |-> v, step |-> s, last |-> c.last]

\* Variant: the next stage gets its request but is not activated, so the request
\* is linked to no stage.
AdvanceChainUnlinked(r, q, a) ==
    LET e == request[r].entity IN
    \E s \in LinkedSteps(r) :
        /\ stage[e][s].status = "pending" /\ s < chain[e].last
        /\ request[q].status = "absent"
        /\ request' = [request EXCEPT ![r] = DecidedRow(r, "approved"),
                                      ![q] = PendingRow(e, stage[e][s + 1].approver)]
        /\ stage' = [stage EXCEPT ![e][s] = DecidedStage(@, "approved", a)]
        /\ chain' = [chain EXCEPT ![e] = ChainAt(@, @.status, s + 1)]

\* Approve r at a stage that is not the last: q becomes the next stage's request.
AdvanceChain(r, q, a) ==
    LET e == request[r].entity IN
    /\ request[r].status = "pending"
    /\ \E s \in LinkedSteps(r) :
         /\ stage[e][s].status = "pending"
         /\ s < chain[e].last
         /\ request[q].status = "absent"
         /\ PendingFor(e) = {r}
         /\ request' = [request EXCEPT ![r] = DecidedRow(r, "approved"),
                                       ![q] = PendingRow(e, stage[e][s + 1].approver)]
         /\ stage' = [stage EXCEPT ![e][s] = DecidedStage(@, "approved", a),
                                   ![e][s + 1] = ActivatedStage(@, q)]
         /\ chain' = [chain EXCEPT ![e] = ChainAt(@, @.status, s + 1)]

\* Variant: any stage completes the chain.
FinishApprovalAnyStage(r, a) ==
    LET e == request[r].entity IN
    /\ request' = [request EXCEPT ![r] = DecidedRow(r, "approved")]
    /\ \E s \in LinkedSteps(r) :
         /\ stage' = [stage EXCEPT ![e][s] = DecidedStage(@, "approved", a)]
         /\ chain' = [chain EXCEPT ![e] = ChainAt(@, "approved", @.step)]

\* Variant: approves the entity and leaves its request pending.
FinishApprovalOpen(r, a) == LinkedSteps(r) = {} /\ UNCHANGED storeVars

\* Approve r at the last stage (chain_completed), or r has no chain (not_linked).
FinishApproval(r, a) ==
    LET e == request[r].entity IN
    /\ request[r].status = "pending"
    /\ request' = [request EXCEPT ![r] = DecidedRow(r, "approved")]
    /\ \/ /\ LinkedSteps(r) = {}
          /\ UNCHANGED <<chain, stage>>
       \/ \E s \in LinkedSteps(r) :
            /\ stage[e][s].status = "pending"
            /\ s = chain[e].last
            /\ stage' = [stage EXCEPT ![e][s] = DecidedStage(@, "approved", a)]
            /\ chain' = [chain EXCEPT ![e] = ChainAt(@, "approved", @.step)]

\* Reject r at any stage (chain_rejected), or r has no chain (not_linked).
FinishRejection(r, a) ==
    LET e == request[r].entity IN
    /\ request[r].status = "pending"
    /\ request' = [request EXCEPT ![r] = DecidedRow(r, "rejected")]
    /\ \/ /\ LinkedSteps(r) = {}
          /\ UNCHANGED <<chain, stage>>
       \/ \E s \in LinkedSteps(r) :
            /\ stage[e][s].status = "pending"
            /\ stage' = [stage EXCEPT ![e][s] = DecidedStage(@, "rejected", a)]
            /\ chain' = [chain EXCEPT ![e] = ChainAt(@, "rejected", @.step)]
=============================================================================
