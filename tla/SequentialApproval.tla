------------------------- MODULE SequentialApproval -------------------------
(***************************************************************************)
(* What an approval policy promises the requester of an entity (an absence *)
(* or a travel expense claim): the entity is submitted once, every stage   *)
(* of the policy consents in order, the last consent approves the entity,  *)
(* any single refusal rejects it, and a decision is final.                 *)
(*                                                                         *)
(* This is the behaviour of createChainInMemory,                           *)
(* approveCurrentStageInMemory and rejectCurrentStageInMemory in           *)
(* lib/approvals/policies/chain-service.ts, which keep no database rows;   *)
(* an entity that no policy matches has the single default stage.          *)
(***************************************************************************)
EXTENDS Naturals

CONSTANTS
    Entity,      \* the entities that need a decision
    MaxStages    \* bound: the stages of the longest policy

VARIABLES
    decision,    \* decision[e]: where the entity stands
    remaining    \* remaining[e]: stages that have still to consent

vars == <<decision, remaining>>

Init ==
    /\ decision = [e \in Entity |-> "draft"]
    /\ remaining = [e \in Entity |-> 0]

Submit(e) ==
    /\ decision[e] = "draft"
    /\ decision' = [decision EXCEPT ![e] = "submitted"]
    /\ \E n \in 1..MaxStages : remaining' = [remaining EXCEPT ![e] = n]

Consent(e) ==
    /\ decision[e] = "submitted"
    /\ remaining' = [remaining EXCEPT ![e] = @ - 1]
    /\ decision' = [decision EXCEPT ![e] = IF remaining[e] = 1 THEN "approved" ELSE @]

Refuse(e) ==
    /\ decision[e] = "submitted"
    /\ decision' = [decision EXCEPT ![e] = "rejected"]
    /\ remaining' = [remaining EXCEPT ![e] = 0]

Next == \E e \in Entity : Submit(e) \/ Consent(e) \/ Refuse(e)

Spec == Init /\ [][Next]_vars
=============================================================================
