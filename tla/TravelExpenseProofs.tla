------------------------- MODULE TravelExpenseProofs -------------------------
(***************************************************************************)
(* The inductive invariant of TravelExpense, and what follows from it for  *)
(* any number of claims, stages, employees and concurrent calls.           *)
(***************************************************************************)
EXTENDS TravelExpense, ApprovalStoreProofs, TLAPS

-----------------------------------------------------------------------------
(***************************************************************************)
(* The inductive invariant.                                                *)
(***************************************************************************)

\* A row that exists belongs to an entity and has an approver.
RowInv ==
    \A r \in Request :
        IF request[r].status = "absent" THEN request[r].entity = None
        ELSE request[r].entity \in Entity /\ request[r].approver \in Employee

\* The chain of e: stages before the current one approved, later ones waiting
\* without a request, the current one in the state of the chain and the claim.
ChainInv(e) ==
    LET c == chain[e] IN
    IF c.status = "absent"
    THEN \A s \in Step : stage[e][s].status = "absent" /\ stage[e][s].request = None
    ELSE /\ c.step \in Step /\ c.last \in Step /\ c.step <= c.last
         /\ stage[e][c.step].status = c.status
         /\ c.status = "approved" => c.step = c.last
         /\ claim[e] = IF c.status = "pending" THEN "submitted" ELSE c.status
         /\ \A s \in Step :
              /\ s < c.step => stage[e][s].status = "approved"
              /\ s > c.step => stage[e][s].request = None
              /\ s <= c.last => stage[e][s].approver \in Employee
              /\ s > c.step /\ s <= c.last => stage[e][s].status = "cancelled"
              /\ s > c.last => stage[e][s].status = "absent"

\* A stage's request is a row of the same entity and approver, and only the
\* current stage's request can be pending.
LinkInv(e) ==
    \A s \in Step : stage[e][s].request # None =>
        LET r == stage[e][s].request IN
        /\ request[r].status # "absent"
        /\ request[r].entity = e
        /\ request[r].approver = stage[e][s].approver
        /\ s # chain[e].step => request[r].status # "pending"

\* A draft has no rows; a submitted claim has one pending request, its
\* current stage's under a policy; a decided one has none.
OpenInv(e) ==
    /\ claim[e] = "draft" => chain[e].status = "absent" /\ \A r \in Request : request[r].entity # e
    /\ claim[e] # "submitted" => PendingFor(e) = {}
    /\ claim[e] = "submitted" =>
         \E r \in Request : /\ PendingFor(e) = {r}
                            /\ chain[e].status # "absent" => stage[e][chain[e].step].request = r

StoreInv == RowInv /\ \A e \in Entity : ChainInv(e) /\ LinkInv(e) /\ OpenInv(e)

\* A call that has opened a request is entitled to decide it; approvers of
\* existing rows never change.
SessionInv ==
    \A x \in Session : session[x].phase = "opened" =>
        LET c == session[x] IN
        /\ request[c.request].status # "absent"
        /\ CanDecideRequest(c.actor, c.request)

\* What the log and the requester know of a claim is its decision.
LogInv == LoggedOnce /\ NotifiedOfTheDecision

IInv == TypeOK /\ StoreInv /\ SessionInv /\ LogInv /\ StageDecidersEntitled

-----------------------------------------------------------------------------
(***************************************************************************)
(* Type correctness.                                                       *)
(***************************************************************************)
\* The empty tables and idle calls have their types.
LEMMA InitTypeOK == Init => TypeOK
<1> SUFFICES ASSUME Init PROVE TypeOK
  OBVIOUS
<1>1. StoreTypeOK
  BY StagesAssumption DEF Init, StoreInit, StoreTypeOK, RequestRow, ChainRow, StageRow
<1> QED
  BY <1>1 DEF Init, TypeOK, Idle

-----------------------------------------------------------------------------
(***************************************************************************)
(* Preservation of StoreInv, one lemma for each write to the tables.       *)
(***************************************************************************)
EntityInv(e) == ChainInv(e) /\ LinkInv(e) /\ OpenInv(e)

\* The rows of an entity that a step leaves alone keep their invariant.
LEMMA FrameInv ==
    ASSUME StoreTypeOK, NEW d \in Entity, EntityInv(d),
           chain'[d] = chain[d], stage'[d] = stage[d], claim'[d] = claim[d],
           \A k \in Request : (request[k].entity = d \/ request'[k].entity = d) => request'[k] = request[k]
    PROVE  EntityInv(d)'
<1>1. ChainInv(d)'
  BY DEF EntityInv, ChainInv
<1>2. LinkInv(d)'
  <2> SUFFICES ASSUME NEW s \in Step, stage[d][s].request # None
               PROVE  LET r == stage[d][s].request IN
                      /\ request'[r].status # "absent"
                      /\ request'[r].entity = d
                      /\ request'[r].approver = stage[d][s].approver
                      /\ s # chain[d].step => request'[r].status # "pending"
    BY DEF LinkInv
  <2>1. stage[d][s].request \in Request
    BY DEF StoreTypeOK, StageRow
  <2> QED
    BY <2>1 DEF EntityInv, LinkInv
<1>3. PendingFor(d)' = PendingFor(d)
  BY DEF PendingFor
<1>4. OpenInv(d)'
  BY <1>3 DEF EntityInv, OpenInv
<1> QED
  BY <1>1, <1>2, <1>4 DEF EntityInv

\* Submitting a claim that no policy matches preserves StoreInv.
LEMMA CreateDefaultInv ==
    ASSUME StoreTypeOK, StoreInv, NEW e \in Entity, NEW a \in Employee, NEW r \in Request,
           claim \in [Entity -> {"draft", "submitted", "approved", "rejected"}],
           claim[e] = "draft", claim' = [claim EXCEPT ![e] = "submitted"], CreateDefault(e, a, r)
    PROVE  StoreInv'
<1> USE NoneAssumption
<1>1. \A k \in Request : request'[k] = IF k = r THEN PendingRow(e, a) ELSE request[k]
  BY DEF CreateDefault, StoreTypeOK
<1>2. /\ request[r].status = "absent" /\ request[r].entity = None
      /\ PendingFor(e) = {}
      /\ chain' = chain /\ stage' = stage
  BY DEF CreateDefault, Insertable, StoreInv, RowInv
<1>3. RowInv'
  BY <1>1 DEF StoreInv, RowInv, PendingRow
<1>4. ASSUME NEW d \in Entity, d # e PROVE EntityInv(d)'
  <2>1. \A k \in Request : (request[k].entity = d \/ request'[k].entity = d) => request'[k] = request[k]
    BY <1>1, <1>2, <1>4 DEF PendingRow
  <2> QED
    BY <1>2, <1>4, <2>1, FrameInv DEF StoreInv, EntityInv
<1>5. EntityInv(e)'
  <2>1. chain[e].status = "absent" /\ claim'[e] = "submitted"
    BY DEF StoreInv, OpenInv
  <2>2. ChainInv(e)'
    BY <1>2, <2>1 DEF StoreInv, ChainInv
  <2>3. LinkInv(e)'
    BY <1>2, <2>1 DEF StoreInv, ChainInv, LinkInv
  <2>4. PendingFor(e)' = {r}
    BY <1>1, <1>2 DEF PendingFor, PendingRow
  <2>5. OpenInv(e)'
    BY <1>2, <2>1, <2>4 DEF OpenInv
  <2> QED
    BY <2>2, <2>3, <2>5 DEF EntityInv
<1> QED
  BY <1>3, <1>4, <1>5 DEF StoreInv, EntityInv

\* Submitting a claim under a policy preserves StoreInv.
LEMMA CreateChainInv ==
    ASSUME StoreTypeOK, StoreInv, NEW e \in Entity, NEW n \in Step,
           NEW approvers \in [1..n -> Employee], NEW r \in Request,
           claim \in [Entity -> {"draft", "submitted", "approved", "rejected"}],
           claim[e] = "draft", claim' = [claim EXCEPT ![e] = "submitted"],
           CreateChain(e, approvers, n, r)
    PROVE  StoreInv'
<1> USE NoneAssumption, StepFacts
<1>0. 1 \in 1..n /\ approvers[1] \in Employee
  BY DEF Step
<1>1. \A k \in Request : request'[k] = IF k = r THEN PendingRow(e, approvers[1]) ELSE request[k]
  BY DEF CreateChain, StoreTypeOK
<1>2. /\ request[r].status = "absent" /\ request[r].entity = None /\ PendingFor(e) = {}
      /\ \A d \in Entity : d # e => chain'[d] = chain[d] /\ stage'[d] = stage[d] /\ claim'[d] = claim[d]
      /\ chain'[e] = [status |-> "pending", step |-> 1, last |-> n]
      /\ claim'[e] = "submitted"
  BY DEF CreateChain, Insertable, StoreInv, RowInv, StoreTypeOK
<1>3. /\ chain[e].status = "absent"
      /\ \A s \in Step : stage[e][s].status = "absent" /\ stage[e][s].request = None
  BY DEF StoreInv, OpenInv, ChainInv
<1>4. /\ stage'[e][1].status = "pending" /\ stage'[e][1].request = r
      /\ stage'[e][1].approver = approvers[1]
      /\ \A s \in Step : s <= n => stage'[e][s].approver \in Employee
      /\ \A s \in Step : s > 1 => stage'[e][s].request = None
      /\ \A s \in Step : s > 1 /\ s <= n => stage'[e][s].status = "cancelled"
      /\ \A s \in Step : s > n => stage'[e][s].status = "absent"
  BY <1>0, <1>3 DEF CreateChain, StoreTypeOK
<1>5. RowInv'
  BY <1>0, <1>1 DEF StoreInv, RowInv, PendingRow
<1>6. ASSUME NEW d \in Entity, d # e PROVE EntityInv(d)'
  <2>1. \A k \in Request : (request[k].entity = d \/ request'[k].entity = d) => request'[k] = request[k]
    BY <1>1, <1>2, <1>6 DEF PendingRow
  <2> QED
    BY <1>2, <1>6, <2>1, FrameInv DEF StoreInv, EntityInv
<1>7. EntityInv(e)'
  <2>1. \A s \in Step : ~(s < 1) /\ (s = 1 \/ s > 1)
    OBVIOUS
  <2>2. ChainInv(e)'
    BY <1>2, <1>4, <2>1 DEF ChainInv
  <2>3. LinkInv(e)'
    BY <1>1, <1>2, <1>4, <2>1 DEF LinkInv, PendingRow
  <2>4. PendingFor(e)' = {r}
    BY <1>1, <1>2 DEF PendingFor, PendingRow
  <2>5. OpenInv(e)'
    BY <1>2, <1>4, <2>4 DEF OpenInv
  <2> QED
    BY <2>2, <2>3, <2>5 DEF EntityInv
<1> QED
  BY <1>5, <1>6, <1>7 DEF StoreInv, EntityInv

\* A pending request belongs to a submitted claim, is its only one, and under a
\* policy is linked to the current stage and to no other.
LEMMA PendingIsCurrent ==
    ASSUME StoreTypeOK, StoreInv, NEW r \in Request, request[r].status = "pending"
    PROVE  \E e \in Entity :
              /\ e = request[r].entity
              /\ claim[e] = "submitted"
              /\ PendingFor(e) = {r}
              /\ chain[e].status = "absent" => LinkedSteps(r) = {}
              /\ chain[e].status # "absent" =>
                    chain[e].status = "pending" /\ LinkedSteps(r) = {chain[e].step}
<1> USE NoneAssumption, StepFacts
<1>1. PICK e \in Entity : e = request[r].entity
  BY DEF StoreInv, RowInv
<1>2. r \in PendingFor(e)
  BY <1>1 DEF PendingFor
<1>3. claim[e] = "submitted" /\ PendingFor(e) = {r}
  BY <1>2 DEF StoreInv, OpenInv
<1>4. ASSUME chain[e].status = "absent" PROVE LinkedSteps(r) = {}
  <2>1. ChainInv(e)
    BY DEF StoreInv
  <2>2. \A s \in Step : stage[e][s].request = None
    BY <1>4, <2>1 DEF ChainInv
  <2> QED
    BY <1>1, <2>2 DEF LinkedSteps
<1>5. ASSUME chain[e].status # "absent"
      PROVE  chain[e].status = "pending" /\ LinkedSteps(r) = {chain[e].step}
  <2>1. chain[e].step \in Step /\ claim[e] = IF chain[e].status = "pending" THEN "submitted" ELSE chain[e].status
    BY <1>5 DEF StoreInv, ChainInv
  <2>2. chain[e].status = "pending"
    BY <1>3, <1>5, <2>1 DEF StoreTypeOK, ChainRow
  <2>3. stage[e][chain[e].step].request = r
    BY <1>3, <1>5 DEF StoreInv, OpenInv
  <2>4. ASSUME NEW s \in Step, stage[e][s].request = r PROVE s = chain[e].step
    BY <2>4 DEF StoreInv, LinkInv
  <2> QED
    BY <1>1, <2>1, <2>2, <2>3, <2>4 DEF LinkedSteps
<1> QED
  BY <1>1, <1>3, <1>4, <1>5

\* Approving a stage that is not the last preserves StoreInv: the next stage takes over.
LEMMA AdvanceChainInv ==
    ASSUME StoreTypeOK, StoreInv, NEW r \in Request, NEW q \in Request, NEW a \in Employee,
           AdvanceChain(r, q, a), claim' = claim
    PROVE  /\ StoreInv'
           /\ \A e \in Entity : e = request[r].entity =>
                /\ chain[e].status = "pending" /\ chain[e].step < chain[e].last
                /\ chain'[e] = ChainAt(chain[e], "pending", chain[e].step + 1)
                /\ \A d \in Entity : d # e => chain'[d] = chain[d]
<1> USE NoneAssumption, StepFacts
<1>1. PICK e \in Entity :
        /\ e = request[r].entity /\ claim[e] = "submitted" /\ PendingFor(e) = {r}
        /\ chain[e].status = "absent" => LinkedSteps(r) = {}
        /\ chain[e].status # "absent" => chain[e].status = "pending" /\ LinkedSteps(r) = {chain[e].step}
  BY PendingIsCurrent DEF AdvanceChain
<1>2. PICK s \in LinkedSteps(r) :
        /\ stage[e][s].status = "pending" /\ s < chain[e].last
        /\ request[r].status = "pending" /\ request[q].status = "absent"
        /\ request' = [request EXCEPT ![r] = DecidedRow(r, "approved"),
                                      ![q] = PendingRow(e, stage[e][s + 1].approver)]
        /\ stage' = [stage EXCEPT ![e][s] = DecidedStage(@, "approved", a),
                                  ![e][s + 1] = ActivatedStage(@, q)]
        /\ chain' = [chain EXCEPT ![e] = ChainAt(@, @.status, s + 1)]
  BY <1>1 DEF AdvanceChain
<1>3. s \in Step /\ s = chain[e].step /\ chain[e].status = "pending" /\ stage[e][s].request = r
  BY <1>1, <1>2 DEF LinkedSteps
<1>4. s \in Nat /\ s + 1 \in Step /\ chain[e].last \in Step /\ s + 1 <= chain[e].last
  BY <1>2, <1>3, StagesAssumption DEF StoreTypeOK, ChainRow, Step
<1> DEFINE b == stage[e][s + 1].approver
<1>5. b \in Employee
  BY <1>3, <1>4 DEF StoreInv, ChainInv
<1> HIDE DEF b
<1>6. request' = [request EXCEPT ![r] = DecidedRow(r, "approved"), ![q] = PendingRow(e, b)]
  BY <1>2 DEF b
<1>7. /\ r # q /\ request[q].entity = None
      /\ request'[r] = [status |-> "approved", entity |-> e, approver |-> request[r].approver]
      /\ request'[q] = [status |-> "pending", entity |-> e, approver |-> b]
      /\ \A k \in Request : k # r /\ k # q => request'[k] = request[k]
  <2>1. r # q /\ request[q].entity = None
    BY <1>2 DEF StoreInv, RowInv
  <2> QED
    BY <1>1, <1>6, <2>1 DEF StoreTypeOK, DecidedRow, PendingRow
<1>8. /\ chain'[e] = [status |-> "pending", step |-> s + 1, last |-> chain[e].last]
      /\ \A d \in Entity : d # e => chain'[d] = chain[d]
  BY <1>2, <1>3 DEF StoreTypeOK, ChainAt
<1>9. /\ stage'[e][s] = DecidedStage(stage[e][s], "approved", a)
      /\ stage'[e][s + 1] = ActivatedStage(stage[e][s + 1], q)
      /\ \A t \in Step : t # s /\ t # s + 1 => stage'[e][t] = stage[e][t]
      /\ \A d \in Entity : d # e => stage'[d] = stage[d]
  <2>1. s + 1 # s
    BY <1>4
  <2> QED
    BY <1>2, <1>3, <1>4, <2>1 DEF StoreTypeOK
<1>10. RowInv'
  <2>1. request[r].approver \in Employee
    BY <1>2 DEF StoreInv, RowInv
  <2>2. ASSUME NEW k \in Request
        PROVE  IF request'[k].status = "absent" THEN request'[k].entity = None
               ELSE request'[k].entity \in Entity /\ request'[k].approver \in Employee
    <3>1. CASE k = r \/ k = q
      BY <1>5, <1>7, <2>1, <3>1
    <3>2. CASE k # r /\ k # q
      BY <1>7, <3>2 DEF StoreInv, RowInv
    <3> QED
      BY <3>1, <3>2
  <2> QED
    BY <2>2 DEF RowInv
<1>11. ASSUME NEW d \in Entity, d # e PROVE EntityInv(d)'
  <2>1. \A k \in Request : (request[k].entity = d \/ request'[k].entity = d) => request'[k] = request[k]
    BY <1>1, <1>7, <1>11
  <2> QED
    BY <1>8, <1>9, <1>11, <2>1, FrameInv DEF StoreInv, EntityInv
<1>12. EntityInv(e)'
  <2>1. /\ stage'[e][s].status = "approved" /\ stage'[e][s].request = r
        /\ stage'[e][s].approver = stage[e][s].approver
        /\ stage'[e][s + 1].status = "pending" /\ stage'[e][s + 1].request = q
        /\ stage'[e][s + 1].approver = b
    BY <1>3, <1>9 DEF DecidedStage, ActivatedStage, b
  <2>2. \A t \in Step : t < s \/ t = s \/ t = s + 1 \/ t > s + 1
    BY <1>4 DEF Step
  <2>3. ChainInv(e)'
    <3>1. /\ \A t \in Step : t < s => stage[e][t].status = "approved"
          /\ \A t \in Step : t > s => stage[e][t].request = None
          /\ \A t \in Step : t <= chain[e].last => stage[e][t].approver \in Employee
          /\ \A t \in Step : t > s /\ t <= chain[e].last => stage[e][t].status = "cancelled"
          /\ \A t \in Step : t > chain[e].last => stage[e][t].status = "absent"
      BY <1>3 DEF StoreInv, ChainInv
    <3>2. ASSUME NEW t \in Step
          PROVE  /\ t < s + 1 => stage'[e][t].status = "approved"
                 /\ t > s + 1 => stage'[e][t].request = None
                 /\ t <= chain[e].last => stage'[e][t].approver \in Employee
                 /\ t > s + 1 /\ t <= chain[e].last => stage'[e][t].status = "cancelled"
                 /\ t > chain[e].last => stage'[e][t].status = "absent"
      <4>1. CASE t < s
        BY <1>4, <1>9, <3>1, <4>1 DEF Step
      <4>2. CASE t = s
        BY <1>4, <2>1, <3>1, <4>2 DEF Step
      <4>3. CASE t = s + 1
        BY <1>4, <1>5, <2>1, <4>3 DEF Step
      <4>4. CASE t > s + 1
        BY <1>4, <1>9, <3>1, <4>4 DEF Step
      <4> QED
        BY <2>2, <4>1, <4>2, <4>3, <4>4
    <3>3. claim'[e] = "submitted"
      BY <1>1
    <3> QED
      BY <1>4, <1>8, <2>1, <3>2, <3>3 DEF ChainInv
  <2>4. PendingFor(e)' = {q}
    BY <1>1, <1>7 DEF PendingFor
  <2>5. OpenInv(e)'
    BY <1>1, <1>8, <2>1, <2>4 DEF OpenInv
  <2>6. LinkInv(e)'
    <3> SUFFICES ASSUME NEW t \in Step, stage'[e][t].request # None
                 PROVE  LET k == stage'[e][t].request IN
                        /\ request'[k].status # "absent"
                        /\ request'[k].entity = e
                        /\ request'[k].approver = stage'[e][t].approver
                        /\ t # s + 1 => request'[k].status # "pending"
      BY <1>8 DEF LinkInv
    <3>1. CASE t = s
      <4>1. request[r].approver = stage[e][s].approver
        BY <1>3 DEF StoreInv, LinkInv
      <4> QED
        BY <1>7, <2>1, <3>1, <4>1
    <3>2. CASE t = s + 1
      BY <1>7, <2>1, <3>2
    <3>3. CASE t # s /\ t # s + 1
      <4>1. stage'[e][t] = stage[e][t]
        BY <1>9, <3>3
      <4>2. PICK k \in Request : k = stage[e][t].request
        BY <4>1 DEF StoreTypeOK, StageRow
      <4>3. /\ request[k].status # "absent" /\ request[k].entity = e
            /\ request[k].approver = stage[e][t].approver
            /\ request[k].status # "pending"
        BY <1>3, <3>3, <4>1, <4>2 DEF StoreInv, LinkInv
      <4>4. request'[k] = request[k]
        BY <1>2, <1>7, <4>3
      <4> QED
        BY <4>1, <4>2, <4>3, <4>4
    <3> QED
      BY <3>1, <3>2, <3>3
  <2> QED
    BY <2>3, <2>5, <2>6 DEF EntityInv
<1>13. StoreInv'
  BY <1>10, <1>11, <1>12 DEF StoreInv, EntityInv
<1> QED
  BY <1>1, <1>2, <1>3, <1>8, <1>13 DEF ChainAt

\* The approval or refusal that decides a claim preserves StoreInv, provided the
\* claim gets the same verdict in that step.
LEMMA FinishInv ==
    ASSUME StoreTypeOK, StoreInv, NEW r \in Request, NEW a \in Employee, NEW v \in Verdict,
           claim \in [Entity -> {"draft", "submitted", "approved", "rejected"}],
           \/ v = "approved" /\ FinishApproval(r, a)
           \/ v = "rejected" /\ FinishRejection(r, a),
           claim' = [claim EXCEPT ![request[r].entity] = v]
    PROVE  /\ StoreInv'
           /\ \A e \in Entity : e = request[r].entity =>
                /\ (v = "approved" /\ chain[e].status # "absent") => chain[e].step = chain[e].last
                /\ \A d \in Entity : d # e => chain'[d] = chain[d] /\ claim'[d] = claim[d]
<1> USE NoneAssumption, StepFacts
<1>1. PICK e \in Entity :
        /\ e = request[r].entity /\ claim[e] = "submitted" /\ PendingFor(e) = {r}
        /\ chain[e].status = "absent" => LinkedSteps(r) = {}
        /\ chain[e].status # "absent" => chain[e].status = "pending" /\ LinkedSteps(r) = {chain[e].step}
  BY PendingIsCurrent DEF FinishApproval, FinishRejection
<1>2. /\ request[r].status = "pending"
      /\ request' = [request EXCEPT ![r] = DecidedRow(r, v)]
      /\ \/ LinkedSteps(r) = {} /\ UNCHANGED <<chain, stage>>
         \/ \E s \in LinkedSteps(r) :
              /\ stage[e][s].status = "pending"
              /\ v = "approved" => s = chain[e].last
              /\ stage' = [stage EXCEPT ![e][s] = DecidedStage(@, v, a)]
              /\ chain' = [chain EXCEPT ![e] = ChainAt(@, v, @.step)]
  BY <1>1 DEF FinishApproval, FinishRejection
<1>3. v \in {"approved", "rejected"}
  BY DEF Verdict
<1>4. /\ request'[r] = [status |-> v, entity |-> e, approver |-> request[r].approver]
      /\ \A k \in Request : k # r => request'[k] = request[k]
  BY <1>1, <1>2 DEF StoreTypeOK, DecidedRow
<1>5. claim'[e] = v /\ \A d \in Entity : d # e => claim'[d] = claim[d]
  BY <1>1
<1>6. RowInv'
  <2>1. request[r].approver \in Employee
    BY <1>2 DEF StoreInv, RowInv
  <2>2. ASSUME NEW k \in Request
        PROVE  IF request'[k].status = "absent" THEN request'[k].entity = None
               ELSE request'[k].entity \in Entity /\ request'[k].approver \in Employee
    <3>1. CASE k = r
      BY <1>3, <1>4, <2>1, <3>1
    <3>2. CASE k # r
      BY <1>4, <3>2 DEF StoreInv, RowInv
    <3> QED
      BY <3>1, <3>2
  <2> QED
    BY <2>2 DEF RowInv
<1>7. OpenInv(e)'
  <2>1. PendingFor(e)' = {}
    BY <1>1, <1>3, <1>4 DEF PendingFor
  <2> QED
    BY <1>3, <1>5, <2>1 DEF OpenInv
<1>8. ASSUME NEW d \in Entity, d # e, chain'[d] = chain[d], stage'[d] = stage[d]
      PROVE  EntityInv(d)'
  <2>1. \A k \in Request : (request[k].entity = d \/ request'[k].entity = d) => request'[k] = request[k]
    BY <1>1, <1>4, <1>8
  <2> QED
    BY <1>5, <1>8, <2>1, FrameInv DEF StoreInv, EntityInv
<1>9. CASE chain[e].status = "absent"
  <2>1. chain' = chain /\ stage' = stage
    BY <1>1, <1>2, <1>9
  <2>2. \A s \in Step : stage[e][s].status = "absent" /\ stage[e][s].request = None
    BY <1>9 DEF StoreInv, ChainInv
  <2>3. ChainInv(e)' /\ LinkInv(e)'
    BY <1>9, <2>1, <2>2 DEF ChainInv, LinkInv
  <2>4. \A d \in Entity : EntityInv(d)'
    BY <1>7, <1>8, <2>1, <2>3 DEF EntityInv
  <2> QED
    BY <1>1, <1>5, <1>6, <1>9, <2>1, <2>4 DEF StoreInv, EntityInv
<1>10. CASE chain[e].status # "absent"
  <2>1. PICK s \in LinkedSteps(r) :
          /\ stage[e][s].status = "pending"
          /\ v = "approved" => s = chain[e].last
          /\ stage' = [stage EXCEPT ![e][s] = DecidedStage(@, v, a)]
          /\ chain' = [chain EXCEPT ![e] = ChainAt(@, v, @.step)]
    BY <1>1, <1>2, <1>10
  <2>2. s \in Step /\ s = chain[e].step /\ stage[e][s].request = r
    BY <1>1, <1>10, <2>1 DEF LinkedSteps
  <2>3. /\ chain'[e] = [status |-> v, step |-> s, last |-> chain[e].last]
        /\ stage'[e][s] = DecidedStage(stage[e][s], v, a)
        /\ \A t \in Step : t # s => stage'[e][t] = stage[e][t]
        /\ \A d \in Entity : d # e => chain'[d] = chain[d] /\ stage'[d] = stage[d]
    BY <2>1, <2>2 DEF StoreTypeOK, ChainAt
  <2>4. /\ stage'[e][s].status = v /\ stage'[e][s].request = r
        /\ stage'[e][s].approver = stage[e][s].approver
    BY <2>2, <2>3 DEF DecidedStage
  <2>5. ChainInv(e)'
    <3>1. /\ chain[e].last \in Step /\ s <= chain[e].last
          /\ \A t \in Step : t < s => stage[e][t].status = "approved"
          /\ \A t \in Step : t > s => stage[e][t].request = None
          /\ \A t \in Step : t <= chain[e].last => stage[e][t].approver \in Employee
          /\ \A t \in Step : t > s /\ t <= chain[e].last => stage[e][t].status = "cancelled"
          /\ \A t \in Step : t > chain[e].last => stage[e][t].status = "absent"
      BY <1>10, <2>2 DEF StoreInv, ChainInv
    <3>2. ASSUME NEW t \in Step
          PROVE  /\ t < s => stage'[e][t].status = "approved"
                 /\ t > s => stage'[e][t].request = None
                 /\ t <= chain[e].last => stage'[e][t].approver \in Employee
                 /\ t > s /\ t <= chain[e].last => stage'[e][t].status = "cancelled"
                 /\ t > chain[e].last => stage'[e][t].status = "absent"
      <4>1. CASE t = s
        BY <2>4, <3>1, <4>1 DEF Step
      <4>2. CASE t # s
        BY <2>3, <3>1, <4>2
      <4> QED
        BY <4>1, <4>2
    <3>3. v = "approved" => s = chain[e].last
      BY <2>1
    <3>4. chain'[e] = [status |-> v, step |-> s, last |-> chain[e].last]
      BY <2>3
    <3> QED
      BY <1>3, <1>5, <2>2, <2>4, <3>1, <3>2, <3>3, <3>4 DEF ChainInv
  <2>6. LinkInv(e)'
    <3> SUFFICES ASSUME NEW t \in Step, stage'[e][t].request # None
                 PROVE  LET k == stage'[e][t].request IN
                        /\ request'[k].status # "absent"
                        /\ request'[k].entity = e
                        /\ request'[k].approver = stage'[e][t].approver
                        /\ t # s => request'[k].status # "pending"
      BY <2>3 DEF LinkInv
    <3>1. CASE t = s
      <4>1. LinkInv(e) /\ r # None
        BY DEF StoreInv
      <4>2. request[r].approver = stage[e][s].approver
        BY <2>2, <4>1 DEF LinkInv
      <4> QED
        BY <1>3, <1>4, <2>4, <3>1, <4>2
    <3>2. CASE t # s
      <4>1. stage'[e][t] = stage[e][t]
        BY <2>3, <3>2
      <4>2. PICK k \in Request : k = stage[e][t].request
        BY <4>1 DEF StoreTypeOK, StageRow
      <4>3. /\ request[k].status # "absent" /\ request[k].entity = e
            /\ request[k].approver = stage[e][t].approver
            /\ request[k].status # "pending"
        BY <2>2, <3>2, <4>1, <4>2 DEF StoreInv, LinkInv
      <4>4. request'[k] = request[k]
        BY <1>2, <1>4, <4>3
      <4> QED
        BY <4>1, <4>2, <4>3, <4>4
    <3> QED
      BY <3>1, <3>2
  <2>7. \A d \in Entity : EntityInv(d)'
    BY <1>7, <1>8, <2>3, <2>5, <2>6 DEF EntityInv
  <2> QED
    BY <1>1, <1>5, <1>6, <2>1, <2>2, <2>3, <2>7 DEF StoreInv, EntityInv
<1> QED
  BY <1>9, <1>10
-----------------------------------------------------------------------------
(***************************************************************************)
(* What no write to the tables undoes.                                     *)
(***************************************************************************)

\* A row that exists stays, with the same approver.
RowsKept ==
    \A k \in Request : request[k].status # "absent" =>
        request'[k].status # "absent" /\ request'[k].approver = request[k].approver

\* A stage that was decided is not written again.
StagesKept ==
    \A e \in Entity, s \in Step : stage[e][s].status \in Verdict => stage'[e][s] = stage[e][s]

Entitled(row) ==
    \/ row.decidedBy = row.approver
    \/ row.decidedBy \in ManageAll
    \/ {row.decidedBy, row.approver} \subseteq Eligible

\* Submission leaves decided stages and the rows of existing requests alone.
LEMMA CreateKeeps ==
    ASSUME StoreTypeOK, StoreInv, StageDecidersEntitled, NEW e \in Entity, NEW r \in Request,
           claim[e] = "draft",
           \/ \E a \in Employee : CreateDefault(e, a, r)
           \/ \E n \in Step : \E approvers \in [1..n -> Employee] : CreateChain(e, approvers, n, r)
    PROVE  RowsKept /\ StagesKept /\ StageDecidersEntitled'
<1>1. CASE \E a \in Employee : CreateDefault(e, a, r)
  BY <1>1 DEF CreateDefault, Insertable, RowsKept, StagesKept, StageDecidersEntitled, StoreTypeOK
<1>2. ASSUME NEW n \in Step, NEW approvers \in [1..n -> Employee], CreateChain(e, approvers, n, r)
      PROVE  RowsKept /\ StagesKept /\ StageDecidersEntitled'
  <2>1. RowsKept
    BY <1>2 DEF CreateChain, Insertable, RowsKept, StoreTypeOK
  <2>2. \A s \in Step : stage[e][s].status = "absent"
    BY DEF StoreInv, OpenInv, ChainInv
  <2>3. /\ \A d \in Entity : d # e => stage'[d] = stage[d]
        /\ \A s \in Step : stage'[e][s].status \in {"absent", "pending", "cancelled"}
    BY <1>2, <2>2 DEF CreateChain, StoreTypeOK
  <2>4. StagesKept
    BY <2>2, <2>3 DEF StagesKept, Verdict
  <2>5. ASSUME NEW d \in Entity, NEW s \in Step, stage'[d][s].status \in Verdict
        PROVE  Entitled(stage'[d][s])
    <3>1. d # e
      BY <2>3, <2>5 DEF Verdict
    <3> QED
      BY <2>3, <2>5, <3>1 DEF StageDecidersEntitled, Entitled
  <2> QED
    BY <2>1, <2>4, <2>5 DEF StageDecidersEntitled, Entitled
<1> QED
  BY <1>1, <1>2

\* Advancing a chain leaves decided stages and the approvers of existing requests
\* alone, and the stage it decides gets an entitled decider.
LEMMA AdvanceKeeps ==
    ASSUME StoreTypeOK, StoreInv, StageDecidersEntitled, NEW r \in Request, NEW q \in Request,
           NEW a \in Employee, AdvanceChain(r, q, a), CanDecideRequest(a, r)
    PROVE  RowsKept /\ StagesKept /\ StageDecidersEntitled'
<1> USE NoneAssumption, StepFacts
<1>1. PICK e \in Entity : e = request[r].entity
  BY DEF AdvanceChain, StoreInv, RowInv
<1>2. PICK s \in LinkedSteps(r) :
        /\ stage[e][s].status = "pending" /\ s < chain[e].last
        /\ request[q].status = "absent" /\ PendingFor(e) = {r}
        /\ request' = [request EXCEPT ![r] = DecidedRow(r, "approved"),
                                      ![q] = PendingRow(e, stage[e][s + 1].approver)]
        /\ stage' = [stage EXCEPT ![e][s] = DecidedStage(@, "approved", a),
                                  ![e][s + 1] = ActivatedStage(@, q)]
  BY <1>1 DEF AdvanceChain
<1>3. request[r].status = "pending"
  BY DEF AdvanceChain
<1>4. s \in Step /\ stage[e][s].request = r
  BY <1>1, <1>2 DEF LinkedSteps
<1>5. r # None
  OBVIOUS
<1>6. request[r].approver = stage[e][s].approver /\ chain[e].status # "absent" /\ s = chain[e].step
  <2>1. LinkInv(e) /\ ChainInv(e)
    BY DEF StoreInv
  <2>2. request[r].approver = stage[e][s].approver /\ s = chain[e].step
    BY <1>3, <1>4, <1>5, <2>1 DEF LinkInv
  <2>3. chain[e].status # "absent"
    BY <1>4, <1>5, <2>1 DEF ChainInv
  <2> QED
    BY <2>2, <2>3
<1>7. s + 1 \in Step /\ s + 1 <= chain[e].last /\ s + 1 > s
  BY <1>2, <1>4, StagesAssumption DEF StoreTypeOK, ChainRow, Step
<1>8. stage[e][s + 1].status = "cancelled"
  BY <1>6, <1>7 DEF StoreInv, ChainInv
<1>9. RowsKept
  BY <1>2, <1>3 DEF RowsKept, StoreTypeOK, DecidedRow
<1>10. ASSUME NEW d \in Entity, NEW t \in Step
       PROVE  \/ d = e /\ t = s /\ stage'[d][t] = DecidedStage(stage[e][s], "approved", a)
              \/ d = e /\ t = s + 1 /\ stage'[d][t] = ActivatedStage(stage[e][s + 1], q)
              \/ (d # e \/ (t # s /\ t # s + 1)) /\ stage'[d][t] = stage[d][t]
  <2>1. s # s + 1
    BY <1>4, StagesAssumption DEF Step
  <2>2. stage' = [stage EXCEPT ![e][s] = DecidedStage(@, "approved", a),
                               ![e][s + 1] = ActivatedStage(@, q)]
    BY <1>2
  <2>3. /\ stage'[e][s] = DecidedStage(stage[e][s], "approved", a)
        /\ stage'[e][s + 1] = ActivatedStage(stage[e][s + 1], q)
        /\ \A u \in Step : u # s /\ u # s + 1 => stage'[e][u] = stage[e][u]
        /\ \A c \in Entity : c # e => stage'[c] = stage[c]
    BY <1>4, <1>7, <2>1, <2>2 DEF StoreTypeOK
  <2> QED
    BY <2>3
<1>11. StagesKept
  BY <1>2, <1>8, <1>10 DEF StagesKept, Verdict
<1>12. Entitled(DecidedStage(stage[e][s], "approved", a))
  BY <1>6 DEF Entitled, DecidedStage, CanDecideRequest
<1>13. ASSUME NEW d \in Entity, NEW t \in Step, stage'[d][t].status \in Verdict
       PROVE  Entitled(stage'[d][t])
  <2>1. CASE stage'[d][t] = stage[d][t]
    BY <1>13, <2>1 DEF StageDecidersEntitled, Entitled
  <2>2. CASE stage'[d][t] = DecidedStage(stage[e][s], "approved", a)
    BY <1>12, <2>2
  <2>3. CASE stage'[d][t] = ActivatedStage(stage[e][s + 1], q)
    BY <1>13, <2>3 DEF ActivatedStage, Verdict
  <2> QED
    BY <1>10, <2>1, <2>2, <2>3
<1> QED
  BY <1>9, <1>11, <1>13 DEF StageDecidersEntitled, Entitled

\* So does the decision that ends a chain.
LEMMA FinishKeeps ==
    ASSUME StoreTypeOK, StoreInv, StageDecidersEntitled, NEW r \in Request, NEW a \in Employee,
           FinishApproval(r, a) \/ FinishRejection(r, a), CanDecideRequest(a, r)
    PROVE  RowsKept /\ StagesKept /\ StageDecidersEntitled'
<1> USE NoneAssumption, StepFacts
<1>1. PICK e \in Entity : e = request[r].entity
  BY DEF FinishApproval, FinishRejection, StoreInv, RowInv
<1>2. PICK v \in Verdict :
        /\ request[r].status = "pending"
        /\ request' = [request EXCEPT ![r] = DecidedRow(r, v)]
        /\ \/ stage' = stage
           \/ \E s \in LinkedSteps(r) :
                /\ stage[e][s].status = "pending"
                /\ stage' = [stage EXCEPT ![e][s] = DecidedStage(@, v, a)]
  BY <1>1 DEF FinishApproval, FinishRejection, Verdict
<1>3. RowsKept
  BY <1>2 DEF RowsKept, StoreTypeOK, DecidedRow, Verdict
<1>4. CASE stage' = stage
  BY <1>3, <1>4 DEF StagesKept, StageDecidersEntitled
<1>5. ASSUME NEW s \in LinkedSteps(r), stage[e][s].status = "pending",
             stage' = [stage EXCEPT ![e][s] = DecidedStage(@, v, a)]
      PROVE  StagesKept /\ StageDecidersEntitled'
  <2>1. s \in Step /\ stage[e][s].request = r /\ r # None
    BY <1>1 DEF LinkedSteps
  <2>2. request[r].approver = stage[e][s].approver
    <3>1. LinkInv(e)
      BY DEF StoreInv
    <3> QED
      BY <2>1, <3>1 DEF LinkInv
  <2>3. ASSUME NEW d \in Entity, NEW t \in Step
        PROVE  \/ d = e /\ t = s /\ stage'[d][t] = DecidedStage(stage[e][s], v, a)
               \/ (d # e \/ t # s) /\ stage'[d][t] = stage[d][t]
    BY <1>5, <2>1 DEF StoreTypeOK
  <2>4. StagesKept
    <3>1. stage[e][s].status = "pending"
      BY <1>5
    <3> QED
      BY <2>3, <3>1 DEF StagesKept, Verdict
  <2>5. Entitled(DecidedStage(stage[e][s], v, a))
    BY <2>2 DEF Entitled, DecidedStage, CanDecideRequest
  <2>6. ASSUME NEW d \in Entity, NEW t \in Step, stage'[d][t].status \in Verdict
        PROVE  Entitled(stage'[d][t])
    <3>1. CASE stage'[d][t] = stage[d][t]
      BY <2>6, <3>1 DEF StageDecidersEntitled, Entitled
    <3>2. CASE stage'[d][t] = DecidedStage(stage[e][s], v, a)
      BY <2>5, <3>2
    <3> QED
      BY <2>3, <3>1, <3>2
  <2> QED
    BY <2>4, <2>6 DEF StageDecidersEntitled, Entitled
<1> QED
  BY <1>2, <1>3, <1>4, <1>5

-----------------------------------------------------------------------------
(***************************************************************************)
(* The steps of Next.                                                      *)
(***************************************************************************)

\* The two ways a decision transaction can go for the claim.
ChainAdvances(e) ==
    /\ UNCHANGED <<claim, decisionLog>>
    /\ chain[e].status = "pending" /\ chain[e].step < chain[e].last
    /\ chain' = [chain EXCEPT ![e] = ChainAt(@, "pending", chain[e].step + 1)]

ClaimEnds(e, a, v) ==
    /\ claim' = [claim EXCEPT ![e] = v]
    /\ decisionLog' = [decisionLog EXCEPT ![e] = Append(@, [actor |-> a, action |-> v])]
    /\ (v = "approved" /\ chain[e].status # "absent") => chain[e].step = chain[e].last
    /\ \A d \in Entity : d # e => chain'[d] = chain[d]

\* What a decision transaction does to the invariant, to the claim and to the
\* stages that are left: it advances the chain or ends the claim, never both.
LEMMA DecideStep ==
    ASSUME IInv, NEW e \in Entity, NEW r \in PendingFor(e), NEW a \in Employee, NEW v \in Verdict,
           Decide(e, r, a, v), CanDecideRequest(a, r)
    PROVE  /\ StoreTypeOK' /\ StoreInv' /\ StageDecidersEntitled' /\ RowsKept /\ StagesKept
           /\ claim[e] = "submitted"
           /\ ChainAdvances(e) \/ ClaimEnds(e, a, v)
<1>1. r \in Request /\ request[r].entity = e /\ claim[e] = "submitted"
  BY DEF PendingFor, Decide
<1>2. StoreTypeOK /\ StoreInv /\ StageDecidersEntitled /\ RowInv
      /\ claim \in [Entity -> {"draft", "submitted", "approved", "rejected"}]
  BY DEF IInv, TypeOK, StoreInv
<1>3. ASSUME NEW q \in Request, AdvanceChain(r, q, a), UNCHANGED claimVars
      PROVE  /\ StoreTypeOK' /\ StoreInv' /\ StageDecidersEntitled' /\ RowsKept /\ StagesKept
             /\ ChainAdvances(e)
  <2>1. claim' = claim /\ decisionLog' = decisionLog
    BY <1>3 DEF claimVars
  <2>2. /\ StoreInv' /\ chain[e].status = "pending" /\ chain[e].step < chain[e].last
        /\ chain'[e] = ChainAt(chain[e], "pending", chain[e].step + 1)
        /\ \A d \in Entity : d # e => chain'[d] = chain[d]
    BY <1>1, <1>2, <1>3, <2>1, AdvanceChainInv
  <2>3. StoreTypeOK'
    BY <1>1, <1>2, <1>3, AdvanceChainType
  <2>4. chain' = [chain EXCEPT ![e] = ChainAt(@, "pending", chain[e].step + 1)]
    BY <1>2, <2>2, <2>3 DEF StoreTypeOK
  <2>5. StageDecidersEntitled' /\ RowsKept /\ StagesKept
    BY <1>1, <1>2, <1>3, AdvanceKeeps
  <2> QED
    BY <2>1, <2>2, <2>3, <2>4, <2>5 DEF ChainAdvances
<1>4. ASSUME \/ v = "approved" /\ FinishApproval(r, a)
             \/ v = "rejected" /\ FinishRejection(r, a),
             PersistDecision(e, a, v)
      PROVE  /\ StoreTypeOK' /\ StoreInv' /\ StageDecidersEntitled' /\ RowsKept /\ StagesKept
             /\ ClaimEnds(e, a, v)
  <2>1. claim' = [claim EXCEPT ![request[r].entity] = v]
    BY <1>1, <1>4 DEF PersistDecision
  <2>2. /\ StoreInv'
        /\ v = "approved" /\ chain[e].status # "absent" => chain[e].step = chain[e].last
        /\ \A d \in Entity : d # e => chain'[d] = chain[d]
    <3>1. \/ v = "approved" /\ FinishApproval(r, a)
          \/ v = "rejected" /\ FinishRejection(r, a)
      BY <1>4
    <3>2. /\ StoreInv'
          /\ \A d \in Entity : d = request[r].entity =>
               /\ (v = "approved" /\ chain[d].status # "absent") => chain[d].step = chain[d].last
               /\ \A c \in Entity : c # d => chain'[c] = chain[c] /\ claim'[c] = claim[c]
      BY <1>1, <1>2, <2>1, <3>1, FinishInv
    <3> QED
      BY <1>1, <3>2
  <2>3. StoreTypeOK'
    BY <1>1, <1>2, <1>4, FinishType
  <2>4. StageDecidersEntitled' /\ RowsKept /\ StagesKept
    BY <1>1, <1>2, <1>4, FinishKeeps
  <2> QED
    BY <1>1, <1>4, <2>1, <2>2, <2>3, <2>4 DEF PersistDecision, ClaimEnds
<1> QED
  BY <1>1, <1>3, <1>4 DEF Decide

\* The log of a claim gets its one row in the step that decides the claim.
LEMMA LoggedOnceStep ==
    ASSUME LoggedOnce, NEW e \in Entity, NEW a \in Employee, NEW v \in Verdict,
           claim \in [Entity -> {"draft", "submitted", "approved", "rejected"}],
           decisionLog \in [Entity -> Seq(LogRow)],
           claim[e] = "submitted", claim' = [claim EXCEPT ![e] = v],
           decisionLog' = [decisionLog EXCEPT ![e] = Append(@, [actor |-> a, action |-> v])]
    PROVE  LoggedOnce' /\ decisionLog' \in [Entity -> Seq(LogRow)]
<1> DEFINE row == [actor |-> a, action |-> v]
<1>1. row \in LogRow
  BY DEF LogRow
<1>2. decisionLog[e] = <<>>
  BY DEF LoggedOnce, Verdict
<1>3. decisionLog'[e] = <<row>> /\ claim'[e] = v
  <2>1. decisionLog'[e] = Append(decisionLog[e], row)
    OBVIOUS
  <2>2. Append(<<>>, row) = <<row>>
    OBVIOUS
  <2> QED
    BY <1>2, <2>1, <2>2
<1>4. Len(<<row>>) = 1 /\ <<row>>[1].action = v /\ <<row>> \in Seq(LogRow)
  BY <1>1
<1>5. \A d \in Entity : d # e => decisionLog'[d] = decisionLog[d] /\ claim'[d] = claim[d]
  OBVIOUS
<1>6. LoggedOnce'
  BY <1>3, <1>4, <1>5 DEF LoggedOnce
<1>7. decisionLog' \in [Entity -> Seq(LogRow)]
  BY <1>3, <1>4, <1>5
<1> QED
  BY <1>6, <1>7

\* Open calls stay entitled: approvers of existing rows do not change.
LEMMA SessionKept ==
    ASSUME TypeOK, SessionInv, RowsKept,
           \A x \in Session : session'[x] = session[x] \/ session'[x].phase # "opened"
    PROVE  SessionInv'
<1> SUFFICES ASSUME NEW x \in Session, session'[x].phase = "opened"
             PROVE  /\ request'[session'[x].request].status # "absent"
                    /\ CanDecideRequest(session[x].actor, session[x].request)'
  BY DEF SessionInv
<1>1. session'[x] = session[x] /\ session[x].phase = "opened"
  OBVIOUS
<1>2. session[x].request \in Request
  BY <1>1 DEF TypeOK, Idle, OpenedCall, DecidedCall
<1>3. request[session[x].request].status # "absent" /\ CanDecideRequest(session[x].actor, session[x].request)
  BY <1>1 DEF SessionInv
<1> QED
  BY <1>1, <1>2, <1>3 DEF RowsKept, CanDecideRequest

\* IInv is preserved by submission,
LEMMA SubmitStep ==
    ASSUME IInv, NEW e \in Entity, Submit(e)
    PROVE  IInv' /\ StagesKept
<1>1. /\ StoreTypeOK /\ StoreInv /\ StageDecidersEntitled /\ TypeOK /\ SessionInv
      /\ claim \in [Entity -> {"draft", "submitted", "approved", "rejected"}]
  BY DEF IInv, TypeOK
<1>2. /\ claim[e] = "draft" /\ claim' = [claim EXCEPT ![e] = "submitted"]
      /\ UNCHANGED <<decisionLog, session, notified>>
  BY DEF Submit
<1>3. PICK r \in Request :
         \/ \E a \in Eligible : CreateDefault(e, a, r)
         \/ \E n \in Step : \E approvers \in [1..n -> Employee] : CreateChain(e, approvers, n, r)
  BY DEF Submit
<1>4. StoreTypeOK' /\ StoreInv'
  <2>1. ASSUME NEW a \in Eligible, CreateDefault(e, a, r) PROVE StoreTypeOK' /\ StoreInv'
    BY <1>1, <1>2, <2>1, EmployeeAssumption, CreateDefaultType, CreateDefaultInv
  <2>2. ASSUME NEW n \in Step, NEW approvers \in [1..n -> Employee], CreateChain(e, approvers, n, r)
        PROVE  StoreTypeOK' /\ StoreInv'
    BY <1>1, <1>2, <2>2, CreateChainType, CreateChainInv
  <2> QED
    BY <1>3, <2>1, <2>2
<1>5. RowsKept /\ StagesKept /\ StageDecidersEntitled'
  BY <1>1, <1>2, <1>3, EmployeeAssumption, CreateKeeps
<1>6. TypeOK'
  BY <1>1, <1>2, <1>4 DEF TypeOK
<1>7. SessionInv'
  BY <1>1, <1>2, <1>5, SessionKept
<1>8. LogInv'
  <2>1. LoggedOnce'
    BY <1>1, <1>2 DEF IInv, LogInv, LoggedOnce, Verdict
  <2>2. ASSUME NEW d \in Entity, NEW n \in notified[d] PROVE d # e /\ n.action = claim[d]
    BY <1>1, <1>2 DEF IInv, LogInv, NotifiedOfTheDecision, TypeOK, LogRow, Verdict
  <2>3. NotifiedOfTheDecision'
    BY <1>1, <1>2, <2>2 DEF NotifiedOfTheDecision
  <2> QED
    BY <2>1, <2>3 DEF LogInv
<1> QED
  BY <1>4, <1>5, <1>6, <1>7, <1>8 DEF IInv

\* by opening a request in the inbox,
LEMMA OpenRequestStep ==
    ASSUME IInv, NEW x \in Session, NEW a \in Employee, NEW r \in Request, NEW v \in Verdict,
           OpenRequest(x, a, r, v)
    PROVE  IInv' /\ StagesKept
<1>1. UNCHANGED <<request, chain, stage, claim, decisionLog, notified>>
  BY DEF OpenRequest, storeVars, claimVars
<1>2. request[r].status = "pending" /\ CanDecideRequest(a, r) /\ request[r].entity \in Entity
  BY DEF OpenRequest, Open, IInv, StoreInv, RowInv
<1> DEFINE call == [phase |-> "opened", actor |-> a, request |-> r, entity |-> request[r].entity,
                    verdict |-> v, own |-> request[r].approver = a]
<1>3. session' = [session EXCEPT ![x] = call]
  BY DEF OpenRequest, Open
<1>4. call \in OpenedCall
  BY <1>2 DEF OpenedCall
<1>5. session' \in [Session -> {Idle} \cup OpenedCall \cup DecidedCall]
  BY <1>3, <1>4 DEF IInv, TypeOK
<1>6. TypeOK'
  BY <1>1, <1>5 DEF IInv, TypeOK, StoreTypeOK
<1>7. SessionInv'
  <2>1. ASSUME NEW y \in Session, session'[y].phase = "opened"
        PROVE  /\ request'[session'[y].request].status # "absent"
               /\ CanDecideRequest(session[y].actor, session[y].request)'
    <3>1. CASE y = x
      <4>1. session'[x] = call
        BY <1>3 DEF IInv, TypeOK
      <4>2. session'[x].request = r /\ session'[x].actor = a
        BY <4>1
      <4> QED
        BY <1>1, <1>2, <3>1, <4>2 DEF CanDecideRequest
    <3>2. CASE y # x
      <4>1. session'[y] = session[y]
        BY <1>3, <3>2 DEF IInv, TypeOK
      <4> QED
        BY <1>1, <2>1, <4>1 DEF IInv, SessionInv, CanDecideRequest
    <3> QED
      BY <3>1, <3>2
  <2> QED
    BY <2>1 DEF SessionInv
<1>8. StoreInv'
  BY <1>1 DEF IInv, StoreInv, RowInv, ChainInv, LinkInv, OpenInv, PendingFor
<1>9. LogInv' /\ StageDecidersEntitled'
  BY <1>1 DEF IInv, LogInv, LoggedOnce, NotifiedOfTheDecision, StageDecidersEntitled
<1> QED
  BY <1>1, <1>6, <1>7, <1>8, <1>9 DEF IInv, StagesKept

\* by any decision of a request that its caller may decide,
LEMMA CommitStep ==
    ASSUME IInv, NEW x \in Session, NEW e \in Entity, NEW r \in PendingFor(e), NEW a \in Employee,
           NEW v \in Verdict,
           CanDecideRequest(a, r), Decide(e, r, a, v),
           Decided(x, e, a, v), UNCHANGED notified
    PROVE  IInv' /\ StagesKept
<1>1. /\ TypeOK /\ StoreInv /\ SessionInv /\ LoggedOnce /\ NotifiedOfTheDecision
      /\ claim \in [Entity -> {"draft", "submitted", "approved", "rejected"}]
      /\ decisionLog \in [Entity -> Seq(LogRow)]
  BY DEF IInv, TypeOK, LogInv
<1>2. /\ StoreTypeOK' /\ StoreInv' /\ StageDecidersEntitled' /\ RowsKept /\ StagesKept
      /\ claim[e] = "submitted"
      /\ \/ UNCHANGED <<claim, decisionLog>>
         \/ /\ claim' = [claim EXCEPT ![e] = v]
            /\ decisionLog' = [decisionLog EXCEPT ![e] = Append(@, [actor |-> a, action |-> v])]
  BY DecideStep DEF ChainAdvances, ClaimEnds
<1>3. LoggedOnce' /\ decisionLog' \in [Entity -> Seq(LogRow)]
  <2>1. CASE UNCHANGED <<claim, decisionLog>>
    BY <1>1, <2>1 DEF LoggedOnce
  <2>2. CASE /\ claim' = [claim EXCEPT ![e] = v]
             /\ decisionLog' = [decisionLog EXCEPT ![e] = Append(@, [actor |-> a, action |-> v])]
    BY <1>1, <1>2, <2>2, LoggedOnceStep
  <2> QED
    BY <1>2, <2>1, <2>2
<1>4. claim' \in [Entity -> {"draft", "submitted", "approved", "rejected"}]
  <2>1. v \in {"draft", "submitted", "approved", "rejected"}
    BY DEF Verdict
  <2> QED
    BY <1>1, <1>2, <2>1
<1>5. NotifiedOfTheDecision'
  <2>1. ASSUME NEW d \in Entity, NEW n \in notified[d] PROVE n.action = claim'[d]
    <3>1. n.action = claim[d] /\ n.action \in Verdict
      BY <1>1 DEF NotifiedOfTheDecision, TypeOK, LogRow
    <3>2. d # e
      BY <1>2, <3>1 DEF Verdict
    <3>3. claim' = claim \/ claim' = [claim EXCEPT ![e] = v]
      BY <1>2
    <3>4. claim'[d] = claim[d]
      BY <1>1, <3>2, <3>3
    <3> QED
      BY <3>1, <3>4
  <2> QED
    BY <2>1 DEF NotifiedOfTheDecision
<1> DEFINE call == [phase |-> "decided", actor |-> a, entity |-> e, verdict |-> v]
<1>6. session' = [session EXCEPT ![x] = call] /\ call \in DecidedCall
  BY DEF Decided, DecidedCall, PendingFor
<1>7. session' \in [Session -> {Idle} \cup OpenedCall \cup DecidedCall]
  BY <1>1, <1>6 DEF TypeOK
<1>8. TypeOK'
  BY <1>1, <1>2, <1>3, <1>4, <1>7 DEF TypeOK
<1>9. ASSUME NEW y \in Session PROVE session'[y] = session[y] \/ session'[y].phase # "opened"
  <2>1. call.phase # "opened"
    OBVIOUS
  <2> QED
    BY <1>1, <1>6, <2>1 DEF TypeOK
<1>10. SessionInv'
  BY <1>1, <1>2, <1>9, SessionKept
<1> QED
  BY <1>2, <1>3, <1>5, <1>8, <1>10 DEF IInv, LogInv

\* in particular by that of an inbox call, whatever it read before,
LEMMA CommitInboxStep ==
    ASSUME IInv, NEW x \in Session, CommitInbox(x)
    PROVE  \E e \in Entity, a \in Employee, v \in Verdict :
             \E r \in PendingFor(e) :
               CanDecideRequest(a, r) /\ Decide(e, r, a, v) /\ Decided(x, e, a, v)
<1> DEFINE c == session[x]
<1>1. c \in OpenedCall
  BY DEF CommitInbox, IInv, TypeOK, Idle, DecidedCall
<1>2. /\ c.entity \in Entity /\ c.actor \in Employee /\ c.verdict \in Verdict
      /\ c.request \in Request
  BY <1>1 DEF OpenedCall
<1>3. PICK r \in LoadPending(c) :
         /\ Decide(c.entity, r, c.actor, c.verdict)
         /\ Decided(x, c.entity, c.actor, c.verdict)
  BY DEF CommitInbox
<1>4. CanDecideRequest(c.actor, c.request)
  BY DEF CommitInbox, IInv, SessionInv
<1>5. r \in PendingFor(c.entity) /\ CanDecideRequest(c.actor, r)
  BY <1>4 DEF LoadPending, CanDecideRequest
<1> QED
  BY <1>2, <1>3, <1>5

\* and by that of a page call.
LEMMA CommitPageStep ==
    ASSUME IInv, NEW x \in Session, NEW a \in Employee, NEW e \in Entity, NEW v \in Verdict,
           CommitPage(x, a, e, v)
    PROVE  \E r \in PendingFor(e) :
             CanDecideRequest(a, r) /\ Decide(e, r, a, v) /\ Decided(x, e, a, v)
BY DEF CommitPage, CanDecideRequest

\* Notifying and giving up touch neither the tables nor the claim.
LEMMA EndOfCallStep ==
    ASSUME IInv, NEW x \in Session, Notify(x) \/ Abandon(x)
    PROVE  IInv' /\ StagesKept
<1>1. UNCHANGED <<request, chain, stage, claim, decisionLog>> /\ session' = [session EXCEPT ![x] = Idle]
  BY DEF Notify, Abandon, storeVars, claimVars
<1>2. ASSUME NEW d \in Entity, NEW n \in notified'[d] PROVE n \in LogRow /\ n.action = claim[d]
  <2>1. CASE n \in notified[d]
    BY <2>1 DEF IInv, LogInv, NotifiedOfTheDecision, TypeOK
  <2>2. CASE n \notin notified[d]
    <3>1. session[x].phase = "decided" /\ d = session[x].entity /\ claim[d] = session[x].verdict
          /\ n = [actor |-> session[x].actor, action |-> session[x].verdict]
      BY <2>2 DEF Notify, Abandon, IInv, TypeOK
    <3>2. session[x] \in DecidedCall
      BY <3>1 DEF IInv, TypeOK, Idle, OpenedCall
    <3> QED
      BY <3>1, <3>2 DEF DecidedCall, LogRow
  <2> QED
    BY <2>1, <2>2
<1>3. notified' \in [Entity -> SUBSET LogRow]
  <2>1. DOMAIN notified' = Entity /\ notified' = [d \in Entity |-> notified'[d]]
    BY DEF Notify, Abandon, IInv, TypeOK
  <2> QED
    BY <1>2, <2>1
<1>4. TypeOK'
  BY <1>1, <1>3 DEF IInv, TypeOK, StoreTypeOK
<1>5. StoreInv'
  BY <1>1 DEF IInv, StoreInv, RowInv, ChainInv, LinkInv, OpenInv, PendingFor
<1>6. LogInv' /\ StageDecidersEntitled'
  BY <1>1, <1>2 DEF IInv, LogInv, LoggedOnce, NotifiedOfTheDecision, StageDecidersEntitled
<1>7. SessionInv'
  <2>1. RowsKept
    BY <1>1 DEF RowsKept
  <2>2. \A y \in Session : session'[y] = session[y] \/ session'[y].phase # "opened"
    BY <1>1 DEF IInv, TypeOK, Idle
  <2> QED
    BY <2>1, <2>2, SessionKept DEF IInv
<1> QED
  BY <1>1, <1>4, <1>5, <1>6, <1>7 DEF IInv, StagesKept

-----------------------------------------------------------------------------
(***************************************************************************)
(* The theorems.                                                           *)
(***************************************************************************)
\* The empty tables satisfy the inductive invariant.
LEMMA InitIInv == Init => IInv
<1> SUFFICES ASSUME Init PROVE IInv
  OBVIOUS
<1>1. TypeOK
  BY InitTypeOK
<1>2. StoreInv
  <2>1. RowInv
    BY DEF Init, StoreInit, RowInv
  <2>2. ASSUME NEW e \in Entity PROVE ChainInv(e) /\ LinkInv(e) /\ OpenInv(e)
    <3>1. PendingFor(e) = {}
      BY DEF Init, StoreInit, PendingFor
    <3>2. OpenInv(e)
      BY <3>1, NoneAssumption DEF Init, StoreInit, OpenInv
    <3> QED
      BY <3>2 DEF Init, StoreInit, ChainInv, LinkInv
  <2> QED
    BY <2>1, <2>2 DEF StoreInv
<1>3. SessionInv
  BY DEF Init, SessionInv, Idle
<1>4. LogInv /\ StageDecidersEntitled
  BY DEF Init, StoreInit, LogInv, LoggedOnce, NotifiedOfTheDecision, StageDecidersEntitled, Verdict
<1> QED
  BY <1>1, <1>2, <1>3, <1>4 DEF IInv

\* Every step preserves the inductive invariant and every decided stage.
LEMMA NextIInv ==
    ASSUME IInv, [Next]_vars
    PROVE  IInv' /\ StagesKept
<1>1. ASSUME NEW e \in Entity, Submit(e) PROVE IInv' /\ StagesKept
  BY <1>1, SubmitStep
<1>2. ASSUME NEW x \in Session, NEW a \in Employee, NEW r \in Request, NEW v \in Verdict,
             OpenRequest(x, a, r, v)
      PROVE  IInv' /\ StagesKept
  BY <1>2, OpenRequestStep
<1>3. ASSUME NEW x \in Session, CommitInbox(x) PROVE IInv' /\ StagesKept
  <2>1. UNCHANGED notified
    BY <1>3 DEF CommitInbox
  <2> QED
    BY <1>3, <2>1, CommitInboxStep, CommitStep
<1>4. ASSUME NEW x \in Session, NEW a \in Employee, NEW e \in Entity, NEW v \in Verdict,
             CommitPage(x, a, e, v)
      PROVE  IInv' /\ StagesKept
  <2>1. UNCHANGED notified
    BY <1>4 DEF CommitPage
  <2>2. PICK r \in PendingFor(e) :
          CanDecideRequest(a, r) /\ Decide(e, r, a, v) /\ Decided(x, e, a, v)
    BY <1>4, CommitPageStep
  <2>3. r \in Request
    BY DEF PendingFor
  <2> QED
    BY <2>1, <2>2, <2>3, CommitStep
<1>5. ASSUME NEW x \in Session, Notify(x) \/ Abandon(x) PROVE IInv' /\ StagesKept
  BY <1>5, EndOfCallStep
<1>6. CASE UNCHANGED vars
  <2>1. UNCHANGED <<request, chain, stage, claim, decisionLog, session, notified>>
    BY <1>6 DEF vars, storeVars, claimVars
  <2>2. TypeOK'
    BY <2>1 DEF IInv, TypeOK, StoreTypeOK
  <2>3. StoreInv'
    BY <2>1 DEF IInv, StoreInv, RowInv, ChainInv, LinkInv, OpenInv, PendingFor
  <2>4. SessionInv'
    BY <2>1 DEF IInv, SessionInv, CanDecideRequest
  <2>5. LogInv' /\ StageDecidersEntitled' /\ StagesKept
    BY <2>1 DEF IInv, LogInv, LoggedOnce, NotifiedOfTheDecision, StageDecidersEntitled, StagesKept
  <2> QED
    BY <2>2, <2>3, <2>4, <2>5 DEF IInv
<1> QED
  BY <1>1, <1>2, <1>3, <1>4, <1>5, <1>6 DEF Next

\* The inductive invariant holds in every reachable state.
THEOREM InductiveInvariant == Spec => []IInv
<1>1. IInv /\ [Next]_vars => IInv'
  BY NextIInv
<1> QED
  BY InitIInv, <1>1, PTL DEF Spec

\* Every column and every field of a call keeps its type.
THEOREM TypeCorrect == Spec => []TypeOK
<1>1. IInv => TypeOK
  BY DEF IInv
<1> QED
  BY InductiveInvariant, <1>1, PTL

\* A submitted claim has exactly one open request, its current stage's, and any
\* other claim none.
THEOREM OneStageOpenAlways == Spec => []OneStageOpen
<1>1. ASSUME IInv, NEW e \in Entity, claim[e] # "submitted"
      PROVE  PendingFor(e) = {}
  BY <1>1 DEF IInv, StoreInv, OpenInv
<1>2. IInv => OneStageOpen
  <2> SUFFICES ASSUME IInv, NEW e \in Entity, claim[e] = "submitted"
               PROVE  \E r \in Request :
                        /\ PendingFor(e) = {r}
                        /\ chain[e].status # "absent" =>
                             /\ chain[e].status = "pending"
                             /\ LinkedSteps(r) = {chain[e].step}
                             /\ \A s \in 1..chain[e].last :
                                  stage[e][s].status = IF s < chain[e].step THEN "approved"
                                                       ELSE IF s = chain[e].step THEN "pending"
                                                       ELSE "cancelled"
    BY <1>1 DEF OneStageOpen
  <2>1. StoreTypeOK /\ StoreInv
    BY DEF IInv, TypeOK
  <2>2. PICK r \in Request : PendingFor(e) = {r}
    BY <2>1 DEF StoreInv, OpenInv
  <2>3. request[r].status = "pending" /\ request[r].entity = e
    BY <2>2 DEF PendingFor
  <2>4. chain[e].status # "absent" => chain[e].status = "pending" /\ LinkedSteps(r) = {chain[e].step}
    BY <2>1, <2>3, PendingIsCurrent
  <2>5. ASSUME chain[e].status = "pending", NEW s \in 1..chain[e].last
        PROVE  stage[e][s].status = IF s < chain[e].step THEN "approved"
                                    ELSE IF s = chain[e].step THEN "pending"
                                    ELSE "cancelled"
    <3>1. ChainInv(e)
      BY <2>1 DEF StoreInv
    <3>2. chain[e].step \in Step /\ chain[e].last \in Step
      BY <2>5, <3>1 DEF ChainInv
    <3>3. s \in Step /\ s <= chain[e].last
      BY <3>2, StagesAssumption DEF Step
    <3>4. s < chain[e].step \/ s = chain[e].step \/ s > chain[e].step
      BY <3>2, <3>3 DEF Step
    <3> QED
      BY <2>5, <3>1, <3>2, <3>3, <3>4 DEF ChainInv, Step
  <2> QED
    BY <2>2, <2>4, <2>5
<1> QED
  BY InductiveInvariant, <1>2, PTL

\* Every stage consented to an approved claim, and one refusal ended a rejected one.
THEOREM DecidedByStages == Spec => []DecidedByItsStages
<1>1. IInv => DecidedByItsStages
  <2> SUFFICES ASSUME IInv, NEW e \in Entity, chain[e].status # "absent"
               PROVE  /\ claim[e] = "approved" =>
                           /\ chain[e].status = "approved"
                           /\ \A s \in 1..chain[e].last : stage[e][s].status = "approved"
                      /\ claim[e] = "rejected" =>
                           /\ chain[e].status = "rejected"
                           /\ \E s \in 1..chain[e].last :
                                /\ stage[e][s].status = "rejected"
                                /\ \A t \in 1..chain[e].last :
                                     /\ t < s => stage[e][t].status = "approved"
                                     /\ t > s => stage[e][t].status = "cancelled" /\ stage[e][t].request = None
    BY DEF DecidedByItsStages
  <2> DEFINE c == chain[e]
  <2>1. /\ c.step \in Step /\ c.last \in Step /\ c.step <= c.last
        /\ stage[e][c.step].status = c.status
        /\ c.status = "approved" => c.step = c.last
        /\ claim[e] = IF c.status = "pending" THEN "submitted" ELSE c.status
        /\ \A s \in Step :
              /\ s < c.step => stage[e][s].status = "approved"
              /\ s > c.step => stage[e][s].request = None
              /\ s > c.step /\ s <= c.last => stage[e][s].status = "cancelled"
    BY DEF IInv, StoreInv, ChainInv
  <2>2. \A t \in 1..c.last : t \in Step /\ t <= c.last
    BY <2>1, StagesAssumption DEF Step
  <2>3. c.step \in 1..c.last
    BY <2>1, StagesAssumption DEF Step
  <2> HIDE DEF c
  <2>4. ASSUME claim[e] = "approved"
        PROVE  c.status = "approved" /\ \A s \in 1..c.last : stage[e][s].status = "approved"
    <3>1. c.status = "approved" /\ c.step = c.last
      BY <2>1, <2>4
    <3>2. \A s \in 1..c.last : s < c.step \/ s = c.step
      BY <2>1, <3>1 DEF Step
    <3> QED
      BY <2>1, <2>2, <3>1, <3>2
  <2>5. ASSUME claim[e] = "rejected"
        PROVE  /\ c.status = "rejected"
               /\ \E s \in 1..c.last :
                    /\ stage[e][s].status = "rejected"
                    /\ \A t \in 1..c.last :
                         /\ t < s => stage[e][t].status = "approved"
                         /\ t > s => stage[e][t].status = "cancelled" /\ stage[e][t].request = None
    <3>1. c.status = "rejected"
      BY <2>1, <2>5
    <3> QED
      BY <2>1, <2>2, <2>3, <3>1
  <2> QED
    BY <2>4, <2>5 DEF c
<1> QED
  BY InductiveInvariant, <1>1, PTL

\* No interleaving of calls decides a claim twice.
THEOREM DecisionLoggedOnce == Spec => []LoggedOnce
<1>1. IInv => LoggedOnce
  BY DEF IInv, LogInv
<1> QED
  BY InductiveInvariant, <1>1, PTL

\* Only the stage's approver, or somebody who may decide for him, decides a stage.
THEOREM StageDecidersAreEntitled == Spec => []StageDecidersEntitled
<1>1. IInv => StageDecidersEntitled
  BY DEF IInv
<1> QED
  BY InductiveInvariant, <1>1, PTL

\* The requester hears of no decision but the claim's.
THEOREM RequesterHearsTheDecision == Spec => []NotifiedOfTheDecision
<1>1. IInv => NotifiedOfTheDecision
  BY DEF IInv, LogInv
<1> QED
  BY InductiveInvariant, <1>1, PTL

\* What a step of Next does to claims: nothing, a submission, or one decision.
LEMMA NextClaims ==
    ASSUME IInv, [Next]_vars
    PROVE  \/ UNCHANGED <<claim, decisionLog, chain>>
           \/ \E e \in Entity : Submit(e)
           \/ \E e \in Entity, a \in Employee, v \in Verdict :
                \E r \in PendingFor(e) : CanDecideRequest(a, r) /\ Decide(e, r, a, v)
<1>1. ASSUME NEW x \in Session, CommitInbox(x)
      PROVE  \E e \in Entity, a \in Employee, v \in Verdict :
                \E r \in PendingFor(e) : CanDecideRequest(a, r) /\ Decide(e, r, a, v)
  BY <1>1, CommitInboxStep
<1>2. ASSUME NEW x \in Session, NEW a \in Employee, NEW e \in Entity, NEW v \in Verdict,
             CommitPage(x, a, e, v)
      PROVE  \E r \in PendingFor(e) : CanDecideRequest(a, r) /\ Decide(e, r, a, v)
  BY <1>2, CommitPageStep
<1>3. ASSUME NEW x \in Session,
             \/ \E a \in Employee, r \in Request, v \in Verdict : OpenRequest(x, a, r, v)
             \/ Notify(x)
             \/ Abandon(x)
      PROVE  UNCHANGED <<claim, decisionLog, chain>>
  BY <1>3 DEF OpenRequest, Notify, Abandon, storeVars, claimVars
<1>4. CASE UNCHANGED vars
  BY <1>4 DEF vars, storeVars, claimVars
<1> QED
  BY <1>1, <1>2, <1>3, <1>4 DEF Next

\* A decided claim, its log and its decided stages never change again.
THEOREM Finality == Spec => DecisionsAreFinal
<1> DEFINE Final == \A e \in Entity :
                      /\ claim[e] \in Verdict => claim'[e] = claim[e] /\ decisionLog'[e] = decisionLog[e]
                      /\ \A s \in Step : stage[e][s].status \in Verdict => stage'[e][s] = stage[e][s]
<1>1. ASSUME IInv, [Next]_vars PROVE Final
  <2>1. StagesKept
    BY <1>1, NextIInv
  <2>2. ASSUME NEW d \in Entity, claim[d] \in Verdict
        PROVE  claim'[d] = claim[d] /\ decisionLog'[d] = decisionLog[d]
    <3>1. TypeOK /\ claim[d] \notin {"draft", "submitted"}
      BY <1>1, <2>2 DEF IInv, Verdict
    <3>2. CASE UNCHANGED <<claim, decisionLog, chain>>
      BY <3>2
    <3>3. CASE \E e \in Entity : Submit(e)
      BY <3>1, <3>3 DEF Submit, TypeOK
    <3>4. ASSUME NEW e \in Entity, NEW a \in Employee, NEW v \in Verdict,
                 NEW r \in PendingFor(e), CanDecideRequest(a, r), Decide(e, r, a, v)
          PROVE  claim'[d] = claim[d] /\ decisionLog'[d] = decisionLog[d]
      <4>1. /\ claim[e] = "submitted"
            /\ \/ UNCHANGED <<claim, decisionLog>>
               \/ /\ claim' = [claim EXCEPT ![e] = v]
                  /\ decisionLog' = [decisionLog EXCEPT ![e] = Append(@, [actor |-> a, action |-> v])]
        BY <1>1, <3>4, DecideStep DEF ChainAdvances, ClaimEnds
      <4>2. d # e
        BY <3>1, <4>1
      <4> QED
        BY <3>1, <4>1, <4>2 DEF TypeOK
    <3> QED
      BY <1>1, <3>2, <3>3, <3>4, NextClaims
  <2> QED
    BY <2>1, <2>2 DEF StagesKept
<1>2. IInv /\ [Next]_vars => [Final]_vars
  BY <1>1
<1> QED
  BY InductiveInvariant, <1>2, PTL DEF Spec, DecisionsAreFinal

\* One step of the claim's tables is one step, or none, of the promise.
LEMMA PromiseStep ==
    ASSUME IInv, [Next]_vars
    PROVE  [Promise!Next]_<<claim, remainingStages>>
<1> USE StagesAssumption
<1>1. /\ StoreTypeOK /\ StoreInv
      /\ claim \in [Entity -> {"draft", "submitted", "approved", "rejected"}]
  BY DEF IInv, TypeOK
<1>2. ASSUME NEW e \in Entity, NEW n \in Nat,
             \A d \in Entity : d # e => chain'[d] = chain[d] /\ claim'[d] = claim[d],
             n = remainingStages'[e]
      PROVE  remainingStages' = [remainingStages EXCEPT ![e] = n]
  BY <1>2 DEF remainingStages
<1>3. CASE UNCHANGED <<claim, decisionLog, chain>>
  BY <1>3 DEF remainingStages
<1>4. ASSUME NEW e \in Entity, Submit(e) PROVE Promise!Submit(e)
  <2>1. claim[e] = "draft" /\ claim' = [claim EXCEPT ![e] = "submitted"]
    BY <1>4 DEF Submit
  <2>2. chain[e].status = "absent"
    BY <1>1, <2>1 DEF StoreInv, OpenInv
  <2>3. PICK r \in Request :
           \/ \E a \in Eligible : CreateDefault(e, a, r)
           \/ \E n \in Step : \E approvers \in [1..n -> Employee] : CreateChain(e, approvers, n, r)
    BY <1>4 DEF Submit
  <2>4. \E n \in 1..MaxStages :
           /\ n = remainingStages'[e]
           /\ \A d \in Entity : d # e => chain'[d] = chain[d]
    <3>1. ASSUME NEW a \in Eligible, CreateDefault(e, a, r)
          PROVE  1 = remainingStages'[e] /\ chain' = chain
      BY <1>1, <2>1, <2>2, <3>1 DEF CreateDefault, remainingStages
    <3>2. ASSUME NEW n \in Step, NEW approvers \in [1..n -> Employee], CreateChain(e, approvers, n, r)
          PROVE  n = remainingStages'[e] /\ \A d \in Entity : d # e => chain'[d] = chain[d]
      <4>1. /\ chain'[e] = [status |-> "pending", step |-> 1, last |-> n]
            /\ \A d \in Entity : d # e => chain'[d] = chain[d]
        BY <1>1, <3>2 DEF CreateChain, StoreTypeOK
      <4>2. remainingStages'[e] = 1 + n - 1
        BY <1>1, <2>1, <4>1 DEF remainingStages
      <4> QED
        BY <4>1, <4>2 DEF Step
    <3>3. 1 \in 1..MaxStages
      OBVIOUS
    <3> QED
      BY <2>3, <3>1, <3>2, <3>3 DEF Step
  <2>5. \A d \in Entity : d # e => claim'[d] = claim[d]
    BY <1>1, <2>1
  <2> QED
    BY <1>2, <2>1, <2>4, <2>5 DEF Promise!Submit
<1>5. ASSUME NEW e \in Entity, NEW a \in Employee, NEW v \in Verdict,
             NEW r \in PendingFor(e), CanDecideRequest(a, r), Decide(e, r, a, v)
      PROVE  Promise!Consent(e) \/ Promise!Refuse(e)
  <2>1. claim[e] = "submitted" /\ (ChainAdvances(e) \/ ClaimEnds(e, a, v))
    BY <1>5, DecideStep
  <2>2. chain[e].step \in Nat /\ chain[e].last \in Nat
    BY <1>1 DEF StoreTypeOK, ChainRow
  <2>3. ASSUME ChainAdvances(e)
        PROVE  Promise!Consent(e)
    <3>1. /\ chain'[e] = [status |-> "pending", step |-> chain[e].step + 1, last |-> chain[e].last]
          /\ \A d \in Entity : d # e => chain'[d] = chain[d]
          /\ chain[e].status = "pending" /\ chain[e].step < chain[e].last
      BY <1>1, <2>3 DEF ChainAdvances, ChainAt, StoreTypeOK
    <3>2. claim' = claim
      BY <2>3 DEF ChainAdvances
    <3>3. /\ remainingStages[e] = 1 + chain[e].last - chain[e].step
          /\ remainingStages'[e] = 1 + chain[e].last - (chain[e].step + 1)
      BY <2>1, <3>1, <3>2 DEF remainingStages
    <3>4. remainingStages'[e] = remainingStages[e] - 1 /\ remainingStages[e] # 1
          /\ remainingStages'[e] \in Nat
      BY <2>2, <3>1, <3>3
    <3>5. remainingStages' = [remainingStages EXCEPT ![e] = remainingStages[e] - 1]
      BY <1>2, <3>1, <3>2, <3>4
    <3>6. claim' = [claim EXCEPT ![e] = IF remainingStages[e] = 1 THEN "approved" ELSE claim[e]]
      BY <1>1, <3>2, <3>4
    <3> QED
      BY <2>1, <3>5, <3>6 DEF Promise!Consent
  <2>4. ASSUME ClaimEnds(e, a, v)
        PROVE  Promise!Consent(e) \/ Promise!Refuse(e)
    <3>0. v \in {"approved", "rejected"}
      BY DEF Verdict
    <3>1. claim'[e] = v /\ v \in {"approved", "rejected"} /\ \A d \in Entity : d # e => claim'[d] = claim[d]
      BY <1>1, <2>4, <3>0 DEF ClaimEnds
    <3>2. remainingStages'[e] = 0
      <4>1. claim'[e] # "submitted"
        BY <3>1
      <4> QED
        BY <4>1 DEF remainingStages
    <3>3. remainingStages' = [remainingStages EXCEPT ![e] = 0]
      BY <1>2, <2>4, <3>1, <3>2 DEF ClaimEnds
    <3>4. CASE v = "approved"
      <4>1. remainingStages[e] = 1
        BY <2>1, <2>2, <2>4, <3>4 DEF remainingStages, ClaimEnds
      <4>2. remainingStages' = [remainingStages EXCEPT ![e] = remainingStages[e] - 1]
        BY <3>3, <4>1
      <4> QED
        BY <2>1, <2>4, <3>4, <4>1, <4>2 DEF Promise!Consent, ClaimEnds
    <3>5. CASE v = "rejected"
      BY <2>1, <2>4, <3>3, <3>5 DEF Promise!Refuse, ClaimEnds
    <3> QED
      BY <3>1, <3>4, <3>5
  <2> QED
    BY <2>1, <2>3, <2>4
<1> QED
  BY <1>3, <1>4, <1>5, NextClaims DEF Promise!Next

\* The claim, its request and its chain implement the sequential approval.
THEOREM ImplementsSequentialApproval == Spec => PromiseSpec
<1>1. Init => Promise!Init
  BY DEF Init, Promise!Init, remainingStages
<1>2. IInv /\ [Next]_vars => [Promise!Next]_(Promise!vars)
  BY PromiseStep DEF Promise!vars
<1> QED
  BY InductiveInvariant, <1>1, <1>2, PTL DEF Spec, PromiseSpec, Promise!Spec
=============================================================================
