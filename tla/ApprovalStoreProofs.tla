------------------------- MODULE ApprovalStoreProofs -------------------------
(***************************************************************************)
(* What the statements of ApprovalStore keep, whoever runs them: the types *)
(* of the three tables, and the shape of a chain with its requests.  The   *)
(* modules of the entities (claims, absences) build on it.                 *)
(***************************************************************************)
EXTENDS ApprovalStore, TLAPS

\* Stages are numbered from 1, and there is a first one.
LEMMA StepFacts == Step \subseteq Nat \ {0} /\ 1 \in Step
BY StagesAssumption DEF Step

\* Inserting the one request of a claim keeps the types of its columns.
LEMMA CreateDefaultType ==
    ASSUME StoreTypeOK, NEW e \in Entity, NEW a \in Employee, NEW r \in Request,
           CreateDefault(e, a, r)
    PROVE  StoreTypeOK'
BY DEF CreateDefault, PendingRow, StoreTypeOK, RequestRow

\* Inserting a request, its chain and its stages keeps the types of their columns.
LEMMA CreateChainType ==
    ASSUME StoreTypeOK, NEW e \in Entity, NEW n \in Step, NEW approvers \in [1..n -> Employee],
           NEW r \in Request, CreateChain(e, approvers, n, r)
    PROVE  StoreTypeOK'
<1>1. 1 \in 1..n /\ n \in 0..MaxStages /\ 1 \in 0..MaxStages
  BY StagesAssumption DEF Step
<1>2. request' \in [Request -> RequestRow]
  BY <1>1 DEF CreateChain, PendingRow, StoreTypeOK, RequestRow
<1>3. chain' \in [Entity -> ChainRow]
  BY <1>1 DEF CreateChain, StoreTypeOK, ChainRow
<1>4. ASSUME NEW s \in Step, s <= n
      PROVE  approvers[s] \in Employee
  BY <1>4, StagesAssumption DEF Step
<1>5. stage' \in [Entity -> [Step -> StageRow]]
  <2> DEFINE row(s) == IF s > n THEN stage[e][s]
          ELSE [status |-> IF s = 1 THEN "pending" ELSE "cancelled",
                request |-> IF s = 1 THEN r ELSE None,
                approver |-> approvers[s], decidedBy |-> None]
  <2>1. ASSUME NEW s \in Step PROVE row(s) \in StageRow
    <3>1. CASE s > n
      BY <3>1, <2>1 DEF StoreTypeOK
    <3>2. CASE ~(s > n)
      <4>1. s <= n
        BY <3>2, StagesAssumption DEF Step
      <4> QED
        BY <3>2, <4>1, <1>4 DEF StageRow
    <3> QED
      BY <3>1, <3>2
  <2>2. [s \in Step |-> row(s)] \in [Step -> StageRow]
    BY <2>1
  <2>3. stage' = [stage EXCEPT ![e] = [s \in Step |-> row(s)]]
    BY DEF CreateChain
  <2> QED
    BY <2>2, <2>3 DEF StoreTypeOK
<1> QED
  BY <1>2, <1>3, <1>5 DEF StoreTypeOK

\* So does advancing a chain to its next stage,
LEMMA AdvanceChainType ==
    ASSUME StoreTypeOK, NEW r \in Request, NEW q \in Request, NEW a \in Employee,
           request[r].entity \in Entity, AdvanceChain(r, q, a)
    PROVE  StoreTypeOK'
<1> DEFINE e == request[r].entity
<1>1. e \in Entity
  OBVIOUS
<1>2. PICK s \in LinkedSteps(r) : /\ s < chain[e].last
                                  /\ request' = [request EXCEPT ![r] = DecidedRow(r, "approved"),
                                       ![q] = PendingRow(e, stage[e][s + 1].approver)]
                                  /\ stage' = [stage EXCEPT ![e][s] = DecidedStage(@, "approved", a),
                                                    ![e][s + 1] = ActivatedStage(@, q)]
                                  /\ chain' = [chain EXCEPT ![e] = ChainAt(@, @.status, s + 1)]
  BY DEF AdvanceChain
<1>3. s \in Step /\ s + 1 \in Step
  BY <1>1, <1>2, StagesAssumption DEF LinkedSteps, StoreTypeOK, ChainRow, Step
<1>4. request' \in [Request -> RequestRow]
  <2>1. DecidedRow(r, "approved") \in RequestRow
    BY <1>1 DEF DecidedRow, StoreTypeOK, RequestRow
  <2>2. stage[e][s + 1].approver \in Employee \cup {None}
    BY <1>1, <1>3 DEF StoreTypeOK, StageRow
  <2>3. PendingRow(e, stage[e][s + 1].approver) \in RequestRow
    BY <1>1, <2>2 DEF PendingRow, RequestRow
  <2> QED
    BY <1>2, <2>1, <2>3 DEF StoreTypeOK
<1>5. chain' \in [Entity -> ChainRow]
  BY <1>1, <1>2, <1>3, StagesAssumption DEF ChainAt, StoreTypeOK, ChainRow, Step
<1>6. DecidedStage(stage[e][s], "approved", a) \in StageRow
  BY <1>1, <1>3 DEF DecidedStage, StoreTypeOK, StageRow
<1>7. ActivatedStage(stage[e][s + 1], q) \in StageRow
  BY <1>1, <1>3 DEF ActivatedStage, StoreTypeOK, StageRow
<1>8. stage' \in [Entity -> [Step -> StageRow]]
  <2>1. ASSUME NEW d \in Entity, NEW t \in Step
        PROVE  stage'[d][t] \in StageRow
    BY <1>1, <1>2, <1>3, <1>6, <1>7, StepFacts DEF StoreTypeOK
  <2> QED
    BY <1>1, <1>2, <1>3, <2>1 DEF StoreTypeOK
<1> QED
  BY <1>4, <1>5, <1>8 DEF StoreTypeOK

\* and so does completing or rejecting a chain, or deciding a request that has none.
LEMMA FinishType ==
    ASSUME StoreTypeOK, NEW r \in Request, NEW a \in Employee,
           request[r].entity \in Entity, FinishApproval(r, a) \/ FinishRejection(r, a)
    PROVE  StoreTypeOK'
<1> DEFINE e == request[r].entity
<1>1. e \in Entity
  OBVIOUS
<1>2. request' \in [Request -> RequestRow]
  BY <1>1 DEF FinishApproval, FinishRejection, DecidedRow, StoreTypeOK, RequestRow
<1>3. CASE UNCHANGED <<chain, stage>>
  BY <1>2, <1>3 DEF StoreTypeOK
<1>4. ASSUME NEW s \in LinkedSteps(r), NEW v \in {"approved", "rejected"},
             stage' = [stage EXCEPT ![e][s] = DecidedStage(@, v, a)],
             chain' = [chain EXCEPT ![e] = ChainAt(@, v, @.step)]
      PROVE  StoreTypeOK'
  <2>1. s \in Step
    BY DEF LinkedSteps
  <2>2. DecidedStage(stage[e][s], v, a) \in StageRow
    BY <1>1, <2>1 DEF DecidedStage, StoreTypeOK, StageRow
  <2>3. stage' \in [Entity -> [Step -> StageRow]]
    BY <1>1, <1>4, <2>1, <2>2 DEF StoreTypeOK
  <2>4. chain' \in [Entity -> ChainRow]
    BY <1>1, <1>4 DEF ChainAt, StoreTypeOK, ChainRow
  <2> QED
    BY <1>2, <2>3, <2>4 DEF StoreTypeOK
<1> QED
  BY <1>3, <1>4 DEF FinishApproval, FinishRejection

-----------------------------------------------------------------------------
(***************************************************************************)
(* The shape of the tables.                                                *)
(***************************************************************************)

\* A row that exists belongs to an entity.
RowShape ==
    \A r \in Request :
        IF request[r].status = "absent" THEN request[r].entity = None
        ELSE request[r].entity \in Entity

\* The stages before the current one are approved, those after it have no request, and
\* the current one is in the state of the chain.
ChainShape(e) ==
    LET c == chain[e] IN
    IF c.status = "absent"
    THEN \A s \in Step : stage[e][s].request = None
    ELSE /\ c.step \in Step /\ c.last \in Step /\ c.step <= c.last
         /\ stage[e][c.step].status = c.status
         /\ c.status = "approved" => c.step = c.last
         /\ \A s \in Step : /\ s < c.step => stage[e][s].status = "approved"
                            /\ s > c.step => stage[e][s].request = None

\* A stage's request is one of its entity, and only the current stage's can be pending.
LinkShape(e) ==
    \A s \in Step : stage[e][s].request # None =>
        LET r == stage[e][s].request IN
        /\ request[r].status # "absent" /\ request[r].entity = e
        /\ s # chain[e].step => request[r].status # "pending"

\* One request at a time is pending, and under a policy it is that of the current stage.
AskShape(e) ==
    \A r \in PendingFor(e) :
        /\ PendingFor(e) = {r}
        /\ chain[e].status # "absent" => stage[e][chain[e].step].request = r

EntityShape(e) == ChainShape(e) /\ LinkShape(e) /\ AskShape(e)

StoreShape == RowShape /\ \A e \in Entity : EntityShape(e)

\* The empty tables have it.
LEMMA InitShape == StoreInit => StoreTypeOK /\ StoreShape
<1> SUFFICES ASSUME StoreInit PROVE StoreTypeOK /\ StoreShape
  OBVIOUS
<1>1. StoreTypeOK
  BY StagesAssumption DEF StoreInit, StoreTypeOK, RequestRow, ChainRow, StageRow
<1>2. \A e \in Entity : PendingFor(e) = {}
  BY DEF StoreInit, PendingFor
<1>3. \A e \in Entity : chain[e].status = "absent" /\ \A s \in Step : stage[e][s].request = None
  BY DEF StoreInit
<1>4. RowShape
  BY DEF StoreInit, RowShape
<1>5. ASSUME NEW e \in Entity PROVE EntityShape(e)
  <2>1. ChainShape(e) /\ LinkShape(e)
    BY <1>3 DEF ChainShape, LinkShape
  <2> QED
    BY <1>2, <2>1 DEF EntityShape, AskShape
<1> QED
  BY <1>1, <1>4, <1>5 DEF StoreShape

\* The rows of an entity that a statement leaves alone keep their shape.
LEMMA FrameShape ==
    ASSUME StoreTypeOK, NEW d \in Entity, EntityShape(d), chain'[d] = chain[d], stage'[d] = stage[d],
           \A k \in Request : (request[k].entity = d \/ request'[k].entity = d) => request'[k] = request[k]
    PROVE  EntityShape(d)'
<1>1. ChainShape(d)'
  BY DEF EntityShape, ChainShape
<1>2. LinkShape(d)'
  <2> SUFFICES ASSUME NEW s \in Step, stage[d][s].request # None
               PROVE  LET r == stage[d][s].request IN
                      /\ request'[r].status # "absent" /\ request'[r].entity = d
                      /\ s # chain[d].step => request'[r].status # "pending"
    BY DEF LinkShape
  <2>1. stage[d][s].request \in Request
    BY DEF StoreTypeOK, StageRow
  <2> QED
    BY <2>1 DEF EntityShape, LinkShape
<1>3. PendingFor(d)' = PendingFor(d)
  BY DEF PendingFor
<1>4. AskShape(d)'
  BY <1>3 DEF EntityShape, AskShape
<1> QED
  BY <1>1, <1>2, <1>4 DEF EntityShape

\* Statements that open no request (a decision, a cancellation, a change of the approver)
\* keep the shape, whichever rows they write.
LEMMA CloseShape ==
    ASSUME StoreTypeOK, StoreShape, UNCHANGED <<chain, stage>>,
           \A r \in Request : /\ request'[r].entity = request[r].entity
                              /\ request'[r].status = "absent" <=> request[r].status = "absent"
                              /\ request'[r].status = "pending" => request[r].status = "pending"
    PROVE  StoreShape'
<1>1. RowShape'
  BY DEF StoreShape, RowShape
<1>2. ASSUME NEW e \in Entity PROVE EntityShape(e)'
  <2>1. EntityShape(e)
    BY DEF StoreShape
  <2>2. PendingFor(e)' \subseteq PendingFor(e)
    BY DEF PendingFor
  <2>3. AskShape(e)'
    <3> SUFFICES ASSUME NEW r \in PendingFor(e)'
                 PROVE  /\ PendingFor(e)' = {r}
                        /\ chain[e].status # "absent" => stage[e][chain[e].step].request = r
      BY DEF AskShape
    <3> QED
      BY <2>1, <2>2 DEF EntityShape, AskShape
  <2>4. LinkShape(e)'
    <3> SUFFICES ASSUME NEW s \in Step, stage[e][s].request # None
                 PROVE  LET r == stage[e][s].request IN
                        /\ request'[r].status # "absent" /\ request'[r].entity = e
                        /\ s # chain[e].step => request'[r].status # "pending"
      BY DEF LinkShape
    <3>1. stage[e][s].request \in Request
      BY DEF StoreTypeOK, StageRow
    <3> QED
      BY <2>1, <3>1 DEF EntityShape, LinkShape
  <2> QED
    BY <2>1, <2>3, <2>4 DEF EntityShape, ChainShape
<1> QED
  BY <1>1, <1>2 DEF StoreShape

\* A request that is inserted without a policy: its entity has no other one open.
LEMMA InsertShape ==
    ASSUME StoreTypeOK, StoreShape, NEW q \in Request, NEW d \in Entity, NEW row,
           request[q].status = "absent", row.status # "absent", row.entity = d,
           request' = [request EXCEPT ![q] = row], UNCHANGED <<chain, stage>>,
           PendingFor(d) = {}, chain[d].status = "absent"
    PROVE  StoreShape'
<1>1. \A k \in Request : request'[k] = IF k = q THEN row ELSE request[k]
  BY DEF StoreTypeOK
<1>2. RowShape'
  BY <1>1 DEF StoreShape, RowShape
<1>3. ASSUME NEW e \in Entity, e # d PROVE EntityShape(e)'
  <2>1. request[q].entity = None /\ None # e
    BY NoneAssumption DEF StoreShape, RowShape
  <2> QED
    BY <1>1, <1>3, <2>1, FrameShape DEF StoreShape
<1>4. EntityShape(d)'
  <2>1. \A s \in Step : stage[d][s].request = None
    BY DEF StoreShape, EntityShape, ChainShape
  <2>2. PendingFor(d)' \subseteq {q}
    BY <1>1 DEF PendingFor
  <2> QED
    BY <2>1, <2>2 DEF EntityShape, ChainShape, LinkShape, AskShape
<1> QED
  BY <1>2, <1>3, <1>4 DEF StoreShape

\* A submission without a policy,
LEMMA CreateDefaultShape ==
    ASSUME StoreTypeOK, StoreShape, NEW e \in Entity, NEW a \in Employee, NEW r \in Request,
           chain[e].status = "absent", CreateDefault(e, a, r)
    PROVE  StoreShape'
<1>1. PendingRow(e, a).status = "pending" /\ PendingRow(e, a).entity = e
  BY DEF PendingRow
<1> QED
  BY <1>1, InsertShape DEF CreateDefault, Insertable

\* and one under a policy.
LEMMA CreateChainShape ==
    ASSUME StoreTypeOK, StoreShape, NEW e \in Entity, NEW n \in Step,
           NEW approvers \in [1..n -> Employee], NEW r \in Request,
           chain[e].status = "absent", CreateChain(e, approvers, n, r)
    PROVE  StoreShape'
<1> USE NoneAssumption, StepFacts
<1>1. \A k \in Request : request'[k] = IF k = r THEN PendingRow(e, approvers[1]) ELSE request[k]
  BY DEF CreateChain, StoreTypeOK
<1>2. /\ request[r].entity = None /\ PendingFor(e) = {}
      /\ \A d \in Entity : d # e => chain'[d] = chain[d] /\ stage'[d] = stage[d]
      /\ chain'[e] = [status |-> "pending", step |-> 1, last |-> n]
  BY DEF CreateChain, Insertable, StoreShape, RowShape, StoreTypeOK
<1>3. \A s \in Step : stage[e][s].request = None
  BY DEF StoreShape, EntityShape, ChainShape
<1>4. /\ stage'[e][1].status = "pending" /\ stage'[e][1].request = r
      /\ \A s \in Step : s > 1 => stage'[e][s].request = None
  BY <1>3 DEF CreateChain, StoreTypeOK, Step
<1>5. RowShape'
  BY <1>1 DEF StoreShape, RowShape, PendingRow
<1>6. ASSUME NEW d \in Entity, d # e PROVE EntityShape(d)'
  <2>1. \A k \in Request : (request[k].entity = d \/ request'[k].entity = d) => request'[k] = request[k]
    BY <1>1, <1>2, <1>6 DEF PendingRow
  <2> QED
    BY <1>2, <1>6, <2>1, FrameShape DEF StoreShape
<1>7. EntityShape(e)'
  <2>1. \A s \in Step : ~(s < 1) /\ (s = 1 \/ s > 1)
    OBVIOUS
  <2>2. ChainShape(e)'
    BY <1>2, <1>4, <2>1 DEF ChainShape
  <2>3. LinkShape(e)'
    BY <1>1, <1>2, <1>4, <2>1 DEF LinkShape, PendingRow
  <2>4. PendingFor(e)' = {r}
    BY <1>1, <1>2 DEF PendingFor, PendingRow
  <2> QED
    BY <1>2, <1>4, <2>2, <2>3, <2>4 DEF EntityShape, AskShape
<1> QED
  BY <1>5, <1>6, <1>7 DEF StoreShape

\* A pending request is the only one of its entity, and under a policy it is linked to the
\* current stage and to no other.
LEMMA PendingLinked ==
    ASSUME StoreTypeOK, StoreShape, NEW r \in Request, request[r].status = "pending"
    PROVE  \E e \in Entity :
              /\ e = request[r].entity /\ PendingFor(e) = {r}
              /\ chain[e].status = "absent" => LinkedSteps(r) = {}
              /\ chain[e].status # "absent" =>
                    chain[e].step \in Step /\ LinkedSteps(r) = {chain[e].step}
<1>1. PICK e \in Entity : e = request[r].entity
  BY DEF StoreShape, RowShape
<1>2. r \in PendingFor(e) /\ EntityShape(e)
  BY <1>1 DEF PendingFor, StoreShape
<1>3. chain[e].status = "absent" => LinkedSteps(r) = {}
  BY <1>1, <1>2, NoneAssumption DEF EntityShape, ChainShape, LinkedSteps
<1>4. chain[e].status # "absent" => chain[e].step \in Step /\ LinkedSteps(r) = {chain[e].step}
  <2> SUFFICES ASSUME chain[e].status # "absent"
               PROVE  chain[e].step \in Step /\ LinkedSteps(r) = {chain[e].step}
    OBVIOUS
  <2>1. chain[e].step \in Step /\ stage[e][chain[e].step].request = r
    BY <1>2 DEF EntityShape, ChainShape, AskShape
  <2>2. ASSUME NEW s \in Step, stage[e][s].request = r PROVE s = chain[e].step
    BY <1>2, <2>2, NoneAssumption DEF EntityShape, LinkShape
  <2> QED
    BY <1>1, <2>1, <2>2 DEF LinkedSteps
<1> QED
  BY <1>1, <1>2, <1>3, <1>4 DEF EntityShape, AskShape

\* What a statement about e leaves alone.
OthersAlone(e) ==
    \A d \in Entity : d # e =>
        chain'[d] = chain[d] /\ stage'[d] = stage[d] /\ PendingFor(d)' = PendingFor(d)

\* Approving a stage that is not the last: the next one takes over.
LEMMA AdvanceChainShape ==
    ASSUME StoreTypeOK, StoreShape, NEW r \in Request, NEW q \in Request, NEW a \in Employee,
           NEW e \in Entity, e = request[r].entity, AdvanceChain(r, q, a)
    PROVE  /\ StoreShape' /\ OthersAlone(e)
           /\ chain[e].status \in {"pending", "approved", "rejected"}
           /\ chain'[e].status = chain[e].status /\ chain[e].status # "approved"
           /\ chain'[e].status = "pending" /\ chain'[e].step > 1
<1> USE NoneAssumption, StepFacts
<1>1. /\ PendingFor(e) = {r}
      /\ chain[e].status = "absent" => LinkedSteps(r) = {}
      /\ chain[e].status # "absent" => chain[e].step \in Step /\ LinkedSteps(r) = {chain[e].step}
  BY PendingLinked DEF AdvanceChain
<1>2. PICK s \in LinkedSteps(r) :
        /\ stage[e][s].status = "pending" /\ s < chain[e].last
        /\ request[r].status = "pending" /\ request[q].status = "absent"
        /\ request' = [request EXCEPT ![r] = DecidedRow(r, "approved"),
                                      ![q] = PendingRow(e, stage[e][s + 1].approver)]
        /\ stage' = [stage EXCEPT ![e][s] = DecidedStage(@, "approved", a),
                                  ![e][s + 1] = ActivatedStage(@, q)]
        /\ chain' = [chain EXCEPT ![e] = ChainAt(@, @.status, s + 1)]
  BY <1>1 DEF AdvanceChain
<1>3. s \in Step /\ s = chain[e].step /\ chain[e].status # "absent" /\ stage[e][s].request = r
  BY <1>1, <1>2 DEF LinkedSteps
<1>4. /\ chain[e].status = "pending"
      /\ \A t \in Step : t < s => stage[e][t].status = "approved"
      /\ \A t \in Step : t > s => stage[e][t].request = None
  BY <1>2, <1>3 DEF StoreShape, EntityShape, ChainShape
<1>5. s \in Nat /\ s + 1 \in Step /\ chain[e].last \in Step /\ s + 1 <= chain[e].last
  <2>1. chain[e].last \in 0..MaxStages /\ MaxStages \in Nat
    BY StagesAssumption DEF StoreTypeOK, ChainRow
  <2>2. s \in 1..MaxStages /\ s < chain[e].last
    BY <1>2, <1>3 DEF Step
  <2>3. s \in Nat /\ s + 1 \in 1..MaxStages /\ chain[e].last \in 1..MaxStages /\ s + 1 <= chain[e].last
    BY <2>1, <2>2
  <2> QED
    BY <2>3 DEF Step
<1>6. PICK b : request' = [request EXCEPT ![r] = DecidedRow(r, "approved"), ![q] = PendingRow(e, b)]
  <2>1. request' = [request EXCEPT ![r] = DecidedRow(r, "approved"),
                                   ![q] = PendingRow(e, stage[e][s + 1].approver)]
    BY <1>2
  <2> QED
    BY <2>1
<1>7. /\ r # q /\ request[q].entity = None
      /\ request'[r].status = "approved" /\ request'[r].entity = e
      /\ request'[q].status = "pending" /\ request'[q].entity = e
      /\ \A k \in Request : k # r /\ k # q => request'[k] = request[k]
  <2>1. r # q /\ request[q].entity = None
    BY <1>2 DEF StoreShape, RowShape
  <2> QED
    BY <1>6, <2>1 DEF StoreTypeOK, DecidedRow, PendingRow
<1>8. /\ chain'[e] = [status |-> "pending", step |-> s + 1, last |-> chain[e].last]
      /\ \A d \in Entity : d # e => chain'[d] = chain[d]
  BY <1>2, <1>4 DEF StoreTypeOK, ChainAt
<1>9. /\ stage'[e][s].status = "approved" /\ stage'[e][s].request = r
      /\ stage'[e][s + 1].status = "pending" /\ stage'[e][s + 1].request = q
      /\ \A t \in Step : t # s /\ t # s + 1 => stage'[e][t] = stage[e][t]
      /\ \A d \in Entity : d # e => stage'[d] = stage[d]
  <2>1. s + 1 # s
    BY <1>5
  <2> QED
    BY <1>2, <1>3, <1>5, <2>1 DEF StoreTypeOK, DecidedStage, ActivatedStage
<1>10. RowShape'
  BY <1>7 DEF StoreShape, RowShape
<1>11. ASSUME NEW d \in Entity, d # e
       PROVE  EntityShape(d)' /\ PendingFor(d)' = PendingFor(d)
  <2>1. \A k \in Request : (request[k].entity = d \/ request'[k].entity = d) => request'[k] = request[k]
    BY <1>7, <1>11
  <2>2. PendingFor(d)' = PendingFor(d)
    BY <2>1 DEF PendingFor
  <2> QED
    BY <1>8, <1>9, <1>11, <2>1, <2>2, FrameShape DEF StoreShape
<1>12. EntityShape(e)'
  <2>1. ASSUME NEW t \in Step
        PROVE  /\ t < s + 1 => stage'[e][t].status = "approved"
               /\ t > s + 1 => stage'[e][t].request = None
    <3>1. t < s \/ t = s \/ t = s + 1 \/ t > s + 1
      BY <1>5 DEF Step
    <3>2. CASE t < s
      BY <1>4, <1>5, <1>9, <3>2 DEF Step
    <3>3. CASE t = s \/ t = s + 1
      BY <1>5, <1>9, <3>3
    <3>4. CASE t > s + 1
      BY <1>4, <1>5, <1>9, <3>4 DEF Step
    <3> QED
      BY <3>1, <3>2, <3>3, <3>4
  <2>2. ChainShape(e)'
    BY <1>5, <1>8, <1>9, <2>1 DEF ChainShape
  <2>3. PendingFor(e)' = {q}
    BY <1>1, <1>7 DEF PendingFor
  <2>4. LinkShape(e)'
    <3> SUFFICES ASSUME NEW t \in Step, stage'[e][t].request # None
                 PROVE  LET k == stage'[e][t].request IN
                        /\ request'[k].status # "absent" /\ request'[k].entity = e
                        /\ t # s + 1 => request'[k].status # "pending"
      BY <1>8 DEF LinkShape
    <3>1. CASE t = s \/ t = s + 1
      BY <1>7, <1>9, <3>1
    <3>2. CASE t # s /\ t # s + 1
      <4>1. stage'[e][t] = stage[e][t]
        BY <1>9, <3>2
      <4>2. PICK k \in Request : k = stage[e][t].request
        BY <4>1 DEF StoreTypeOK, StageRow
      <4>3. request[k].status # "absent" /\ request[k].entity = e /\ request[k].status # "pending"
        BY <1>3, <3>2, <4>1, <4>2 DEF StoreShape, EntityShape, LinkShape
      <4>4. request'[k] = request[k]
        BY <1>2, <1>7, <4>3
      <4> QED
        BY <4>1, <4>2, <4>3, <4>4
    <3> QED
      BY <3>1, <3>2
  <2> QED
    BY <1>8, <1>9, <2>2, <2>3, <2>4 DEF EntityShape, AskShape
<1>13. chain'[e].status = "pending" /\ chain'[e].step > 1
  <2>1. s > 0
    BY <1>3, <1>5 DEF Step
  <2> QED
    BY <1>5, <1>8, <2>1
<1> QED
  BY <1>4, <1>8, <1>9, <1>10, <1>11, <1>12, <1>13 DEF StoreShape, OthersAlone

\* The approval of the last stage, a refusal, or the decision of a request without a chain:
\* nobody is asked any more, and an approval completes the chain.
LEMMA FinishShape ==
    ASSUME StoreTypeOK, StoreShape, NEW r \in Request, NEW a \in Employee,
           NEW v \in {"approved", "rejected"}, NEW e \in Entity, e = request[r].entity,
           \/ v = "approved" /\ FinishApproval(r, a)
           \/ v = "rejected" /\ FinishRejection(r, a)
    PROVE  /\ StoreShape' /\ OthersAlone(e) /\ PendingFor(e)' = {}
           /\ chain[e].status = "absent" => chain'[e].status = "absent"
           /\ chain[e].status # "absent" => chain'[e].status = v
<1> USE NoneAssumption, StepFacts
<1>1. /\ PendingFor(e) = {r}
      /\ chain[e].status = "absent" => LinkedSteps(r) = {}
      /\ chain[e].status # "absent" => chain[e].step \in Step /\ LinkedSteps(r) = {chain[e].step}
  BY PendingLinked DEF FinishApproval, FinishRejection
<1>2. /\ request[r].status = "pending"
      /\ request' = [request EXCEPT ![r] = DecidedRow(r, v)]
      /\ \/ LinkedSteps(r) = {} /\ UNCHANGED <<chain, stage>>
         \/ \E s \in LinkedSteps(r) :
              /\ v = "approved" => s = chain[e].last
              /\ stage' = [stage EXCEPT ![e][s] = DecidedStage(@, v, a)]
              /\ chain' = [chain EXCEPT ![e] = ChainAt(@, v, @.step)]
  BY DEF FinishApproval, FinishRejection
<1>3. /\ request'[r].status = v /\ request'[r].entity = e
      /\ \A k \in Request : k # r => request'[k] = request[k]
  BY <1>2 DEF StoreTypeOK, DecidedRow
<1>4. RowShape'
  BY <1>3 DEF StoreShape, RowShape
<1>5. PendingFor(e)' = {}
  BY <1>1, <1>3 DEF PendingFor
<1>6. ASSUME NEW d \in Entity, d # e, chain'[d] = chain[d], stage'[d] = stage[d]
      PROVE  EntityShape(d)' /\ PendingFor(d)' = PendingFor(d)
  <2>1. \A k \in Request : (request[k].entity = d \/ request'[k].entity = d) => request'[k] = request[k]
    BY <1>3, <1>6
  <2>2. PendingFor(d)' = PendingFor(d)
    BY <2>1 DEF PendingFor
  <2> QED
    BY <1>6, <2>1, <2>2, FrameShape DEF StoreShape
<1>7. CASE chain[e].status = "absent"
  <2>1. chain' = chain /\ stage' = stage
    BY <1>1, <1>2, <1>7
  <2>2. EntityShape(e)'
    BY <1>5, <1>7, <2>1 DEF StoreShape, EntityShape, ChainShape, LinkShape, AskShape
  <2> QED
    BY <1>4, <1>5, <1>6, <1>7, <2>1, <2>2 DEF StoreShape, OthersAlone
<1>8. CASE chain[e].status # "absent"
  <2> DEFINE s == chain[e].step
  <2>1. /\ v = "approved" => s = chain[e].last
        /\ stage' = [stage EXCEPT ![e][s] = DecidedStage(@, v, a)]
        /\ chain' = [chain EXCEPT ![e] = ChainAt(@, v, @.step)]
    BY <1>1, <1>2, <1>8
  <2>2. s \in Step /\ stage[e][s].request = r
    BY <1>1, <1>8 DEF LinkedSteps
  <2>3. /\ chain'[e] = [status |-> v, step |-> s, last |-> chain[e].last]
        /\ stage'[e][s].status = v /\ stage'[e][s].request = r
        /\ \A t \in Step : t # s => stage'[e][t] = stage[e][t]
        /\ \A d \in Entity : d # e => chain'[d] = chain[d] /\ stage'[d] = stage[d]
    BY <2>1, <2>2 DEF StoreTypeOK, ChainAt, DecidedStage
  <2> HIDE DEF s
  <2>4. ChainShape(e)'
    <3>1. /\ chain[e].last \in Step /\ s <= chain[e].last
          /\ \A t \in Step : t < s => stage[e][t].status = "approved"
          /\ \A t \in Step : t > s => stage[e][t].request = None
      BY <1>8 DEF s, StoreShape, EntityShape, ChainShape
    <3>2. \A t \in Step : /\ t < s => stage'[e][t].status = "approved"
                          /\ t > s => stage'[e][t].request = None
      BY <2>2, <2>3, <3>1 DEF Step
    <3> QED
      BY <2>1, <2>2, <2>3, <3>1, <3>2 DEF ChainShape
  <2>5. LinkShape(e)'
    <3> SUFFICES ASSUME NEW t \in Step, stage'[e][t].request # None
                 PROVE  LET k == stage'[e][t].request IN
                        /\ request'[k].status # "absent" /\ request'[k].entity = e
                        /\ t # s => request'[k].status # "pending"
      BY <2>3 DEF LinkShape
    <3>1. CASE t = s
      BY <1>3, <2>3, <3>1
    <3>2. CASE t # s
      <4>1. stage'[e][t] = stage[e][t]
        BY <2>3, <3>2
      <4>2. PICK k \in Request : k = stage[e][t].request
        BY <4>1 DEF StoreTypeOK, StageRow
      <4>3. request[k].status # "absent" /\ request[k].entity = e /\ request[k].status # "pending"
        BY <3>2, <4>1, <4>2 DEF s, StoreShape, EntityShape, LinkShape
      <4>4. request'[k] = request[k]
        BY <1>2, <1>3, <4>3
      <4> QED
        BY <4>1, <4>2, <4>3, <4>4
    <3> QED
      BY <3>1, <3>2
  <2>6. EntityShape(e)'
    BY <1>5, <2>4, <2>5 DEF EntityShape, AskShape
  <2> QED
    BY <1>4, <1>5, <1>6, <1>8, <2>3, <2>6 DEF StoreShape, OthersAlone
<1> QED
  BY <1>7, <1>8

\* A chain is approved only by all of its stages.
LEMMA ApprovedChainStages ==
    ASSUME StoreShape, NEW e \in Entity, chain[e].status = "approved"
    PROVE  \A s \in 1..chain[e].last : stage[e][s].status = "approved"
<1>1. /\ chain[e].last \in Step /\ stage[e][chain[e].last].status = "approved"
      /\ \A s \in Step : s < chain[e].last => stage[e][s].status = "approved"
  BY DEF StoreShape, EntityShape, ChainShape
<1>2. \A s \in 1..chain[e].last : s \in Step /\ (s < chain[e].last \/ s = chain[e].last)
  BY <1>1, StagesAssumption DEF Step
<1> QED
  BY <1>1, <1>2
=============================================================================
