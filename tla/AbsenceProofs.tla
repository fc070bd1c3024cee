---------------------------- MODULE AbsenceProofs ----------------------------
(***************************************************************************)
(* The properties of AbsenceRequests and of ChatApproval, proved for every *)
(* number of absences, requests, employees, stages, calls and platforms.   *)
(*                                                                         *)
(* A step is described once, from the point of view of one absence: it is  *)
(* submitted, split off, advanced, finished, approved automatically, or at *)
(* most closed (AbsenceStep).  Each property is then a statement about     *)
(* those six, and nothing of the interleaving of the calls is left in it.  *)
(***************************************************************************)
EXTENDS ChatApproval, ApprovalStoreProofs, TLAPS

Call == {Idle} \cup OpenedCall \cup AutoCall \cup CancelCall \cup OverrideCall
BotCall == EscalateCall \cup ClickCall

-----------------------------------------------------------------------------
(***************************************************************************)
(* The invariant.  Calls are the records that a session may hold: those of *)
(* AbsenceRequests alone, or those of the bots too.                        *)
(***************************************************************************)
RowsTypeOK ==
    /\ StoreTypeOK
    /\ autoApproved \subseteq Entity
    /\ absence \in [Entity -> RowStatus]
    /\ canonical \in [Entity -> RowStatus]

Unasked(e) == chain[e].status = "absent" /\ \A r \in Request : request[r].entity # e

\* Nobody is asked about an absence that was not submitted or needs no approval, and
\* an id that is kept for a split is not used for one that needs none.
FreshInv ==
    \A e \in Entity :
        /\ absence[e] = "none" => Unasked(e)
        /\ e \in autoApproved => e \notin Segment /\ Unasked(e)

\* Only an absence that needs no approval is being approved automatically.
AutoInv ==
    \A x \in Session : session[x].phase = "autoApproving" => session[x].entity \in autoApproved

Base(Calls) ==
    /\ RowsTypeOK
    /\ session \in [Session -> Calls]
    /\ StoreShape
    /\ FreshInv
    /\ AutoInv

-----------------------------------------------------------------------------
(***************************************************************************)
(* What a step does to one absence.                                        *)
(***************************************************************************)
\* Its chain stays as it is, and nobody is asked who was not asked before.
Quiet(e) ==
    /\ chain'[e] = chain[e] /\ stage'[e] = stage[e]
    /\ PendingFor(e)' \subseteq PendingFor(e)
    /\ \A r \in Request : request'[r].entity = e => request[r].entity = e

Submitted(e) ==
    /\ absence[e] = "none" /\ e \notin autoApproved
    /\ absence'[e] = "pending" /\ canonical'[e] = "pending"

SplitOff(e) ==
    /\ absence[e] = "none" /\ e \in Segment
    /\ absence'[e] \in {"pending", "approved"} /\ canonical'[e] = absence'[e]
    /\ chain'[e] = chain[e] /\ stage'[e] = stage[e]
    /\ absence'[e] = "approved" => PendingFor(e)' = {}

LaterStage(e) == chain[e].status = "pending" /\ chain[e].step > 1

Advanced(e) ==
    /\ PendingFor(e) # {} /\ LaterStage(e)'
    /\ absence'[e] = absence[e] /\ canonical'[e] = canonical[e]
    /\ chain'[e].status = chain[e].status

Finished(e) ==
    /\ PendingFor(e) # {} /\ PendingFor(e)' = {}
    /\ Exists(absence[e]) /\ absence'[e] \in Verdict
    /\ canonical'[e] = IF Exists(canonical[e]) THEN absence'[e] ELSE canonical[e]
    /\ chain[e].status = "absent" => chain'[e].status = "absent"
    /\ chain[e].status # "absent" => chain'[e].status = absence'[e]

AutoStep(e) ==
    /\ e \in autoApproved /\ Quiet(e)
    /\ absence[e] = "deleted" => absence'[e] = "deleted"
    /\ absence'[e] = "none" => absence[e] = "none"

\* An override closes the requests it read, when it read that the vacation was pending.
Covers(x, e) ==
    /\ session[x].phase = "overriding" /\ session[x].entity = e
    /\ session[x].seen = "pending" => PendingFor(e)' \cap session[x].asked = {}

Closed(e) ==
    /\ Quiet(e)
    /\ \/ /\ absence'[e] = absence[e] \/ (Exists(absence[e]) /\ absence'[e] = "deleted")
          /\ canonical'[e] = canonical[e] \/ (Exists(canonical[e]) /\ canonical'[e] = "deleted")
       \/ /\ absence'[e] = (IF Exists(absence[e]) THEN "rejected" ELSE absence[e])
          /\ canonical'[e] = (IF Exists(canonical[e]) THEN "rejected" ELSE canonical[e])
          /\ \E x \in Session : Covers(x, e)

AbsenceStep(e) ==
    \/ Submitted(e)
    \/ SplitOff(e)
    \/ Advanced(e)
    \/ Finished(e)
    \/ AutoStep(e)
    \/ Closed(e)

-----------------------------------------------------------------------------
(***************************************************************************)
(* Types of the sessions.                                                  *)
(***************************************************************************)
\* The phase of a call tells which record it is.
Kinds(Calls) ==
    /\ Call \subseteq Calls
    /\ \A c \in Calls :
         /\ c.phase = "opened" => c \in OpenedCall
         /\ c.phase = "autoApproving" => c \in AutoCall
         /\ c.phase = "cancelling" => c \in CancelCall
         /\ c.phase = "overriding" => c \in OverrideCall

BotKinds(Calls) ==
    /\ BotCall \subseteq Calls
    /\ \A c \in Calls :
         /\ c.phase = "escalating" => c \in EscalateCall
         /\ c.phase = "clicked" => c \in ClickCall

LEMMA PhaseOfCall ==
    /\ Idle.phase = "idle"
    /\ \A c \in OpenedCall : c.phase = "opened"
    /\ \A c \in AutoCall : c.phase = "autoApproving"
    /\ \A c \in CancelCall : c.phase = "cancelling"
    /\ \A c \in OverrideCall : c.phase = "overriding"
    /\ \A c \in EscalateCall : c.phase = "escalating"
    /\ \A c \in ClickCall : c.phase = "clicked"
BY DEF Idle, OpenedCall, AutoCall, CancelCall, OverrideCall, EscalateCall, ClickCall

LEMMA CallKinds == Kinds(Call) /\ Kinds(Call \cup BotCall) /\ BotKinds(Call \cup BotCall)
<1>1. \A c \in Call \cup BotCall :
        /\ c.phase = "opened" => c \in OpenedCall
        /\ c.phase = "autoApproving" => c \in AutoCall
        /\ c.phase = "cancelling" => c \in CancelCall
        /\ c.phase = "overriding" => c \in OverrideCall
        /\ c.phase = "escalating" => c \in EscalateCall
        /\ c.phase = "clicked" => c \in ClickCall
  BY PhaseOfCall DEF Call, BotCall
<1> QED
  BY <1>1 DEF Kinds, BotKinds

LEMMA BecomeType ==
    ASSUME NEW Calls, session \in [Session -> Calls], NEW x \in Session, NEW c \in Calls, Become(x, c)
    PROVE  session' \in [Session -> Calls]
BY DEF Become

LEMMA IdleIsCall == ASSUME NEW Calls, Kinds(Calls) PROVE Idle \in Calls
BY DEF Kinds, Call

-----------------------------------------------------------------------------
(***************************************************************************)
(* The statements that change rows.                                        *)
(***************************************************************************)
\* What statements about e leave alone.
OthersKept(e) ==
    \A d \in Entity : d # e =>
        /\ chain'[d] = chain[d] /\ stage'[d] = stage[d]
        /\ \A k \in Request : request'[k].entity = d => request'[k] = request[k]

\* The other absences, if their own rows are kept too.
LEMMA OthersClosed ==
    ASSUME NEW e \in Entity, OthersKept(e), NEW d \in Entity, d # e,
           absence'[d] = absence[d], canonical'[d] = canonical[d]
    PROVE  Closed(d)
<1>1. PendingFor(d)' \subseteq PendingFor(d)
  BY DEF PendingFor, OthersKept
<1> QED
  BY <1>1 DEF Closed, Quiet, OthersKept

\* createRequestedAbsenceRecordsInTransaction.
LEMMA SubmitStep ==
    ASSUME RowsTypeOK, StoreShape, FreshInv, NEW e \in Entity, Submit(e)
    PROVE  RowsTypeOK' /\ StoreShape' /\ \A d \in Entity : AbsenceStep(d)
<1>1. chain[e].status = "absent" /\ StoreTypeOK
  BY DEF Submit, FreshInv, Unasked, RowsTypeOK
<1>2. StoreTypeOK' /\ StoreShape' /\ OthersKept(e)
  <2>1. ASSUME NEW r \in Request, NEW a \in Eligible, CreateDefault(e, a, r)
        PROVE  StoreTypeOK' /\ StoreShape' /\ OthersKept(e)
    <3>1. a \in Employee
      BY EmployeeAssumption
    <3>2. \A k \in Request : request'[k] = IF k = r THEN PendingRow(e, a) ELSE request[k]
      BY <1>1, <2>1 DEF CreateDefault, StoreTypeOK
    <3>3. UNCHANGED <<chain, stage>>
      BY <2>1 DEF CreateDefault
    <3>4. StoreTypeOK' /\ StoreShape'
      BY <1>1, <2>1, <3>1, CreateDefaultType, CreateDefaultShape
    <3> QED
      BY <3>2, <3>3, <3>4 DEF PendingRow, OthersKept
  <2>2. ASSUME NEW r \in Request, NEW n \in Step, NEW approvers \in [1..n -> Employee],
               CreateChain(e, approvers, n, r)
        PROVE  StoreTypeOK' /\ StoreShape' /\ OthersKept(e)
    <3>1. \A k \in Request : request'[k] = IF k = r THEN PendingRow(e, approvers[1]) ELSE request[k]
      BY <1>1, <2>2 DEF CreateChain, StoreTypeOK
    <3>2. \A d \in Entity : d # e => chain'[d] = chain[d] /\ stage'[d] = stage[d]
      BY <1>1, <2>2 DEF CreateChain, StoreTypeOK
    <3>3. StoreTypeOK' /\ StoreShape'
      BY <1>1, <2>2, CreateChainType, CreateChainShape
    <3> QED
      BY <3>1, <3>2, <3>3 DEF PendingRow, OthersKept
  <2> QED
    BY <2>1, <2>2 DEF Submit
<1>3. /\ absence[e] = "none" /\ e \notin autoApproved /\ autoApproved' = autoApproved
      /\ absence' = [absence EXCEPT ![e] = "pending"] /\ canonical' = [canonical EXCEPT ![e] = "pending"]
  BY DEF Submit
<1>4. RowsTypeOK'
  BY <1>2, <1>3 DEF RowsTypeOK, RowStatus
<1>5. Submitted(e)
  BY <1>3 DEF Submitted, RowsTypeOK
<1>6. ASSUME NEW d \in Entity, d # e PROVE Closed(d)
  BY <1>2, <1>3, <1>6, OthersClosed DEF RowsTypeOK
<1> QED
  BY <1>2, <1>4, <1>5, <1>6 DEF AbsenceStep

\* A decision of the inbox or of the page: a stage that is not the last, the last one or a
\* request without a chain, or a refusal.
LEMMA DecideStep ==
    ASSUME RowsTypeOK, StoreShape, NEW e \in Entity, NEW r \in PendingFor(e),
           NEW a \in Employee, NEW v \in Verdict, Decide(e, r, a, v), autoApproved' = autoApproved
    PROVE  RowsTypeOK' /\ StoreShape' /\ \A d \in Entity : AbsenceStep(d)
<1>1. r \in Request /\ e = request[r].entity /\ request[r].status = "pending" /\ StoreTypeOK
  BY DEF PendingFor, RowsTypeOK
<1>2. ASSUME NEW q \in Request, AdvanceChain(r, q, a), UNCHANGED absenceVars
      PROVE  RowsTypeOK' /\ StoreShape' /\ \A d \in Entity : AbsenceStep(d)
  <2>1. StoreTypeOK'
    BY <1>1, <1>2, AdvanceChainType
  <2>2. /\ StoreShape' /\ OthersAlone(e) /\ chain'[e].status = chain[e].status
        /\ chain'[e].status = "pending" /\ chain'[e].step > 1
    BY <1>1, <1>2, AdvanceChainShape
  <2>3. RowsTypeOK'
    BY <1>2, <2>1 DEF RowsTypeOK, absenceVars
  <2>4. Advanced(e)
    BY <1>2, <2>2 DEF Advanced, LaterStage, absenceVars
  <2>5. PICK b : request' = [request EXCEPT ![r] = DecidedRow(r, "approved"), ![q] = PendingRow(e, b)]
    BY <1>1, <1>2 DEF AdvanceChain
  <2>6. \A k \in Request : request'[k] = request[k] \/ request'[k].entity = e
    BY <1>1, <2>5 DEF StoreTypeOK, DecidedRow, PendingRow
  <2>7. OthersKept(e)
    BY <2>2, <2>6 DEF OthersAlone, OthersKept
  <2>8. \A d \in Entity : d # e => Closed(d)
    BY <1>2, <2>7, OthersClosed DEF absenceVars
  <2> QED
    BY <2>2, <2>3, <2>4, <2>8 DEF AbsenceStep
<1>3. ASSUME \/ v = "approved" /\ FinishApproval(r, a)
             \/ v = "rejected" /\ FinishRejection(r, a),
             PersistDecision(e, v)
      PROVE  RowsTypeOK' /\ StoreShape' /\ \A d \in Entity : AbsenceStep(d)
  <2>1. StoreTypeOK'
    BY <1>1, <1>3, FinishType
  <2>2. /\ StoreShape' /\ OthersAlone(e) /\ PendingFor(e)' = {}
        /\ chain[e].status = "absent" => chain'[e].status = "absent"
        /\ chain[e].status # "absent" => chain'[e].status = v
    BY <1>1, <1>3, FinishShape DEF Verdict
  <2>3. /\ Exists(absence[e]) /\ absence' = [absence EXCEPT ![e] = v]
        /\ canonical' = [canonical EXCEPT ![e] = IF Exists(@) THEN v ELSE @]
    BY <1>3 DEF PersistDecision, Set
  <2>4. v \in RowStatus
    BY DEF Verdict, RowStatus
  <2>5. RowsTypeOK'
    BY <2>1, <2>3, <2>4 DEF RowsTypeOK
  <2>6. Finished(e)
    BY <2>2, <2>3 DEF Finished, RowsTypeOK
  <2>7. \A k \in Request : request'[k] = request[k] \/ request'[k].entity = e
    BY <1>1, <1>3 DEF StoreTypeOK, FinishApproval, FinishRejection, DecidedRow
  <2>8. OthersKept(e)
    BY <2>2, <2>7 DEF OthersAlone, OthersKept
  <2>9. ASSUME NEW d \in Entity, d # e PROVE Closed(d)
    BY <2>3, <2>8, <2>9, OthersClosed DEF RowsTypeOK
  <2> QED
    BY <2>2, <2>5, <2>6, <2>9 DEF AbsenceStep
<1> QED
  BY <1>2, <1>3 DEF Decide

\* An UPDATE or a DELETE by id.
LEMMA SetFacts ==
    ASSUME NEW table \in [Entity -> RowStatus], NEW e \in Entity, NEW v \in RowStatus
    PROVE  /\ Set(table, e, v) \in [Entity -> RowStatus]
           /\ \A d \in Entity : Set(table, e, v)[d] = IF d = e /\ Exists(table[d]) THEN v ELSE table[d]
BY DEF Set

\* Statements that only close rows: nobody is asked who was not asked before.
Closing ==
    /\ UNCHANGED <<chain, stage>>
    /\ request' \in [Request -> RequestRow]
    /\ \A r \in Request : /\ request'[r].entity = request[r].entity
                          /\ request'[r].status = "absent" <=> request[r].status = "absent"
                          /\ request'[r].status = "pending" => request[r].status = "pending"

LEMMA ClosingKeeps ==
    ASSUME StoreTypeOK, StoreShape, Closing
    PROVE  StoreTypeOK' /\ StoreShape' /\ \A d \in Entity : Quiet(d)
<1>1. StoreTypeOK'
  BY DEF Closing, StoreTypeOK
<1>2. StoreShape'
  BY CloseShape DEF Closing
<1>3. \A d \in Entity : Quiet(d)
  BY DEF Closing, Quiet, PendingFor
<1> QED
  BY <1>1, <1>2, <1>3

LEMMA SameRowsClosing == StoreTypeOK /\ UNCHANGED storeVars => Closing
BY DEF StoreTypeOK, storeVars, Closing

\* A statement of cancelAbsenceRequestForEmployee.
LEMMA CancelStep ==
    ASSUME RowsTypeOK, StoreShape, NEW x \in Session, session[x] \in CancelCall, ContinueCancel(x)
    PROVE  RowsTypeOK' /\ StoreShape' /\ \A d \in Entity : AbsenceStep(d)
<1>1. PICK e \in Entity : e = session[x].entity
  BY DEF CancelCall
<1>2. PICK t \in session[x].todo :
        /\ absence' = IF t = "absence" THEN Set(absence, e, "deleted") ELSE absence
        /\ canonical' = IF t = "canonical" THEN Set(canonical, e, "deleted") ELSE canonical
        /\ IF t = "requests" THEN DeleteRequests(e) ELSE UNCHANGED request
  BY <1>1 DEF ContinueCancel
<1>3. UNCHANGED <<chain, stage, autoApproved>>
  BY DEF ContinueCancel
<1>4. Closing
  <2>1. CASE UNCHANGED request
    BY <1>3, <2>1, SameRowsClosing DEF RowsTypeOK, storeVars
  <2>2. CASE request' = [r \in Request |->
               IF r \in RequestsOf(e) THEN DecidedRow(r, "deleted") ELSE request[r]]
    <3>1. request' \in [Request -> RequestRow]
      BY <2>2 DEF RowsTypeOK, StoreTypeOK, DecidedRow, RequestRow
    <3> QED
      BY <1>3, <2>2, <3>1 DEF Closing, DecidedRow, RequestsOf
  <2> QED
    BY <1>2, <2>1, <2>2 DEF DeleteRequests
<1>5. StoreTypeOK' /\ StoreShape' /\ \A d \in Entity : Quiet(d)
  BY <1>4, ClosingKeeps DEF RowsTypeOK
<1>6. /\ absence' \in [Entity -> RowStatus] /\ canonical' \in [Entity -> RowStatus]
      /\ \A d \in Entity :
           /\ absence'[d] = absence[d] \/ (Exists(absence[d]) /\ absence'[d] = "deleted")
           /\ canonical'[d] = canonical[d] \/ (Exists(canonical[d]) /\ canonical'[d] = "deleted")
  BY <1>2, SetFacts DEF RowsTypeOK, RowStatus
<1> QED
  BY <1>3, <1>5, <1>6 DEF RowsTypeOK, AbsenceStep, Closed

\* A vacation that the sick absence covers.
LEMMA CoverStep ==
    ASSUME RowsTypeOK, StoreShape, NEW x \in Session, session[x] \in OverrideCall, Cover(x)
    PROVE  RowsTypeOK' /\ StoreShape' /\ \A d \in Entity : AbsenceStep(d)
<1>1. PICK e \in Entity : e = session[x].entity
  BY DEF OverrideCall
<1>2. /\ absence' = Set(absence, e, "rejected") /\ canonical' = Set(canonical, e, "rejected")
      /\ UNCHANGED request \/ \E rows : CloseRequests(e, rows)
      /\ UNCHANGED <<chain, stage, autoApproved>>
  BY <1>1 DEF Cover
<1>3. Closing
  <2>1. ASSUME NEW rows, CloseRequests(e, rows) PROVE Closing
    <3>1. request' \in [Request -> RequestRow]
      BY <2>1 DEF CloseRequests, RowsTypeOK, StoreTypeOK, DecidedRow, RequestRow
    <3> QED
      BY <1>2, <2>1, <3>1 DEF Closing, CloseRequests, DecidedRow, PendingFor
  <2> QED
    BY <1>2, <2>1, SameRowsClosing DEF RowsTypeOK, storeVars
<1>4. StoreTypeOK' /\ StoreShape' /\ \A d \in Entity : Quiet(d)
  BY <1>3, ClosingKeeps DEF RowsTypeOK
<1>5. /\ absence' \in [Entity -> RowStatus] /\ canonical' \in [Entity -> RowStatus]
      /\ absence' = Set(absence, e, "rejected") /\ canonical' = Set(canonical, e, "rejected")
  BY <1>2, SetFacts DEF RowsTypeOK, RowStatus
<1>6. ASSUME NEW d \in Entity PROVE Closed(d)
  <2>1. CASE d = e
    <3>1. /\ absence'[d] = IF Exists(absence[d]) THEN "rejected" ELSE absence[d]
          /\ canonical'[d] = IF Exists(canonical[d]) THEN "rejected" ELSE canonical[d]
      BY <1>5, <2>1, SetFacts DEF RowsTypeOK, RowStatus
    <3>2. ASSUME session[x].seen = "pending" PROVE PendingFor(d)' \cap session[x].asked = {}
      <4>1. PICK rows \in {session[x].asked, PendingFor(e)} : CloseRequests(e, rows)
        BY <1>1, <3>2 DEF Cover
      <4>2. PendingFor(e) \cap session[x].asked \subseteq rows
        BY <4>1
      <4>3. \A r \in PendingFor(e)' : r \in PendingFor(e) /\ r \notin rows
        BY <1>4, <4>1 DEF Quiet, CloseRequests, PendingFor, DecidedRow
      <4> QED
        BY <2>1, <4>2, <4>3
    <3>3. Covers(x, d)
      BY <1>1, <2>1, <3>2 DEF Cover, Covers
    <3> QED
      BY <1>4, <3>1, <3>3 DEF Closed
  <2>2. CASE d # e
    <3>1. absence'[d] = absence[d] /\ canonical'[d] = canonical[d]
      BY <1>5, <2>2, SetFacts DEF RowsTypeOK, RowStatus
    <3> QED
      BY <1>4, <3>1 DEF Closed
  <2> QED
    BY <2>1, <2>2
<1> QED
  BY <1>2, <1>4, <1>5, <1>6 DEF RowsTypeOK, AbsenceStep

\* A vacation that a sick absence splits: the new segment d, and the copy of a request.
LEMMA SplitStep ==
    ASSUME RowsTypeOK, StoreShape, FreshInv, NEW x \in Session, session[x] \in OverrideCall,
           NEW d \in Entity, Split(x, d)
    PROVE  RowsTypeOK' /\ StoreShape' /\ \A c \in Entity : AbsenceStep(c)
<1>1. PICK v \in {"pending", "approved"} : v = session[x].seen
  BY DEF OverrideCall
<1>2. /\ d \in Segment /\ absence[d] = "none"
      /\ absence' = [absence EXCEPT ![d] = v] /\ canonical' = [canonical EXCEPT ![d] = v]
      /\ UNCHANGED <<chain, stage, autoApproved>>
  BY <1>1 DEF Split
<1>3. Unasked(d)
  BY <1>2 DEF FreshInv
<1>4. PendingFor(d) = {}
  BY <1>3 DEF Unasked, PendingFor
<1>5. /\ StoreTypeOK' /\ StoreShape' /\ OthersKept(d)
      /\ v = "approved" => PendingFor(d)' = {}
  <2>1. CASE UNCHANGED request
    <3>1. StoreTypeOK' /\ StoreShape'
      BY <1>2, <2>1, SameRowsClosing, ClosingKeeps DEF RowsTypeOK, storeVars
    <3> QED
      BY <1>2, <1>4, <2>1, <3>1 DEF OthersKept, PendingFor
  <2>2. ASSUME v = "pending", NEW k \in Surviving(session[x].entity), NEW q \in Request, CopyRequest(k, q, d)
        PROVE  StoreTypeOK' /\ StoreShape' /\ OthersKept(d)
    <3> DEFINE row == [status |-> request[k].status, entity |-> d, approver |-> request[k].approver]
    <3>1. k \in Request /\ request[k].status # "absent"
      BY DEF Surviving, RequestsOf
    <3>2. row \in RequestRow /\ row.status # "absent" /\ row.entity = d
      BY <3>1 DEF RowsTypeOK, StoreTypeOK, RequestRow
    <3>3. request[q].status = "absent" /\ request' = [request EXCEPT ![q] = row]
      BY <2>2 DEF CopyRequest
    <3> HIDE DEF row
    <3>4. StoreTypeOK'
      BY <1>2, <3>2, <3>3 DEF RowsTypeOK, StoreTypeOK
    <3>5. StoreShape'
      BY <1>2, <1>3, <1>4, <3>2, <3>3, InsertShape DEF RowsTypeOK, Unasked
    <3>6. OthersKept(d)
      BY <1>2, <3>2, <3>3 DEF OthersKept, RowsTypeOK, StoreTypeOK
    <3> QED
      BY <3>4, <3>5, <3>6
  <2> QED
    BY <1>1, <2>1, <2>2 DEF Split
<1>6. RowsTypeOK'
  BY <1>2, <1>5 DEF RowsTypeOK, RowStatus
<1>7. SplitOff(d)
  BY <1>2, <1>5 DEF SplitOff, RowsTypeOK
<1>8. ASSUME NEW c \in Entity, c # d PROVE Closed(c)
  BY <1>2, <1>5, <1>8, OthersClosed DEF RowsTypeOK
<1> QED
  BY <1>5, <1>6, <1>7, <1>8 DEF AbsenceStep

\* A step that changes no row but those of absences that need no approval.
LEMMA RowsKept ==
    ASSUME RowsTypeOK, StoreShape, UNCHANGED <<storeVars, autoApproved>>,
           absence' \in [Entity -> RowStatus], canonical' \in [Entity -> RowStatus],
           \A d \in Entity : \/ absence'[d] = absence[d] /\ canonical'[d] = canonical[d]
                             \/ /\ d \in autoApproved
                                /\ absence[d] = "deleted" => absence'[d] = "deleted"
                                /\ absence'[d] = "none" => absence[d] = "none"
    PROVE  RowsTypeOK' /\ StoreShape' /\ \A d \in Entity : AbsenceStep(d)
<1>1. StoreTypeOK' /\ StoreShape' /\ \A d \in Entity : Quiet(d)
  BY SameRowsClosing, ClosingKeeps DEF RowsTypeOK
<1>2. ASSUME NEW d \in Entity PROVE Closed(d) \/ AutoStep(d)
  <2>1. CASE absence'[d] = absence[d] /\ canonical'[d] = canonical[d]
    BY <1>1, <2>1 DEF Closed
  <2>2. CASE /\ d \in autoApproved
             /\ absence[d] = "deleted" => absence'[d] = "deleted"
             /\ absence'[d] = "none" => absence[d] = "none"
    BY <1>1, <2>2 DEF AutoStep
  <2> QED
    BY <2>1, <2>2
<1> QED
  BY <1>1, <1>2 DEF RowsTypeOK, AbsenceStep

\* The statements of an automatic approval.
LEMMA AutoApproval ==
    ASSUME RowsTypeOK, StoreShape, FreshInv, NEW x \in Session,
           \/ \E e \in Entity : SubmitAuto(x, e)
           \/ session[x].entity \in autoApproved /\ ContinueAuto(x)
    PROVE  RowsTypeOK' /\ StoreShape' /\ \A d \in Entity : AbsenceStep(d)
<1>1. ASSUME NEW e \in Entity, SubmitAuto(x, e)
      PROVE  RowsTypeOK' /\ StoreShape' /\ \A d \in Entity : AbsenceStep(d)
  <2>1. /\ e \in autoApproved /\ absence[e] = "none" /\ UNCHANGED <<storeVars, autoApproved>>
        /\ absence' = [absence EXCEPT ![e] = "pending"] /\ canonical' = [canonical EXCEPT ![e] = "approved"]
    BY <1>1 DEF SubmitAuto
  <2>2. absence' \in [Entity -> RowStatus] /\ canonical' \in [Entity -> RowStatus]
    BY <2>1 DEF RowsTypeOK, RowStatus
  <2>3. \A d \in Entity : \/ absence'[d] = absence[d] /\ canonical'[d] = canonical[d]
                          \/ /\ d \in autoApproved
                             /\ absence[d] = "deleted" => absence'[d] = "deleted"
                             /\ absence'[d] = "none" => absence[d] = "none"
    BY <2>1 DEF RowsTypeOK
  <2> QED
    BY <2>1, <2>2, <2>3, RowsKept
<1>2. ASSUME session[x].entity \in autoApproved, ContinueAuto(x)
      PROVE  RowsTypeOK' /\ StoreShape' /\ \A d \in Entity : AbsenceStep(d)
  <2>1. PICK e \in Entity : e = session[x].entity /\ e \in autoApproved
    BY <1>2 DEF RowsTypeOK
  <2>2. /\ UNCHANGED <<storeVars, autoApproved>>
        /\ absence' = absence \/ absence' = Set(absence, e, "approved")
        /\ canonical' = canonical \/ canonical' = Set(canonical, e, "approved")
    BY <1>2, <2>1 DEF ContinueAuto
  <2>3. absence' \in [Entity -> RowStatus] /\ canonical' \in [Entity -> RowStatus]
    BY <2>2, SetFacts DEF RowsTypeOK, RowStatus
  <2>4. \A d \in Entity : d # e => absence'[d] = absence[d] /\ canonical'[d] = canonical[d]
    BY <2>2, SetFacts DEF RowsTypeOK, RowStatus
  <2>5. absence'[e] = absence[e] \/ (Exists(absence[e]) /\ absence'[e] = "approved")
    BY <2>2, SetFacts DEF RowsTypeOK, RowStatus
  <2>6. /\ absence[e] = "deleted" => absence'[e] = "deleted"
        /\ absence'[e] = "none" => absence[e] = "none"
    BY <2>5 DEF Exists
  <2> QED
    BY <2>1, <2>2, <2>3, <2>4, <2>6, RowsKept
<1> QED
  BY <1>1, <1>2

-----------------------------------------------------------------------------
(***************************************************************************)
(* Every step of AbsenceRequests.                                          *)
(***************************************************************************)
\* What a call remembers next.
LEMMA Becomes ==
    ASSUME NEW Calls, session \in [Session -> Calls], AutoInv, autoApproved' = autoApproved,
           NEW x \in Session, NEW c \in Calls, Become(x, c),
           c.phase = "autoApproving" => c.entity \in autoApproved
    PROVE  session' \in [Session -> Calls] /\ AutoInv'
<1>1. \A y \in Session : session'[y] = IF y = x THEN c ELSE session[y]
  BY DEF Become
<1>2. session' \in [Session -> Calls]
  BY BecomeType
<1> QED
  BY <1>1, <1>2 DEF AutoInv

LEMMA SessionStep ==
    ASSUME NEW Calls, Kinds(Calls), Base(Calls), Next
    PROVE  session' \in [Session -> Calls] /\ AutoInv'
<1> USE DEF Base
<1>1. Idle \in Calls /\ Idle.phase = "idle"
  BY IdleIsCall, PhaseOfCall
<1>2. ASSUME UNCHANGED <<session, autoApproved>>
      PROVE  session' \in [Session -> Calls] /\ AutoInv'
  BY <1>2 DEF AutoInv
<1>3. ASSUME NEW x \in Session, autoApproved' = autoApproved, Become(x, Idle)
      PROVE  session' \in [Session -> Calls] /\ AutoInv'
  BY <1>1, <1>3, Becomes
<1>4. ASSUME NEW x \in Session, NEW c \in OpenedCall \cup CancelCall \cup OverrideCall,
             autoApproved' = autoApproved, Become(x, c)
      PROVE  session' \in [Session -> Calls] /\ AutoInv'
  <2>1. c \in Calls /\ c.phase # "autoApproving"
    BY PhaseOfCall DEF Kinds, Call
  <2> QED
    BY <1>4, <2>1, Becomes
<1>5. ASSUME NEW x \in Session, NEW c \in AutoCall, c.entity \in autoApproved,
             autoApproved' = autoApproved, Become(x, c)
      PROVE  session' \in [Session -> Calls] /\ AutoInv'
  <2>1. c \in Calls
    BY DEF Kinds, Call
  <2> QED
    BY <1>5, <2>1, Becomes
<1>6. CASE \E e \in Entity : Submit(e)
  BY <1>2, <1>6 DEF Submit
<1>7. CASE \E a \in Employee, e \in Entity, v \in Verdict : CommitPage(a, e, v)
  BY <1>2, <1>7 DEF CommitPage
<1>8. ASSUME NEW x \in Session, NEW e \in Entity, SubmitAuto(x, e)
      PROVE  session' \in [Session -> Calls] /\ AutoInv'
  <2> DEFINE c == [phase |-> "autoApproving", entity |-> e, todo |-> {"absence", "canonical"}]
  <2>1. c \in AutoCall /\ c.entity = e
    BY DEF AutoCall
  <2>2. Become(x, c) /\ e \in autoApproved /\ autoApproved' = autoApproved
    BY <1>8 DEF SubmitAuto
  <2> HIDE DEF c
  <2> QED
    BY <1>5, <2>1, <2>2
<1>9. ASSUME NEW x \in Session, NEW e \in Entity, StartCancel(x, e) \/ StartOverride(x, e)
      PROVE  session' \in [Session -> Calls] /\ AutoInv'
  <2>1. CASE StartCancel(x, e)
    <3> DEFINE c == [phase |-> "cancelling", entity |-> e, todo |-> {"absence", "requests", "canonical"}]
    <3>1. c \in CancelCall
      <4>1. "absence" \in {"absence", "requests", "canonical"}
        OBVIOUS
      <4>2. {"absence", "requests", "canonical"} \in (SUBSET {"absence", "requests", "canonical"}) \ {{}}
        BY <4>1
      <4> QED
        BY <4>2 DEF CancelCall
    <3>2. Become(x, c) /\ autoApproved' = autoApproved
      BY <2>1 DEF StartCancel
    <3> HIDE DEF c
    <3> QED
      BY <1>4, <3>1, <3>2
  <2>2. CASE StartOverride(x, e)
    <3> DEFINE c == [phase |-> "overriding", entity |-> e, seen |-> absence[e], asked |-> PendingFor(e)]
    <3>1. c \in OverrideCall
      BY <2>2 DEF OverrideCall, StartOverride, PendingFor
    <3>2. Become(x, c) /\ autoApproved' = autoApproved
      BY <2>2 DEF StartOverride
    <3> HIDE DEF c
    <3> QED
      BY <1>4, <3>1, <3>2
  <2> QED
    BY <1>9, <2>1, <2>2
<1>10. ASSUME NEW x \in Session, NEW e \in Entity, Split(x, e)
       PROVE  session' \in [Session -> Calls] /\ AutoInv'
  BY <1>3, <1>10 DEF Split
<1>11. ASSUME NEW x \in Session, NEW a \in Employee, NEW r \in Request, NEW v \in Verdict,
              OpenRequest(x, a, r, v)
       PROVE  session' \in [Session -> Calls] /\ AutoInv'
  <2> DEFINE c == [phase |-> "opened", actor |-> a, request |-> r, entity |-> request[r].entity,
                   verdict |-> v, own |-> request[r].approver = a]
  <2>1. request[r].entity \in Entity
    BY <1>11 DEF OpenRequest, Open, StoreShape, RowShape
  <2>2. c \in OpenedCall
    BY <2>1 DEF OpenedCall
  <2>3. Become(x, c) /\ autoApproved' = autoApproved
    BY <1>11 DEF OpenRequest, Open, Become
  <2> HIDE DEF c
  <2> QED
    BY <1>4, <2>2, <2>3
<1>12. ASSUME NEW x \in Session, ContinueAuto(x)
       PROVE  session' \in [Session -> Calls] /\ AutoInv'
  <2>1. session[x] \in AutoCall /\ session[x].entity \in autoApproved /\ autoApproved' = autoApproved
    BY <1>12 DEF ContinueAuto, Kinds, AutoInv
  <2>2. Become(x, Idle) \/ Become(x, [session[x] EXCEPT !.todo = {"canonical"}])
    BY <1>12 DEF ContinueAuto
  <2>3. /\ [session[x] EXCEPT !.todo = {"canonical"}] \in AutoCall
        /\ [session[x] EXCEPT !.todo = {"canonical"}].entity = session[x].entity
    BY <2>1 DEF AutoCall
  <2> QED
    BY <1>3, <1>5, <2>1, <2>2, <2>3
<1>13. ASSUME NEW x \in Session, ContinueCancel(x)
       PROVE  session' \in [Session -> Calls] /\ AutoInv'
  <2>1. session[x] \in CancelCall /\ autoApproved' = autoApproved
    BY <1>13 DEF ContinueCancel, Kinds
  <2>2. PICK t \in session[x].todo : Become(x, IF session[x].todo = {t} THEN Idle
                                               ELSE [session[x] EXCEPT !.todo = @ \ {t}])
    BY <1>13 DEF ContinueCancel
  <2>3. CASE session[x].todo = {t}
    BY <1>3, <2>1, <2>2, <2>3
  <2>4. CASE session[x].todo # {t}
    <3>1. session[x].todo \ {t} \in (SUBSET {"absence", "requests", "canonical"}) \ {{}}
      BY <2>1, <2>4, <2>2 DEF CancelCall
    <3>2. [session[x] EXCEPT !.todo = @ \ {t}] \in CancelCall
      BY <2>1, <3>1 DEF CancelCall
    <3> QED
      BY <1>4, <2>1, <2>2, <2>4, <3>2
  <2> QED
    BY <2>3, <2>4
<1>14. ASSUME NEW x \in Session, CommitInbox(x) \/ Cover(x) \/ Abandon(x)
       PROVE  session' \in [Session -> Calls] /\ AutoInv'
  BY <1>3, <1>14 DEF CommitInbox, Cover, Abandon
<1> QED
  BY <1>6, <1>7, <1>8, <1>9, <1>10, <1>11, <1>12, <1>13, <1>14 DEF Next

\* What a step of AbsenceRequests does to the rows.
LEMMA RowsStep ==
    ASSUME NEW Calls, Kinds(Calls), Base(Calls), Next
    PROVE  RowsTypeOK' /\ StoreShape' /\ \A d \in Entity : AbsenceStep(d)
<1> USE DEF Base
<1>1. CASE \E e \in Entity : Submit(e)
  BY <1>1, SubmitStep
<1>2. ASSUME NEW a \in Employee, NEW e \in Entity, NEW v \in Verdict, CommitPage(a, e, v)
      PROVE  RowsTypeOK' /\ StoreShape' /\ \A d \in Entity : AbsenceStep(d)
  BY <1>2, DecideStep DEF CommitPage
<1>3. ASSUME NEW x \in Session, CommitInbox(x)
      PROVE  RowsTypeOK' /\ StoreShape' /\ \A d \in Entity : AbsenceStep(d)
  <2>1. session[x] \in OpenedCall
    BY <1>3 DEF CommitInbox, Kinds
  <2>2. PICK e \in Entity, a \in Employee, v \in Verdict :
          e = session[x].entity /\ a = session[x].actor /\ v = session[x].verdict
    BY <2>1 DEF OpenedCall
  <2>3. PICK r \in PendingFor(e) : Decide(e, r, a, v) /\ autoApproved' = autoApproved
    BY <1>3, <2>2 DEF CommitInbox, LoadPending
  <2> QED
    BY <2>3, DecideStep
<1>4. ASSUME NEW x \in Session, ContinueCancel(x)
      PROVE  RowsTypeOK' /\ StoreShape' /\ \A d \in Entity : AbsenceStep(d)
  <2>1. session[x] \in CancelCall
    BY <1>4 DEF ContinueCancel, Kinds
  <2> QED
    BY <1>4, <2>1, CancelStep
<1>5. ASSUME NEW x \in Session, Cover(x)
      PROVE  RowsTypeOK' /\ StoreShape' /\ \A d \in Entity : AbsenceStep(d)
  <2>1. session[x] \in OverrideCall
    BY <1>5 DEF Cover, Kinds
  <2> QED
    BY <1>5, <2>1, CoverStep
<1>6. ASSUME NEW x \in Session, NEW e \in Entity, Split(x, e)
      PROVE  RowsTypeOK' /\ StoreShape' /\ \A d \in Entity : AbsenceStep(d)
  <2>1. session[x] \in OverrideCall
    BY <1>6 DEF Split, Kinds
  <2> QED
    BY <1>6, <2>1, SplitStep
<1>7. ASSUME NEW x \in Session, (\E e \in Entity : SubmitAuto(x, e)) \/ ContinueAuto(x)
      PROVE  RowsTypeOK' /\ StoreShape' /\ \A d \in Entity : AbsenceStep(d)
  <2>1. ContinueAuto(x) => session[x].entity \in autoApproved
    BY DEF ContinueAuto, AutoInv
  <2> QED
    BY <1>7, <2>1, AutoApproval
<1>8. ASSUME UNCHANGED <<storeVars, absenceVars, autoApproved>>
      PROVE  RowsTypeOK' /\ StoreShape' /\ \A d \in Entity : AbsenceStep(d)
  BY <1>8, RowsKept DEF RowsTypeOK, absenceVars
<1>9. ASSUME NEW x \in Session, NEW e \in Entity, StartCancel(x, e) \/ StartOverride(x, e)
      PROVE  RowsTypeOK' /\ StoreShape' /\ \A d \in Entity : AbsenceStep(d)
  BY <1>8, <1>9 DEF StartCancel, StartOverride
<1>10. ASSUME NEW x \in Session, NEW a \in Employee, NEW r \in Request, NEW v \in Verdict,
              OpenRequest(x, a, r, v)
       PROVE  RowsTypeOK' /\ StoreShape' /\ \A d \in Entity : AbsenceStep(d)
  BY <1>8, <1>10 DEF OpenRequest
<1>11. ASSUME NEW x \in Session, Abandon(x)
       PROVE  RowsTypeOK' /\ StoreShape' /\ \A d \in Entity : AbsenceStep(d)
  BY <1>8, <1>11 DEF Abandon
<1> QED
  BY <1>1, <1>2, <1>3, <1>4, <1>5, <1>6, <1>7, <1>9, <1>10, <1>11 DEF Next

\* The rows stay fresh.
LEMMA FreshStep ==
    ASSUME RowsTypeOK, StoreShape, FreshInv, autoApproved' = autoApproved,
           \A d \in Entity : AbsenceStep(d)
    PROVE  FreshInv'
<1> SUFFICES ASSUME NEW e \in Entity
             PROVE  /\ absence'[e] = "none" => Unasked(e)'
                    /\ e \in autoApproved => e \notin Segment /\ Unasked(e)'
  BY DEF FreshInv
<1>1. Quiet(e) /\ Unasked(e) => Unasked(e)'
  BY DEF Quiet, Unasked
<1>2. Unasked(e) => PendingFor(e) = {}
  BY DEF Unasked, PendingFor
<1>3. CASE Submitted(e)
  BY <1>3 DEF Submitted
<1>4. CASE SplitOff(e)
  BY <1>4 DEF SplitOff, FreshInv
<1>5. CASE Advanced(e)
  BY <1>2, <1>5 DEF Advanced, FreshInv
<1>6. CASE Finished(e)
  BY <1>2, <1>6 DEF Finished, FreshInv, Verdict
<1>7. CASE AutoStep(e)
  BY <1>1, <1>7 DEF AutoStep, FreshInv
<1>8. CASE Closed(e)
  BY <1>1, <1>8 DEF Closed, FreshInv
<1> QED
  BY <1>3, <1>4, <1>5, <1>6, <1>7, <1>8 DEF AbsenceStep

LEMMA CategoryKept == Next => autoApproved' = autoApproved
BY DEF Next, Submit, CommitPage, SubmitAuto, StartCancel, StartOverride, Split, OpenRequest,
       CommitInbox, ContinueAuto, ContinueCancel, Cover, Abandon

\* A step of AbsenceRequests preserves the invariant, whichever calls there are.
LEMMA BaseStep ==
    ASSUME NEW Calls, Kinds(Calls), Base(Calls), Next
    PROVE  Base(Calls)' /\ \A d \in Entity : AbsenceStep(d)
<1>1. RowsTypeOK' /\ StoreShape' /\ \A d \in Entity : AbsenceStep(d)
  BY RowsStep
<1>2. session' \in [Session -> Calls] /\ AutoInv'
  BY SessionStep
<1>3. FreshInv'
  BY <1>1, CategoryKept, FreshStep DEF Base
<1> QED
  BY <1>1, <1>2, <1>3 DEF Base

LEMMA BaseInit ==
    ASSUME NEW Calls, Kinds(Calls), Init
    PROVE  Base(Calls)
<1>1. StoreTypeOK /\ StoreShape
  BY InitShape DEF Init
<1>2. RowsTypeOK
  BY <1>1 DEF Init, RowsTypeOK, RowStatus
<1>3. Idle \in Calls /\ Idle.phase = "idle"
  BY IdleIsCall, PhaseOfCall
<1>4. session \in [Session -> Calls] /\ AutoInv
  BY <1>3 DEF Init, AutoInv
<1>5. FreshInv
  <2>1. \A e \in Entity : chain[e].status = "absent"
    BY DEF Init, StoreInit
  <2>2. \A r \in Request : request[r].entity = None
    BY DEF Init, StoreInit
  <2>3. \A e \in Entity : Unasked(e)
    BY <2>1, <2>2, NoneAssumption DEF Unasked
  <2> QED
    BY <2>3 DEF Init, FreshInv
<1> QED
  BY <1>1, <1>2, <1>4, <1>5 DEF Base

-----------------------------------------------------------------------------
(***************************************************************************)
(* The invariants of AbsenceRequests.                                      *)
(***************************************************************************)
\* Nobody is asked about an approved absence, and its policy, if it has one, is complete.
DoneInv ==
    \A e \in Entity : absence[e] = "approved" =>
        PendingFor(e) = {} /\ chain[e].status \in {"absent", "approved"}

IInv == Base(Call) /\ RecordAgrees /\ DoneInv

LEMMA UnaskedHasNoPending == \A e \in Entity : Unasked(e) => PendingFor(e) = {}
BY DEF Unasked, PendingFor

LEMMA RecordStep ==
    ASSUME RecordAgrees, autoApproved' = autoApproved, \A d \in Entity : AbsenceStep(d)
    PROVE  RecordAgrees'
<1> SUFFICES ASSUME NEW e \in Entity, e \notin autoApproved,
                    Exists(absence'[e]), Exists(canonical'[e])
             PROVE  canonical'[e] = absence'[e]
  BY DEF RecordAgrees, Exists
<1>1. Exists(absence[e]) /\ Exists(canonical[e]) => canonical[e] = absence[e]
  BY DEF RecordAgrees
<1>2. CASE Submitted(e) \/ SplitOff(e) \/ Advanced(e)
  BY <1>1, <1>2 DEF Submitted, SplitOff, Advanced
<1>3. CASE Finished(e)
  BY <1>3 DEF Finished, Exists
<1>4. CASE AutoStep(e)
  BY <1>4 DEF AutoStep
<1>5. CASE Closed(e)
  BY <1>1, <1>5 DEF Closed, Exists
<1> QED
  BY <1>2, <1>3, <1>4, <1>5 DEF AbsenceStep

LEMMA DoneStep ==
    ASSUME FreshInv, DoneInv, \A d \in Entity : AbsenceStep(d)
    PROVE  DoneInv'
<1> SUFFICES ASSUME NEW e \in Entity, absence'[e] = "approved"
             PROVE  PendingFor(e)' = {} /\ chain'[e].status \in {"absent", "approved"}
  BY DEF DoneInv
<1>1. absence[e] = "approved" => PendingFor(e) = {} /\ chain[e].status \in {"absent", "approved"}
  BY DEF DoneInv
<1>2. CASE Submitted(e)
  BY <1>2 DEF Submitted
<1>3. CASE SplitOff(e)
  BY <1>3 DEF SplitOff, FreshInv, Unasked
<1>4. CASE Advanced(e)
  BY <1>1, <1>4 DEF Advanced
<1>5. CASE Finished(e)
  BY <1>5 DEF Finished
<1>6. CASE AutoStep(e)
  <2>1. Unasked(e) /\ PendingFor(e) = {}
    BY <1>6, UnaskedHasNoPending DEF AutoStep, FreshInv
  <2> QED
    BY <1>6, <2>1 DEF AutoStep, Quiet, Unasked
<1>7. CASE Closed(e)
  <2>1. absence[e] = "approved" /\ Quiet(e)
    BY <1>7 DEF Closed
  <2> QED
    BY <1>1, <2>1 DEF Quiet
<1> QED
  BY <1>2, <1>3, <1>4, <1>5, <1>6, <1>7 DEF AbsenceStep

LEMMA InvStep == IInv /\ [Next]_vars => IInv'
<1> SUFFICES ASSUME IInv, [Next]_vars PROVE IInv'
  OBVIOUS
<1>1. CASE Next
  <2>1. Base(Call)' /\ \A d \in Entity : AbsenceStep(d)
    BY <1>1, BaseStep, CallKinds DEF IInv
  <2>2. RecordAgrees'
    BY <1>1, <2>1, CategoryKept, RecordStep DEF IInv
  <2>3. DoneInv'
    BY <2>1, DoneStep DEF IInv, Base
  <2> QED
    BY <2>1, <2>2, <2>3 DEF IInv
<1>2. CASE UNCHANGED vars
  BY <1>2 DEF vars, storeVars, absenceVars, IInv, Base, RowsTypeOK, StoreTypeOK, StoreShape, RowShape,
              EntityShape, ChainShape, LinkShape, AskShape, PendingFor, FreshInv, Unasked, AutoInv,
              RecordAgrees, DoneInv
<1> QED
  BY <1>1, <1>2

LEMMA InvAlways == Spec => []IInv
<1>1. Init => IInv
  <2> SUFFICES ASSUME Init PROVE IInv
    OBVIOUS
  <2>1. Base(Call)
    BY BaseInit, CallKinds
  <2>2. \A e \in Entity : absence[e] = "none" /\ canonical[e] = "none"
    BY DEF Init
  <2> QED
    BY <2>1, <2>2 DEF IInv, RecordAgrees, DoneInv
<1> QED
  BY <1>1, InvStep, PTL DEF Spec

\* The types of the rows, and of what a call remembers, in every state.
THEOREM AbsenceTypes == Spec => []TypeOK
<1>1. IInv => TypeOK
  BY DEF IInv, Base, RowsTypeOK, TypeOK, Call
<1> QED
  BY <1>1, InvAlways, PTL

\* An absence and its time record never disagree while both exist: the transactions write
\* both, the override writes both, and the cancellation only deletes.
THEOREM RecordsAgree == Spec => []RecordAgrees
<1>1. IInv => RecordAgrees
  BY DEF IInv
<1> QED
  BY <1>1, InvAlways, PTL

\* An approved absence has a complete policy and an empty inbox, whatever calls interleave.
THEOREM ApprovalsComplete == Spec => []ApprovedByAllStages
<1>1. IInv => ApprovedByAllStages
  <2> SUFFICES ASSUME IInv, NEW e \in Entity, absence[e] = "approved"
               PROVE  /\ PendingFor(e) = {}
                      /\ chain[e].status # "absent" =>
                           /\ chain[e].status = "approved"
                           /\ \A s \in 1..chain[e].last : stage[e][s].status = "approved"
    BY DEF ApprovedByAllStages
  <2>1. PendingFor(e) = {} /\ chain[e].status \in {"absent", "approved"}
    BY DEF IInv, DoneInv
  <2>2. chain[e].status = "approved" => \A s \in 1..chain[e].last : stage[e][s].status = "approved"
    BY ApprovedChainStages DEF IInv, Base
  <2> QED
    BY <2>1, <2>2
<1> QED
  BY <1>1, InvAlways, PTL

\* A step of the system, or one that changes nothing, seen from each absence.
LEMMA StepOfAbsence ==
    ASSUME IInv, [Next]_vars, NEW e \in Entity
    PROVE  AbsenceStep(e)
<1>1. CASE Next
  BY <1>1, BaseStep, CallKinds DEF IInv
<1>2. CASE UNCHANGED vars
  <2>1. Quiet(e)
    BY <1>2 DEF vars, storeVars, Quiet, PendingFor
  <2> QED
    BY <1>2, <2>1 DEF vars, absenceVars, AbsenceStep, Closed
<1> QED
  BY <1>1, <1>2

\* No call that is still under way revives a rejected absence.
THEOREM RejectionsFinal == Spec => RejectedIsFinal
<1>1. IInv /\ [Next]_vars =>
        [\A e \in Entity \ autoApproved :
           absence[e] = "rejected" /\ PendingFor(e) = {} =>
               absence'[e] \in {"rejected", "deleted"} /\ PendingFor(e)' = {}]_vars
  <2> SUFFICES ASSUME IInv, [Next]_vars, NEW e \in Entity, e \notin autoApproved,
                      absence[e] = "rejected", PendingFor(e) = {}
               PROVE  absence'[e] \in {"rejected", "deleted"} /\ PendingFor(e)' = {}
    OBVIOUS
  <2>1. AbsenceStep(e)
    BY StepOfAbsence
  <2>2. Closed(e)
    BY <2>1 DEF AbsenceStep, Submitted, SplitOff, Advanced, Finished, AutoStep
  <2> QED
    BY <2>2 DEF Closed, Quiet, Exists
<1> QED
  BY <1>1, InvAlways, PTL DEF Spec, RejectedIsFinal

\* No call that is still under way brings a cancelled absence back, or completes its policy.
THEOREM CancellationsFinal == Spec => CancelledStaysCancelled
<1>1. IInv /\ [Next]_vars =>
        [\A e \in Entity : absence[e] = "deleted" =>
             /\ absence'[e] = "deleted"
             /\ chain'[e].status = chain[e].status]_vars
  <2> SUFFICES ASSUME IInv, [Next]_vars, NEW e \in Entity, absence[e] = "deleted"
               PROVE  absence'[e] = "deleted" /\ chain'[e].status = chain[e].status
    OBVIOUS
  <2>1. AbsenceStep(e)
    BY StepOfAbsence
  <2>2. Advanced(e) \/ AutoStep(e) \/ Closed(e)
    BY <2>1 DEF AbsenceStep, Submitted, SplitOff, Finished, Exists
  <2> QED
    BY <2>2 DEF Advanced, AutoStep, Closed, Quiet, Exists
<1> QED
  BY <1>1, InvAlways, PTL DEF Spec, CancelledStaysCancelled

-----------------------------------------------------------------------------
(***************************************************************************)
(* Who is still asked about a vacation that was overridden.  The override  *)
(* closes the request it read; what it may miss is a request that a stage  *)
(* inserted in the meantime, and that one belongs to a later stage.  Under *)
(* a policy of one stage, or none, the design's promise is kept.           *)
(***************************************************************************)
\* Whoever is asked about a rejected absence is the approver of a stage that is not the
\* first one of its policy.
RejectedAsksLaterStages ==
    \A e \in Entity : absence[e] = "rejected" /\ PendingFor(e) # {} => LaterStage(e)

\* A call that overrides e has read every request of it but those of a later stage.
OverrideKnows(x) ==
    LET call == session[x] IN
    call.phase = "overriding" =>
        /\ absence[call.entity] # "none"
        /\ PendingFor(call.entity) \subseteq call.asked \/ LaterStage(call.entity)
        /\ call.seen = "approved" => call.asked = {}

OverrideInv == RejectedAsksLaterStages /\ \A x \in Session : OverrideKnows(x)

\* Nobody is asked about a submitted absence anew but the approver of a later stage.
LEMMA AskedStep ==
    ASSUME NEW e \in Entity, AbsenceStep(e), absence[e] # "none",
           NEW asked, PendingFor(e) \subseteq asked \/ LaterStage(e)
    PROVE  PendingFor(e)' \subseteq asked \/ LaterStage(e)'
<1>1. CASE Advanced(e) \/ Finished(e)
  BY <1>1 DEF Advanced, Finished
<1>2. CASE AutoStep(e) \/ Closed(e)
  <2>1. chain'[e] = chain[e] /\ PendingFor(e)' \subseteq PendingFor(e)
    BY <1>2 DEF AutoStep, Closed, Quiet
  <2> QED
    BY <2>1 DEF LaterStage
<1> QED
  BY <1>1, <1>2 DEF AbsenceStep, Submitted, SplitOff

\* A step rejects an absence only by deciding its request or by covering it.
LEMMA RejectedStep ==
    ASSUME IInv, OverrideInv, NEW e \in Entity, AbsenceStep(e),
           absence'[e] = "rejected", PendingFor(e)' # {}
    PROVE  LaterStage(e)'
<1>1. CASE Advanced(e)
  BY <1>1 DEF Advanced
<1>2. CASE Closed(e)
  <2>1. chain'[e] = chain[e] /\ PendingFor(e)' \subseteq PendingFor(e)
    BY <1>2 DEF Closed, Quiet
  <2>2. LaterStage(e)
    <3>1. CASE absence[e] = "rejected"
      BY <2>1, <3>1 DEF OverrideInv, RejectedAsksLaterStages
    <3>2. CASE absence[e] # "rejected"
      <4>1. PICK x \in Session : Covers(x, e)
        BY <1>2, <3>2 DEF Closed
      <4>2. session[x] \in OverrideCall /\ OverrideKnows(x)
        BY <4>1, CallKinds DEF Covers, IInv, Base, Kinds, OverrideInv
      <4>3. session[x].seen = "pending" \/ session[x].asked = {}
        BY <4>1, <4>2 DEF Covers, OverrideKnows, OverrideCall
      <4> QED
        BY <2>1, <4>1, <4>2, <4>3 DEF Covers, OverrideKnows
    <3> QED
      BY <3>1, <3>2
  <2> QED
    BY <2>1, <2>2 DEF LaterStage
<1>3. CASE AutoStep(e)
  <2>1. PendingFor(e) = {}
    BY <1>3, UnaskedHasNoPending DEF AutoStep, IInv, Base, FreshInv
  <2> QED
    BY <1>3, <2>1 DEF AutoStep, Quiet
<1> QED
  BY <1>1, <1>2, <1>3 DEF AbsenceStep, Submitted, SplitOff, Finished

\* A call overrides a vacation after this step if it did before, or if it has just read it.
LEMMA OverrideBegins ==
    ASSUME IInv, Next, NEW x \in Session, session'[x].phase = "overriding"
    PROVE  session'[x] = session[x] \/ \E e \in Entity : StartOverride(x, e)
<1>1. session \in [Session -> Call]
  BY DEF IInv, Base
<1>2. ASSUME NEW y \in Session, NEW c, Become(y, c), c.phase # "overriding"
      PROVE  session'[x] = session[x]
  BY <1>1, <1>2 DEF Become
<1>3. Idle.phase # "overriding"
  BY PhaseOfCall
<1>4. CASE UNCHANGED session
  BY <1>4
<1>5. CASE \E y \in Session : Become(y, Idle)
  BY <1>2, <1>3, <1>5
<1>6. ASSUME NEW y \in Session, NEW e \in Entity, SubmitAuto(y, e) \/ StartCancel(y, e)
      PROVE  session'[x] = session[x]
  BY <1>1, <1>6 DEF SubmitAuto, StartCancel, Become
<1>7. ASSUME NEW y \in Session, NEW e \in Entity, StartOverride(y, e)
      PROVE  session'[x] = session[x] \/ StartOverride(x, e)
  BY <1>1, <1>7 DEF StartOverride, Become
<1>8. ASSUME NEW y \in Session, NEW a \in Employee, NEW r \in Request, NEW v \in Verdict,
             OpenRequest(y, a, r, v)
      PROVE  session'[x] = session[x]
  BY <1>1, <1>8 DEF OpenRequest, Open
<1>9. ASSUME NEW y \in Session, ContinueAuto(y) \/ ContinueCancel(y)
      PROVE  session'[x] = session[x]
  <2>1. session[y].phase # "overriding"
    BY <1>9 DEF ContinueAuto, ContinueCancel
  <2>2. PICK z : Become(y, Idle) \/ Become(y, [session[y] EXCEPT !.todo = z])
    BY <1>9 DEF ContinueAuto, ContinueCancel
  <2>3. session[y] \in AutoCall \cup CancelCall
    BY <1>1, <1>9, CallKinds DEF ContinueAuto, ContinueCancel, Kinds
  <2>4. [session[y] EXCEPT !.todo = z].phase # "overriding"
    BY <2>1, <2>3 DEF AutoCall, CancelCall
  <2> QED
    BY <1>2, <1>3, <2>2, <2>4
<1>10. CASE \/ \E e \in Entity : Submit(e)
            \/ \E a \in Employee, e \in Entity, v \in Verdict : CommitPage(a, e, v)
  BY <1>4, <1>10 DEF Submit, CommitPage
<1>11. ASSUME NEW y \in Session,
              CommitInbox(y) \/ Cover(y) \/ Abandon(y) \/ \E d \in Entity : Split(y, d)
       PROVE  session'[x] = session[x]
  BY <1>2, <1>3, <1>11 DEF CommitInbox, Cover, Abandon, Split
<1> QED
  BY <1>6, <1>7, <1>8, <1>9, <1>10, <1>11 DEF Next

LEMMA OverrideStep == IInv /\ OverrideInv /\ [Next]_vars => OverrideInv'
<1> SUFFICES ASSUME IInv, OverrideInv, [Next]_vars PROVE OverrideInv'
  OBVIOUS
<1>1. RejectedAsksLaterStages'
  BY StepOfAbsence, RejectedStep DEF RejectedAsksLaterStages
<1>2. ASSUME NEW x \in Session, session'[x].phase = "overriding" PROVE OverrideKnows(x)'
  <2>1. ASSUME session'[x] = session[x] PROVE OverrideKnows(x)'
    <3>1. session[x] \in OverrideCall /\ OverrideKnows(x)
      BY <1>2, <2>1, CallKinds DEF IInv, Base, Kinds, OverrideInv
    <3>2. PICK e \in Entity : e = session[x].entity
      BY <3>1 DEF OverrideCall
    <3>3. AbsenceStep(e)
      BY StepOfAbsence
    <3>4. absence[e] # "none" /\ (PendingFor(e) \subseteq session[x].asked \/ LaterStage(e))
      BY <1>2, <2>1, <3>1, <3>2 DEF OverrideKnows
    <3>5. PendingFor(e)' \subseteq session[x].asked \/ LaterStage(e)'
      BY <3>3, <3>4, AskedStep
    <3>6. absence'[e] # "none"
      BY <3>3, <3>4 DEF AbsenceStep, Submitted, SplitOff, Advanced, Finished, Closed, Verdict, AutoStep
    <3> QED
      BY <1>2, <2>1, <3>1, <3>2, <3>5, <3>6 DEF OverrideKnows
  <2>2. ASSUME NEW e \in Entity, StartOverride(x, e) PROVE OverrideKnows(x)'
    <3>1. session'[x] = [phase |-> "overriding", entity |-> e, seen |-> absence[e], asked |-> PendingFor(e)]
      BY <2>2 DEF StartOverride, Become, IInv, Base
    <3>2. absence'[e] \in {"pending", "approved"} /\ PendingFor(e)' = PendingFor(e)
      BY <2>2 DEF StartOverride, storeVars, absenceVars, PendingFor
    <3>3. absence[e] = "approved" => PendingFor(e) = {}
      BY DEF IInv, DoneInv
    <3> QED
      BY <3>1, <3>2, <3>3 DEF OverrideKnows
  <2>3. CASE Next
    BY <1>2, <2>1, <2>2, <2>3, OverrideBegins
  <2>4. CASE UNCHANGED vars
    BY <2>1, <2>4 DEF vars
  <2> QED
    BY <2>3, <2>4
<1> QED
  BY <1>1, <1>2 DEF OverrideInv, OverrideKnows

\* An overridden vacation asks nobody, except under a policy of several stages: there it
\* may have missed the request that an approval inserted after the override had read the
\* vacation (adjustVacationAbsencesForSickness).
THEOREM OverriddenAsksLaterStagesOnly == Spec => []RejectedAsksLaterStages
<1>1. Init => OverrideInv
  <2>1. ASSUME Init PROVE OverrideInv
    BY <2>1 DEF Init, OverrideInv, RejectedAsksLaterStages, OverrideKnows, Idle
  <2> QED
    BY <2>1
<1>2. OverrideInv => RejectedAsksLaterStages
  BY DEF OverrideInv
<1> QED
  BY <1>1, <1>2, InvAlways, OverrideStep, PTL DEF Spec

-----------------------------------------------------------------------------
(***************************************************************************)
(* The bots.  They change the status of rows that exist and nothing else   *)
(* of the tables, so the shape of the store survives them; RecordAgrees    *)
(* and DoneInv do not, and the bots' runs do not claim them.               *)
(***************************************************************************)
AllCalls == Call \cup BotCall

ChatInv ==
    /\ Base(AllCalls)
    /\ escalated \in [Platform -> SUBSET Request]
    /\ card \in [Employee -> SUBSET Request]

BotStep(x) ==
    \/ \E p \in Platform, r \in Request, b \in Employee : StartEscalation(x, p, r, b)
    \/ \E a \in Employee, r \in Request, v \in Verdict : Click(x, a, r, v)
    \/ RecordEscalation(x) \/ Reassign(x) \/ SendCard(x) \/ DecideByCard(x) \/ SetAbsence(x)

LEMMA AllKinds == Kinds(AllCalls) /\ BotKinds(AllCalls)
BY CallKinds DEF AllCalls

\* What a bot's statement leaves of the tables.
BotKeeps ==
    /\ Closing /\ UNCHANGED <<canonical, autoApproved>>
    /\ absence' \in [Entity -> RowStatus]
    /\ \A e \in Entity : absence'[e] = absence[e] \/ (Exists(absence[e]) /\ absence'[e] \in Verdict)
    /\ \A r \in Request : request[r].status \in Verdict => request'[r].status \in Verdict

LEMMA BotRows ==
    ASSUME Base(AllCalls), NEW x \in Session, BotStep(x)
    PROVE  BotKeeps
<1>1. RowsTypeOK /\ StoreTypeOK /\ session[x] \in AllCalls
  BY DEF Base, RowsTypeOK
<1>2. ASSUME UNCHANGED <<storeVars, absenceVars, autoApproved>> PROVE BotKeeps
  BY <1>1, <1>2, SameRowsClosing DEF BotKeeps, RowsTypeOK, storeVars, absenceVars
<1>3. ASSUME UNCHANGED <<chain, stage, absenceVars, autoApproved>>,
             NEW k \in Request, InUse(k), NEW row \in RequestRow,
             request' = [request EXCEPT ![k] = row],
             row.entity = request[k].entity, row.status \in {request[k].status} \cup Verdict
      PROVE  BotKeeps
  <2>1. row.status # "absent" /\ request[k].status # "absent"
    BY <1>3 DEF InUse, Verdict
  <2>2. row.status = "pending" => request[k].status = "pending"
    BY <1>3 DEF Verdict
  <2>3. request[k].status \in Verdict => row.status \in Verdict
    BY <1>3
  <2>4. \A r \in Request : request'[r] = IF r = k THEN row ELSE request[r]
    BY <1>1, <1>3 DEF StoreTypeOK
  <2>5. request' \in [Request -> RequestRow]
    BY <1>1, <1>3 DEF StoreTypeOK
  <2>6. Closing
    BY <1>3, <2>1, <2>2, <2>4, <2>5 DEF Closing
  <2> QED
    BY <1>1, <1>3, <2>3, <2>4, <2>6 DEF BotKeeps, RowsTypeOK, absenceVars
<1>4. CASE \E p \in Platform, r \in Request, b \in Employee : StartEscalation(x, p, r, b)
  BY <1>2, <1>4 DEF StartEscalation
<1>5. CASE \E a \in Employee, r \in Request, v \in Verdict : Click(x, a, r, v)
  BY <1>2, <1>5 DEF Click
<1>6. CASE RecordEscalation(x) \/ SendCard(x)
  BY <1>2, <1>6 DEF RecordEscalation, SendCard
<1>7. CASE Reassign(x)
  <2>1. session[x] \in EscalateCall /\ UNCHANGED <<chain, stage, absenceVars, autoApproved>>
    BY <1>1, <1>7, AllKinds DEF Reassign, BotKinds
  <2>2. PICK k \in Request, b \in Employee : k = session[x].request /\ b = session[x].backup
    BY <2>1 DEF EscalateCall
  <2>3. CASE ~InUse(k)
    BY <1>2, <1>7, <2>1, <2>2, <2>3 DEF Reassign, storeVars
  <2>4. CASE InUse(k)
    <3>1. request' = [request EXCEPT ![k] = [@ EXCEPT !.approver = b]]
      BY <1>7, <2>2, <2>4 DEF Reassign
    <3>2. /\ [request[k] EXCEPT !.approver = b] \in RequestRow
          /\ [request[k] EXCEPT !.approver = b].entity = request[k].entity
          /\ [request[k] EXCEPT !.approver = b].status = request[k].status
      BY <1>1 DEF StoreTypeOK, RequestRow
    <3> QED
      BY <1>3, <2>1, <2>4, <3>1, <3>2
  <2> QED
    BY <2>3, <2>4
<1>8. CASE DecideByCard(x)
  <2>1. session[x] \in ClickCall /\ UNCHANGED <<chain, stage, absenceVars, autoApproved>>
    BY <1>1, <1>8, AllKinds DEF DecideByCard, BotKinds
  <2>2. PICK k \in Request, v \in Verdict : k = session[x].request /\ v = session[x].verdict
    BY <2>1 DEF ClickCall
  <2>3. CASE ~InUse(k)
    BY <1>2, <1>8, <2>1, <2>2, <2>3 DEF DecideByCard, storeVars
  <2>4. CASE InUse(k)
    <3>1. request' = [request EXCEPT ![k] = [@ EXCEPT !.status = v]]
      BY <1>8, <2>2, <2>4 DEF DecideByCard
    <3>2. /\ [request[k] EXCEPT !.status = v] \in RequestRow
          /\ [request[k] EXCEPT !.status = v].entity = request[k].entity
          /\ [request[k] EXCEPT !.status = v].status = v
      BY <1>1 DEF StoreTypeOK, RequestRow, Verdict
    <3> QED
      BY <1>3, <2>1, <2>4, <3>1, <3>2
  <2> QED
    BY <2>3, <2>4
<1>9. CASE SetAbsence(x)
  <2>1. session[x] \in ClickCall /\ UNCHANGED <<storeVars, canonical, autoApproved>>
    BY <1>1, <1>9, AllKinds DEF SetAbsence, BotKinds
  <2>2. PICK e \in Entity, v \in Verdict : e = session[x].entity /\ v = session[x].verdict
    BY <2>1 DEF ClickCall
  <2>3. absence' = Set(absence, e, v) /\ v \in RowStatus
    BY <1>9, <2>2 DEF SetAbsence, Verdict, RowStatus
  <2>4. /\ absence' \in [Entity -> RowStatus]
        /\ \A d \in Entity : absence'[d] = IF d = e /\ Exists(absence[d]) THEN v ELSE absence[d]
    BY <1>1, <2>3, SetFacts DEF RowsTypeOK
  <2> QED
    BY <1>1, <2>1, <2>4, SameRowsClosing DEF BotKeeps, storeVars
<1> QED
  BY <1>4, <1>5, <1>6, <1>7, <1>8, <1>9 DEF BotStep

\* What a bot's call remembers.
LEMMA BotSession ==
    ASSUME Base(AllCalls), NEW x \in Session, BotStep(x)
    PROVE  session' \in [Session -> AllCalls] /\ AutoInv'
<1>1. /\ session \in [Session -> AllCalls] /\ AutoInv /\ session[x] \in AllCalls
      /\ autoApproved' = autoApproved
  BY BotRows DEF Base, BotKeeps
<1>2. ASSUME NEW c \in BotCall \cup {Idle}, Become(x, c)
      PROVE  session' \in [Session -> AllCalls] /\ AutoInv'
  <2>1. c \in AllCalls /\ c.phase # "autoApproving"
    BY PhaseOfCall DEF AllCalls, BotCall, Call
  <2> QED
    BY <1>1, <1>2, <2>1, Becomes
<1>3. ASSUME NEW p \in Platform, NEW r \in Request, NEW b \in Employee, StartEscalation(x, p, r, b)
      PROVE  session' \in [Session -> AllCalls] /\ AutoInv'
  <2> DEFINE c == [phase |-> "escalating", platform |-> p, request |-> r, backup |-> b, next |-> "record"]
  <2>1. c \in EscalateCall
    BY DEF EscalateCall
  <2>2. Become(x, c)
    BY <1>3 DEF StartEscalation
  <2> HIDE DEF c
  <2> QED
    BY <1>2, <2>1, <2>2 DEF BotCall
<1>4. ASSUME NEW a \in Employee, NEW r \in Request, NEW v \in Verdict, Click(x, a, r, v)
      PROVE  session' \in [Session -> AllCalls] /\ AutoInv'
  <2> DEFINE c == [phase |-> "clicked", request |-> r, entity |-> request[r].entity,
                   verdict |-> v, next |-> "request"]
  <2>1. request[r].entity \in Entity
    BY <1>4 DEF Click, Base, StoreShape, RowShape
  <2>2. c \in ClickCall
    BY <2>1 DEF ClickCall
  <2>3. Become(x, c)
    BY <1>4 DEF Click
  <2> HIDE DEF c
  <2> QED
    BY <1>2, <2>2, <2>3 DEF BotCall
<1>5. ASSUME RecordEscalation(x) \/ Reassign(x)
      PROVE  session' \in [Session -> AllCalls] /\ AutoInv'
  <2>1. session[x] \in EscalateCall
    BY <1>1, <1>5, AllKinds DEF RecordEscalation, Reassign, BotKinds
  <2>2. PICK n \in {"reassign", "card"} : Become(x, [session[x] EXCEPT !.next = n])
    BY <1>5 DEF RecordEscalation, Reassign, NextStatement
  <2>3. [session[x] EXCEPT !.next = n] \in EscalateCall
    BY <2>1 DEF EscalateCall
  <2> QED
    BY <1>2, <2>2, <2>3 DEF BotCall
<1>6. CASE DecideByCard(x)
  <2>1. session[x] \in ClickCall
    BY <1>1, <1>6, AllKinds DEF DecideByCard, BotKinds
  <2>2. Become(x, [session[x] EXCEPT !.next = "absence"])
    BY <1>6 DEF DecideByCard, NextStatement
  <2>3. [session[x] EXCEPT !.next = "absence"] \in ClickCall
    BY <2>1 DEF ClickCall
  <2> QED
    BY <1>2, <2>2, <2>3 DEF BotCall
<1>7. CASE SendCard(x) \/ SetAbsence(x)
  BY <1>2, <1>7 DEF SendCard, SetAbsence
<1> QED
  BY <1>3, <1>4, <1>5, <1>6, <1>7 DEF BotStep

\* What the platforms and the employees have been sent.
LEMMA SentTypes ==
    ASSUME ChatInv, NEW x \in Session, BotStep(x)
    PROVE  escalated' \in [Platform -> SUBSET Request] /\ card' \in [Employee -> SUBSET Request]
<1>1. session[x] \in AllCalls
  BY DEF ChatInv, Base
<1>2. CASE RecordEscalation(x)
  <2>1. PICK p \in Platform, r \in Request : p = session[x].platform /\ r = session[x].request
    BY <1>1, <1>2, AllKinds DEF RecordEscalation, BotKinds, EscalateCall
  <2> QED
    BY <1>2, <2>1 DEF RecordEscalation, ChatInv
<1>3. CASE SendCard(x)
  <2>1. PICK b \in Employee, r \in Request : b = session[x].backup /\ r = session[x].request
    BY <1>1, <1>3, AllKinds DEF SendCard, BotKinds, EscalateCall
  <2> QED
    BY <1>3, <2>1 DEF SendCard, ChatInv
<1>4. CASE UNCHANGED chatVars
  BY <1>4 DEF chatVars, ChatInv
<1> QED
  BY <1>2, <1>3, <1>4 DEF BotStep, StartEscalation, Click, Reassign, DecideByCard, SetAbsence

LEMMA ChatSplit == ChatNext => (Next /\ UNCHANGED chatVars) \/ \E x \in Session : BotStep(x)
BY DEF ChatNext, BotStep

LEMMA ChatInvStep == ChatInv /\ [ChatNext]_allVars => ChatInv'
<1> SUFFICES ASSUME ChatInv, [ChatNext]_allVars PROVE ChatInv'
  OBVIOUS
<1>1. CASE Next /\ UNCHANGED chatVars
  BY <1>1, BaseStep, AllKinds DEF ChatInv, chatVars
<1>2. ASSUME NEW x \in Session, BotStep(x) PROVE ChatInv'
  <2>1. BotKeeps /\ Base(AllCalls)
    BY <1>2, BotRows DEF ChatInv
  <2>2. StoreTypeOK' /\ StoreShape' /\ \A e \in Entity : Quiet(e)
    BY <2>1, ClosingKeeps DEF BotKeeps, Base, RowsTypeOK
  <2>3. RowsTypeOK'
    BY <2>1, <2>2 DEF BotKeeps, Base, RowsTypeOK
  <2>4. FreshInv'
    <3> SUFFICES ASSUME NEW e \in Entity
                 PROVE  /\ absence'[e] = "none" => Unasked(e)'
                        /\ e \in autoApproved => e \notin Segment /\ Unasked(e)'
      BY <2>1 DEF FreshInv, BotKeeps
    <3>1. Unasked(e) => Unasked(e)'
      BY <2>2 DEF Quiet, Unasked
    <3>2. absence'[e] = "none" => absence[e] = "none"
      BY <2>1 DEF BotKeeps, Verdict
    <3> QED
      BY <2>1, <3>1, <3>2 DEF Base, FreshInv
  <2>5. session' \in [Session -> AllCalls] /\ AutoInv'
    BY <1>2, <2>1, BotSession
  <2>6. Base(AllCalls)'
    BY <2>2, <2>3, <2>4, <2>5 DEF Base
  <2> QED
    BY <1>2, <2>6, SentTypes DEF ChatInv
<1>3. CASE UNCHANGED allVars
  BY <1>3 DEF allVars, vars, storeVars, absenceVars, chatVars, ChatInv, Base, RowsTypeOK, StoreTypeOK,
              StoreShape, RowShape, EntityShape, ChainShape, LinkShape, AskShape, PendingFor, FreshInv,
              Unasked, AutoInv
<1> QED
  BY <1>1, <1>2, <1>3, ChatSplit

LEMMA ChatInvAlways == ChatSpec => []ChatInv
<1>1. ChatInit => ChatInv
  BY BaseInit, AllKinds DEF ChatInit, ChatInv
<1> QED
  BY <1>1, ChatInvStep, PTL DEF ChatSpec

\* The types of the rows, the calls and the cards, in every state.
THEOREM ChatTypes == ChatSpec => []ChatTypeOK
<1>1. ChatInv => ChatTypeOK
  BY DEF ChatInv, Base, RowsTypeOK, ChatTypeOK, AllCalls, Call, BotCall
<1> QED
  BY <1>1, ChatInvAlways, PTL

\* No click and no escalation completes a policy: only the approval of its last stage does.
THEOREM ChainsApprovedByStages == ChatSpec => []ChainApprovedByItsStages
<1>1. ChatInv => ChainApprovedByItsStages
  BY ApprovedChainStages DEF ChatInv, Base, ChainApprovedByItsStages
<1> QED
  BY <1>1, ChatInvAlways, PTL

\* A stage that waits for a request which is decided already belongs to an absence that
\* nobody is asked about.
LEMMA BypassedStage ==
    ASSUME Base(AllCalls), NEW e \in Entity, NEW s \in Step,
           stage[e][s].status = "pending", stage[e][s].request # None,
           request[stage[e][s].request].status \in Verdict
    PROVE  PendingFor(e) = {} /\ ~Unasked(e)
<1>1. ChainShape(e) /\ AskShape(e) /\ Step \subseteq Nat
  BY StepFacts DEF Base, StoreShape, EntityShape
<1>2. chain[e].status # "absent" /\ s = chain[e].step
  <2>1. chain[e].status # "absent"
    BY <1>1 DEF ChainShape
  <2>2. chain[e].step \in Step /\ ~(s < chain[e].step) /\ ~(s > chain[e].step)
    BY <1>1, <2>1 DEF ChainShape
  <2>3. s \in Nat /\ chain[e].step \in Nat
    BY <1>1, <2>2
  <2> QED
    BY <2>1, <2>2, <2>3
<1>3. ASSUME NEW r \in PendingFor(e) PROVE FALSE
  <2>1. stage[e][s].request = r
    BY <1>1, <1>2 DEF AskShape
  <2> QED
    BY <2>1 DEF PendingFor, Verdict
<1> QED
  BY <1>2, <1>3 DEF Unasked

\* A stage that a click or an override bypassed stays pending for good, and so does its chain.
THEOREM BypassedChainsFrozen == ChatSpec => BypassedChainIsFrozen
<1>1. ChatInv /\ [ChatNext]_allVars =>
        [\A e \in Entity, s \in Step :
           (/\ stage[e][s].status = "pending" /\ stage[e][s].request # None
            /\ request[stage[e][s].request].status \in Verdict)
               => stage'[e] = stage[e] /\ chain'[e] = chain[e]]_allVars
  <2> SUFFICES ASSUME ChatInv, [ChatNext]_allVars, NEW e \in Entity, NEW s \in Step,
                      stage[e][s].status = "pending", stage[e][s].request # None,
                      request[stage[e][s].request].status \in Verdict
               PROVE  stage'[e] = stage[e] /\ chain'[e] = chain[e]
    OBVIOUS
  <2>1. PendingFor(e) = {} /\ ~Unasked(e)
    BY BypassedStage DEF ChatInv
  <2>2. CASE Next
    <3>1. AbsenceStep(e)
      BY <2>2, BaseStep, AllKinds DEF ChatInv
    <3>2. Submitted(e) => Unasked(e)
      BY DEF Submitted, ChatInv, Base, FreshInv
    <3> QED
      BY <2>1, <3>1, <3>2 DEF AbsenceStep, SplitOff, Advanced, Finished, AutoStep, Closed, Quiet
  <2>3. ASSUME NEW x \in Session, BotStep(x) PROVE stage'[e] = stage[e] /\ chain'[e] = chain[e]
    BY <2>3, BotRows DEF ChatInv, BotKeeps, Closing
  <2>4. CASE UNCHANGED allVars
    BY <2>4 DEF allVars, vars, storeVars
  <2> QED
    BY <2>2, <2>3, <2>4, ChatSplit
<1> QED
  BY <1>1, ChatInvAlways, PTL DEF ChatSpec, BypassedChainIsFrozen

\* The statements of AbsenceRequests never reopen a request.
LEMMA DecidedKept ==
    ASSUME NEW Calls, Kinds(Calls), Base(Calls), Next,
           NEW k \in Request, request[k].status \in Verdict
    PROVE  request'[k].status \in Verdict \cup {"deleted"}
<1> DEFINE Kept == request'[k].status \in Verdict \cup {"deleted"}
<1>1. request \in [Request -> RequestRow] /\ request[k].status \notin {"absent", "pending"}
  BY DEF Base, RowsTypeOK, StoreTypeOK, Verdict
<1>2. ASSUME UNCHANGED request PROVE Kept
  BY <1>2
<1>3. ASSUME NEW r \in Request, NEW row, request[r].status = "absent",
             request' = [request EXCEPT ![r] = row]
      PROVE  Kept
  BY <1>1, <1>3
<1>4. ASSUME NEW e \in Entity, Submit(e) PROVE Kept
  BY <1>3, <1>4 DEF Submit, CreateDefault, CreateChain, Insertable
<1>5. ASSUME NEW e, NEW r \in Request, NEW a, NEW v, Decide(e, r, a, v) PROVE Kept
  <2>1. ASSUME NEW q \in Request, AdvanceChain(r, q, a) PROVE Kept
    <3>1. request[r].status = "pending" /\ request[q].status = "absent"
      BY <2>1 DEF AdvanceChain
    <3>2. PICK b : request' = [request EXCEPT ![r] = DecidedRow(r, "approved"), ![q] = b]
      BY <2>1 DEF AdvanceChain
    <3> QED
      BY <1>1, <3>1, <3>2
  <2>2. ASSUME FinishApproval(r, a) \/ FinishRejection(r, a) PROVE Kept
    BY <1>1, <2>2 DEF FinishApproval, FinishRejection
  <2> QED
    BY <1>5, <2>1, <2>2 DEF Decide
<1>6. ASSUME NEW x \in Session, CommitInbox(x) PROVE Kept
  BY <1>5, <1>6 DEF CommitInbox, LoadPending, PendingFor
<1>7. ASSUME NEW a \in Employee, NEW e \in Entity, NEW v \in Verdict, CommitPage(a, e, v) PROVE Kept
  BY <1>5, <1>7 DEF CommitPage, PendingFor
<1>8. ASSUME NEW x \in Session, ContinueCancel(x) PROVE Kept
  <2>1. UNCHANGED request \/ \E e : DeleteRequests(e)
    BY <1>8 DEF ContinueCancel
  <2> QED
    BY <1>2, <2>1 DEF DeleteRequests, DecidedRow
<1>9. ASSUME NEW x \in Session, Cover(x) PROVE Kept
  <2>1. UNCHANGED request \/ \E e, rows : CloseRequests(e, rows)
    BY <1>9 DEF Cover
  <2> QED
    BY <1>1, <1>2, <2>1 DEF CloseRequests, PendingFor
<1>10. ASSUME NEW x \in Session, NEW d \in Entity, Split(x, d) PROVE Kept
  <2>1. UNCHANGED storeVars \/ UNCHANGED request \/ \E j, q \in Request : CopyRequest(j, q, d)
    BY <1>10 DEF Split, Surviving, RequestsOf
  <2> QED
    BY <1>2, <1>3, <2>1 DEF CopyRequest, storeVars
<1>11. ASSUME UNCHANGED storeVars PROVE Kept
  BY <1>2, <1>11 DEF storeVars
<1>12. ASSUME NEW x \in Session,
              \/ \E e \in Entity : SubmitAuto(x, e) \/ StartCancel(x, e) \/ StartOverride(x, e)
              \/ \E a \in Employee, r \in Request, v \in Verdict : OpenRequest(x, a, r, v)
              \/ ContinueAuto(x) \/ Abandon(x)
       PROVE  Kept
  BY <1>11, <1>12 DEF SubmitAuto, StartCancel, StartOverride, OpenRequest, ContinueAuto, Abandon
<1> HIDE DEF Kept
<1>13. Kept
  BY <1>4, <1>6, <1>7, <1>8, <1>9, <1>10, <1>12 DEF Next
<1> QED
  BY <1>13 DEF Kept

\* A late click may decide a request differently, but nothing opens it again.
THEOREM DecidedRequestsStayClosed == ChatSpec => DecidedRequestStaysClosed
<1>1. ChatInv /\ [ChatNext]_allVars =>
        [\A r \in Request : request[r].status \in Verdict =>
             request'[r].status \in Verdict \cup {"deleted"}]_allVars
  <2> SUFFICES ASSUME ChatInv, [ChatNext]_allVars, NEW r \in Request, request[r].status \in Verdict
               PROVE  request'[r].status \in Verdict \cup {"deleted"}
    OBVIOUS
  <2>1. CASE Next
    BY <2>1, DecidedKept, AllKinds DEF ChatInv
  <2>2. ASSUME NEW x \in Session, BotStep(x) PROVE request'[r].status \in Verdict
    BY <2>2, BotRows DEF ChatInv, BotKeeps
  <2>3. CASE UNCHANGED allVars
    BY <2>3 DEF allVars, vars, storeVars
  <2> QED
    BY <2>1, <2>2, <2>3, ChatSplit
<1> QED
  BY <1>1, ChatInvAlways, PTL DEF ChatSpec, DecidedRequestStaysClosed
=============================================================================
