--------------------------- MODULE AbsenceRequests ---------------------------
(***************************************************************************)
(* Vacation requests from submission to decision, cancellation and the     *)
(* override of a vacation by a sick absence:                               *)
(*   app/.../absences/request-absence-effect.ts   submission               *)
(*   lib/approvals/server/absence-approvals.ts    decision                 *)
(*   app/.../absences/mutations.ts                cancellation             *)
(*   lib/absences/sick-vacation-override.ts       override                 *)
(*                                                                         *)
(* Entities are full-day vacations of one employee.  The sick absence that *)
(* overrides them is not modelled: it is submitted or approved elsewhere,  *)
(* and only its effect on the vacations is an action here.  Submission and *)
(* decision are transactions; the automatic approval and the cancellation  *)
(* are not, so each of their statements is a step of its own.              *)
(***************************************************************************)
EXTENDS ApprovalInbox

CONSTANT Segment     \* ids kept for the vacations that a split leaves behind

ASSUME SegmentAssumption == Segment \subseteq Entity

VARIABLES
    autoApproved,\* entities that need no approver (category, or no manager): constant
    absence,     \* absence[e]: status of the absence_entry row
    canonical    \* canonical[e]: approvalState of the time_record row

absenceVars == <<absence, canonical>>
vars == <<storeVars, absenceVars, session, autoApproved>>

RowStatus == {"none", "pending", "approved", "rejected", "deleted"}
Exists(status) == status \notin {"none", "deleted"}

\* An UPDATE by id: no effect when the row is gone.
Set(table, e, v) == [table EXCEPT ![e] = IF Exists(@) THEN v ELSE @]

AutoCall     == [phase : {"autoApproving"}, entity : Entity, todo : {{"absence", "canonical"}, {"canonical"}}]
CancelCall   == [phase : {"cancelling"}, entity : Entity,
                 todo : (SUBSET {"absence", "requests", "canonical"}) \ {{}}]
OverrideCall == [phase : {"overriding"}, entity : Entity, seen : {"pending", "approved"},
                 asked : SUBSET Request]

Become(x, call) == session' = [session EXCEPT ![x] = call]

Init ==
    /\ StoreInit
    /\ autoApproved \in SUBSET (Entity \ Segment)
    /\ absence = [e \in Entity |-> "none"]
    /\ canonical = [e \in Entity |-> "none"]
    /\ session = [x \in Session |-> Idle]

-----------------------------------------------------------------------------
(***************************************************************************)
(* createRequestedAbsenceRecordsInTransaction, and the two statements that *)
(* approve an absence whose category requires no approval.                 *)
(***************************************************************************)
Submit(e) ==
    /\ e \notin autoApproved \cup Segment
    /\ absence[e] = "none"
    /\ absence' = [absence EXCEPT ![e] = "pending"]
    /\ canonical' = [canonical EXCEPT ![e] = "pending"]
    /\ \E r \in Request :
         \/ \E a \in Eligible : CreateDefault(e, a, r)
         \/ \E n \in Step : \E approvers \in [1..n -> Employee] : CreateChain(e, approvers, n, r)
    /\ UNCHANGED <<session, autoApproved>>

SubmitAuto(x, e) ==
    /\ e \in autoApproved
    /\ absence[e] = "none" /\ session[x].phase = "idle"
    /\ absence' = [absence EXCEPT ![e] = "pending"]
    /\ canonical' = [canonical EXCEPT ![e] = "approved"]
    /\ Become(x, [phase |-> "autoApproving", entity |-> e, todo |-> {"absence", "canonical"}])
    /\ UNCHANGED <<storeVars, autoApproved>>

\* updateAutoApprovedAbsence, then syncCanonicalAbsenceApprovalState.
ContinueAuto(x) ==
    /\ session[x].phase = "autoApproving"
    /\ LET e == session[x].entity IN
         IF "absence" \in session[x].todo
         THEN /\ absence' = Set(absence, e, "approved")
              /\ Become(x, [session[x] EXCEPT !.todo = {"canonical"}])
              /\ UNCHANGED canonical
         ELSE /\ canonical' = Set(canonical, e, "approved")
              /\ Become(x, Idle)
              /\ UNCHANGED absence
    /\ UNCHANGED <<storeVars, autoApproved>>

-----------------------------------------------------------------------------
(***************************************************************************)
(* Decisions.  handleApprovedAbsence and handleRejectedAbsence update the  *)
(* row by id and fail, which rolls everything back, when it is gone; a     *)
(* stage that is not the last never looks at the absence.                  *)
(***************************************************************************)
OpenRequest(x, a, r, v) == Open(x, a, r, v) /\ UNCHANGED <<storeVars, absenceVars, autoApproved>>

\* Variant: forgets the time record.
PersistDecisionOnly(e, v) ==
    Exists(absence[e]) /\ absence' = [absence EXCEPT ![e] = v] /\ UNCHANGED canonical

\* Variant: does not notice that the row is gone.
PersistDecisionBlind(e, v) ==
    absence' = Set(absence, e, v) /\ canonical' = Set(canonical, e, v)

PersistDecision(e, v) ==
    /\ Exists(absence[e])
    /\ absence' = [absence EXCEPT ![e] = v]
    /\ canonical' = Set(canonical, e, v)

Decide(e, r, a, v) ==
    \/ v = "approved" /\ (\E q \in Request : AdvanceChain(r, q, a)) /\ UNCHANGED absenceVars
    \/ v = "approved" /\ FinishApproval(r, a) /\ PersistDecision(e, v)
    \/ v = "rejected" /\ FinishRejection(r, a) /\ PersistDecision(e, v)

CommitInbox(x) ==
    /\ session[x].phase = "opened"
    /\ LET c == session[x] IN
         \E r \in LoadPending(c) : Decide(c.entity, r, c.actor, c.verdict)
    /\ Become(x, Idle)
    /\ UNCHANGED autoApproved

\* approveAbsenceEffect and rejectAbsenceEffect decide by absence id and read
\* the caller's own pending request in the transaction.
CommitPage(a, e, v) ==
    /\ \E r \in PendingFor(e) : request[r].approver = a /\ Decide(e, r, a, v)
    /\ UNCHANGED <<session, autoApproved>>

-----------------------------------------------------------------------------
(***************************************************************************)
(* cancelAbsenceRequestForEmployee: a check, then three DELETEs sent at    *)
(* once without a transaction.  The one of the requests fails as a whole   *)
(* when a chain stage refers to one of them: the foreign key of            *)
(* approval_chain_stage_instance has no ON DELETE action.                  *)
(***************************************************************************)
StartCancel(x, e) ==
    /\ session[x].phase = "idle"
    /\ absence[e] \in {"pending", "approved"}
    /\ Become(x, [phase |-> "cancelling", entity |-> e, todo |-> {"absence", "requests", "canonical"}])
    /\ UNCHANGED <<storeVars, absenceVars, autoApproved>>

RequestsOf(e) == {r \in Request : request[r].status # "absent" /\ request[r].entity = e}

DeleteRequests(e) ==
    request' = IF \E r \in RequestsOf(e) : LinkedSteps(r) # {} THEN request
               ELSE [r \in Request |->
                      IF r \in RequestsOf(e) THEN DecidedRow(r, "deleted") ELSE request[r]]

ContinueCancel(x) ==
    /\ session[x].phase = "cancelling"
    /\ LET e == session[x].entity IN
       \E t \in session[x].todo :
         /\ absence' = IF t = "absence" THEN Set(absence, e, "deleted") ELSE absence
         /\ canonical' = IF t = "canonical" THEN Set(canonical, e, "deleted") ELSE canonical
         /\ IF t = "requests" THEN DeleteRequests(e) ELSE UNCHANGED request
         /\ Become(x, IF session[x].todo = {t} THEN Idle
                      ELSE [session[x] EXCEPT !.todo = @ \ {t}])
    /\ UNCHANGED <<chain, stage, autoApproved>>

-----------------------------------------------------------------------------
(***************************************************************************)
(* adjustVacationAbsencesForSickness: it reads the vacations first and     *)
(* writes by the status it read.  The sick range covers the vacation, or   *)
(* leaves a second segment d of it (shortening alone changes no status).   *)
(*                                                                         *)
(* Covering closes the pending request with an UPDATE, and no lock of the  *)
(* vacation is taken.  Under READ COMMITTED the UPDATE sees the rows that  *)
(* were committed when it began: a request that a decision inserted after  *)
(* the read (not in asked) it may see, or may miss while it waits for the  *)
(* row that decision holds.                                                *)
(***************************************************************************)
StartOverride(x, e) ==
    /\ session[x].phase = "idle"
    /\ absence[e] \in {"pending", "approved"}
    /\ Become(x, [phase |-> "overriding", entity |-> e, seen |-> absence[e], asked |-> PendingFor(e)])
    /\ UNCHANGED <<storeVars, absenceVars, autoApproved>>

CloseRequests(e, rows) ==
    request' = [r \in Request |->
        IF r \in PendingFor(e) \cap rows THEN DecidedRow(r, "rejected") ELSE request[r]]

Cover(x) ==
    /\ session[x].phase = "overriding"
    /\ LET e == session[x].entity IN
         /\ IF session[x].seen = "pending"
            THEN \E snapshot \in {session[x].asked, PendingFor(e)} : CloseRequests(e, snapshot)
            ELSE UNCHANGED request
         /\ absence' = Set(absence, e, "rejected")
         /\ canonical' = Set(canonical, e, "rejected")
    /\ Become(x, Idle)
    /\ UNCHANGED <<chain, stage, autoApproved>>

\* The new segment of a pending vacation gets a copy of one of its requests,
\* whatever status that has.
CopyRequest(k, q, d) ==
    /\ request[q].status = "absent"
    /\ request' = [request EXCEPT ![q] =
          [status |-> request[k].status, entity |-> d, approver |-> request[k].approver]]

Surviving(e) == {r \in RequestsOf(e) : request[r].status # "deleted"}

\* Variant: writes back the status it read along with the shortened range.
SplitWritingBack(x, d) ==
    /\ session[x].phase = "overriding"
    /\ LET e == session[x].entity IN
         /\ d \in Segment /\ absence[d] = "none"
         /\ absence' = [Set(absence, e, session[x].seen) EXCEPT ![d] = session[x].seen]
         /\ canonical' = [Set(canonical, e, session[x].seen) EXCEPT ![d] = session[x].seen]
    /\ Become(x, Idle)
    /\ UNCHANGED <<storeVars, autoApproved>>

Split(x, d) ==
    /\ session[x].phase = "overriding"
    /\ LET e == session[x].entity
           copied == session[x].seen = "pending" /\ Surviving(e) # {} IN
         /\ d \in Segment /\ absence[d] = "none"
         /\ absence' = [absence EXCEPT ![d] = session[x].seen]
         /\ canonical' = [canonical EXCEPT ![d] = session[x].seen]
         /\ IF copied THEN \E k \in Surviving(e), q \in Request : CopyRequest(k, q, d)
                      ELSE UNCHANGED request
    /\ Become(x, Idle)
    /\ UNCHANGED <<chain, stage, autoApproved>>

\* The call fails or its process dies: a transaction that is open rolls back,
\* statements that were not sent are lost.
Abandon(x) ==
    /\ session[x].phase # "idle"
    /\ Become(x, Idle)
    /\ UNCHANGED <<storeVars, absenceVars, autoApproved>>

-----------------------------------------------------------------------------
Next ==
    \/ \E e \in Entity : Submit(e)
    \/ \E a \in Employee, e \in Entity, v \in Verdict : CommitPage(a, e, v)
    \/ \E x \in Session :
         \/ \E e \in Entity : SubmitAuto(x, e) \/ StartCancel(x, e) \/ StartOverride(x, e) \/ Split(x, e)
         \/ \E a \in Employee, r \in Request, v \in Verdict : OpenRequest(x, a, r, v)
         \/ CommitInbox(x)
         \/ ContinueAuto(x)
         \/ ContinueCancel(x)
         \/ Cover(x)
         \/ Abandon(x)

Spec == Init /\ [][Next]_vars

-----------------------------------------------------------------------------
(***************************************************************************)
(* Properties.                                                             *)
(***************************************************************************)

\* Every variable has the type its column or field has.
TypeOK ==
    /\ StoreTypeOK
    /\ autoApproved \subseteq Entity
    /\ absence \in [Entity -> RowStatus]
    /\ canonical \in [Entity -> RowStatus]
    /\ session \in [Session -> {Idle} \cup OpenedCall \cup AutoCall \cup CancelCall \cup OverrideCall]

\* As long as the absence and its time record both exist, they agree: no order
\* of decisions, overrides and half-finished cancellations separates them.
RecordAgrees ==
    \A e \in Entity \ autoApproved :
        Exists(absence[e]) /\ Exists(canonical[e]) => canonical[e] = absence[e]

\* Under a policy an absence is approved only by all of its stages, and nobody is
\* asked about an approved absence any more, however its calls interleave with
\* overrides, splits and cancellations.
ApprovedByAllStages ==
    \A e \in Entity : absence[e] = "approved" =>
        /\ PendingFor(e) = {}
        /\ chain[e].status # "absent" =>
             /\ chain[e].status = "approved"
             /\ \A s \in 1..chain[e].last : stage[e][s].status = "approved"

\* A rejected absence that nobody is asked about any more is never approved
\* after all: no call that is still under way revives it.
RejectedIsFinal ==
    [][\A e \in Entity \ autoApproved :
         absence[e] = "rejected" /\ PendingFor(e) = {} =>
             absence'[e] \in {"rejected", "deleted"} /\ PendingFor(e)' = {}]_vars

\* A cancelled absence does not come back, and no approval of it completes.
CancelledStaysCancelled ==
    [][\A e \in Entity : absence[e] = "deleted" =>
         /\ absence'[e] = "deleted"
         /\ chain'[e].status = chain[e].status]_vars

\* "the app's existing cancellation behavior, which deletes the vacation
\* absence_entry, removes its linked canonical absence record, and deletes any
\* related approval request" (the sick vacation override design): once the
\* cancellation's DELETE of the requests has run, none is left.
CancelDeletesRequests ==
    [][\A x \in Session :
         LET e == session[x].entity IN
         (/\ session[x].phase = "cancelling" /\ "requests" \in session[x].todo
          /\ session'[x].phase = "cancelling" /\ "requests" \notin session'[x].todo)
             => PendingFor(e)' = {}]_vars

\* "Fully covered vacation entries remove their linked canonical absence record
\* and any related approval request" (the sick vacation override design): nobody
\* is asked about, and nobody can approve, a vacation that was overridden.
OverriddenAsksNobody ==
    \A e \in Entity : absence[e] = "rejected" => PendingFor(e) = {}
=============================================================================
