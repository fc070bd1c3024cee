---------------------------- MODULE ShiftRequests ----------------------------
(***************************************************************************)
(* One shift, the requests to swap it or to pick it up, and the managers   *)
(* who plan, publish and delete it and decide the requests:                *)
(*   lib/effect/services/shift-request.service.ts,                         *)
(*   lib/effect/services/open-shifts.service.ts,                           *)
(*   lib/effect/services/shift.service.ts, db/schema/shift.ts              *)
(*                                                                         *)
(* Every call reads, checks and then writes by id, without a transaction;  *)
(* between its two steps anything may have changed.                        *)
(***************************************************************************)
EXTENDS Integers, Sequences, FiniteSets

CONSTANTS
    Worker,         \* employees
    ShiftCall,      \* calls that run at a time
    MaxShiftCalls   \* bound: calls

Nobody == "nobody"

ASSUME ShiftBounds == MaxShiftCalls \in Nat /\ Nobody \notin Worker

VARIABLES
    shift,       \* the shift row
    wish,        \* the shift_request rows
    shiftCall,   \* shiftCall[s]: how far the call s is and what it has read
    assigned,    \* history: who gave the shift to whoever holds it
    wishCalls,   \* calls begun so far
    entangled    \* history: calls overlapped or died halfway

shiftVars == <<shift, wish, shiftCall, assigned, wishCalls, entangled>>

Shift == [status : {"draft", "published", "deleted"}, holder : Worker \cup {Nobody}]

\* A request that was cancelled, or deleted with the shift, is "deleted".
Wish == [type : {"swap", "pickup"}, by : Worker, target : Worker \cup {Nobody},
         status : {"pending", "approved", "rejected", "deleted"}]

NoCall == [step |-> "idle"]

\* Which: the types of the caller's pending requests that refuse the new one.
Asking == [step : {"check", "insert"}, wish : Wish, which : SUBSET {"swap", "pickup"}]
Deciding == [step : {"assign", "approve", "others", "reject", "cancel"}, r : Nat]
Planning == [step : {"publish", "delete"}]

ShiftInit ==
    /\ shift \in [status : {"draft", "published"}, holder : Worker \cup {Nobody}]
    /\ wish = <<>>
    /\ shiftCall = [s \in ShiftCall |-> NoCall]
    /\ assigned = "manager"
    /\ wishCalls = 0 /\ entangled = FALSE

-----------------------------------------------------------------------------
ShiftCalm == \A s \in ShiftCall : shiftCall[s].step = "idle"

BeginShiftCall(s, call) ==
    /\ shiftCall[s].step = "idle" /\ wishCalls < MaxShiftCalls
    /\ wishCalls' = wishCalls + 1
    /\ shiftCall' = [shiftCall EXCEPT ![s] = call]
    /\ entangled' = (entangled \/ ~ShiftCalm)
    /\ UNCHANGED <<shift, wish, assigned>>

CallGoes(s, step) == shiftCall' = [shiftCall EXCEPT ![s].step = step]
CallEnds(s) == shiftCall' = [shiftCall EXCEPT ![s] = NoCall]

-----------------------------------------------------------------------------
(***************************************************************************)
(* Asking: requestSwap, requestPickup and the bot's requestShiftPickup.    *)
(***************************************************************************)
Ask(s, type, by, target, which) ==
    BeginShiftCall(s, [step |-> "check", which |-> which,
                       wish |-> [type |-> type, by |-> by, target |-> target, status |-> "pending"]])

RequestSwap(s) ==
    /\ shift.status = "published"
    /\ \E by \in Worker, target \in Worker \cup {Nobody} :
          shift.holder = by /\ Ask(s, "swap", by, target, {"swap", "pickup"})

\* The bot asks for any pending request of the employee, the planner for a pickup.
RequestPickup(s) ==
    /\ shift.status = "published" /\ shift.holder = Nobody
    /\ \E by \in Worker, which \in {{"pickup"}, {"swap", "pickup"}} :
          Ask(s, "pickup", by, Nobody, which)

PendingOf(by, types) ==
    {r \in DOMAIN wish : wish[r].by = by /\ wish[r].type \in types /\ wish[r].status = "pending"}

CheckExisting(s) ==
    LET c == shiftCall[s] IN
    /\ c.step = "check"
    /\ \/ PendingOf(c.wish.by, c.which) = {} /\ CallGoes(s, "insert")
       \/ PendingOf(c.wish.by, c.which) # {} /\ CallEnds(s)
    /\ UNCHANGED <<shift, wish, assigned, wishCalls, entangled>>

\* The foreign key refuses a request for a shift that is gone.
InsertRequest(s) ==
    /\ shiftCall[s].step = "insert"
    /\ wish' = IF shift.status = "deleted" THEN wish ELSE Append(wish, shiftCall[s].wish)
    /\ CallEnds(s)
    /\ UNCHANGED <<shift, assigned, wishCalls, entangled>>

-----------------------------------------------------------------------------
(***************************************************************************)
(* Deciding: a request that was pending when it was read.                  *)
(***************************************************************************)
BeginDecision(s) ==
    \E r \in DOMAIN wish, step \in {"assign", "reject", "cancel"} :
        /\ wish[r].status = "pending"
        /\ BeginShiftCall(s, [step |-> step, r |-> r])

\* approveRequest gives the shift away first, whoever has it by now; a swap without a
\* target gives it to nobody new.
AssignShift(s) ==
    LET w == wish[shiftCall[s].r]
        to == IF w.type = "pickup" THEN w.by ELSE w.target
    IN
    /\ shiftCall[s].step = "assign"
    /\ IF to = Nobody \/ shift.status = "deleted" THEN UNCHANGED <<shift, assigned>>
       ELSE shift' = [shift EXCEPT !.holder = to] /\ assigned' = w.type
    /\ CallGoes(s, "approve")
    /\ UNCHANGED <<wish, wishCalls, entangled>>

Write(r, status) ==
    wish' = [wish EXCEPT ![r].status = IF @ = "deleted" THEN @ ELSE status]

MarkApproved(s) ==
    LET r == shiftCall[s].r IN
    /\ shiftCall[s].step = "approve"
    /\ Write(r, "approved")
    /\ IF wish[r].type = "pickup" THEN CallGoes(s, "others") ELSE CallEnds(s)
    /\ UNCHANGED <<shift, assigned, wishCalls, entangled>>

\* Variant: the other pickups are forgotten.
OthersKept == wish

OthersRejected ==
    [r \in DOMAIN wish |-> IF wish[r].type = "pickup" /\ wish[r].status = "pending"
                           THEN [wish[r] EXCEPT !.status = "rejected"] ELSE wish[r]]

RejectOthers(s) ==
    /\ shiftCall[s].step = "others"
    /\ wish' = OthersRejected
    /\ CallEnds(s)
    /\ UNCHANGED <<shift, assigned, wishCalls, entangled>>

MarkRejected(s) ==
    /\ shiftCall[s].step = "reject"
    /\ Write(shiftCall[s].r, "rejected")
    /\ CallEnds(s)
    /\ UNCHANGED <<shift, assigned, wishCalls, entangled>>

DeleteRequest(s) ==
    /\ shiftCall[s].step = "cancel"
    /\ Write(shiftCall[s].r, "deleted")
    /\ CallEnds(s)
    /\ UNCHANGED <<shift, assigned, wishCalls, entangled>>

-----------------------------------------------------------------------------
(***************************************************************************)
(* Planning.  upsertShift writes what the form holds, whatever the status; *)
(* publishShifts and deleteShift act on a shift that was a draft.          *)
(***************************************************************************)
UpsertShift ==
    /\ shift.status # "deleted"
    /\ \E to \in Worker \cup {Nobody} : shift' = [shift EXCEPT !.holder = to]
    /\ assigned' = "manager"
    /\ UNCHANGED <<wish, shiftCall, wishCalls, entangled>>

BeginPlanning(s) ==
    \E step \in {"publish", "delete"} :
        shift.status = "draft" /\ BeginShiftCall(s, [step |-> step])

PublishShift(s) ==
    /\ shiftCall[s].step = "publish"
    /\ shift' = [shift EXCEPT !.status = IF @ = "deleted" THEN @ ELSE "published"]
    /\ CallEnds(s)
    /\ UNCHANGED <<wish, assigned, wishCalls, entangled>>

\* Its requests are deleted with it.
DeleteShift(s) ==
    /\ shiftCall[s].step = "delete"
    /\ shift' = [shift EXCEPT !.status = "deleted"]
    /\ wish' = [r \in DOMAIN wish |-> [wish[r] EXCEPT !.status = "deleted"]]
    /\ CallEnds(s)
    /\ UNCHANGED <<assigned, wishCalls, entangled>>

ShiftCallDies(s) ==
    /\ shiftCall[s].step # "idle"
    /\ CallEnds(s)
    /\ entangled' = TRUE
    /\ UNCHANGED <<shift, wish, assigned, wishCalls>>

-----------------------------------------------------------------------------
ShiftNext ==
    \/ UpsertShift
    \/ \E s \in ShiftCall :
          \/ RequestSwap(s) \/ RequestPickup(s) \/ CheckExisting(s) \/ InsertRequest(s)
          \/ BeginDecision(s) \/ AssignShift(s) \/ MarkApproved(s) \/ RejectOthers(s)
          \/ MarkRejected(s) \/ DeleteRequest(s)
          \/ BeginPlanning(s) \/ PublishShift(s) \/ DeleteShift(s)
          \/ ShiftCallDies(s)

ShiftSpec == ShiftInit /\ [][ShiftNext]_shiftVars

-----------------------------------------------------------------------------
(***************************************************************************)
(* Properties.                                                             *)
(***************************************************************************)

\* Every variable has the type its column or value has.
ShiftTypeOK ==
    /\ shift \in Shift /\ wish \in Seq(Wish)
    /\ shiftCall \in [ShiftCall -> {NoCall} \cup Asking \cup Deciding \cup Planning]
    /\ \A s \in ShiftCall : shiftCall[s] \in Deciding => shiftCall[s].r \in DOMAIN wish
    /\ assigned \in {"manager", "swap", "pickup"}
    /\ wishCalls \in 0..MaxShiftCalls /\ entangled \in BOOLEAN

Approved(type, who) ==
    \E r \in DOMAIN wish : wish[r].type = type /\ wish[r].status = "approved" /\
        shift.holder = who[r]

\* Calls that come one after the other, and end, agree: whoever got the shift by a request
\* has an approved one, nobody still waits to pick it up then, nobody waits twice for the
\* same, and a shift that is not published has no request.
SettledShiftsAgree ==
    ~entangled /\ ShiftCalm =>
        /\ assigned = "pickup" => Approved("pickup", [r \in DOMAIN wish |-> wish[r].by])
        /\ assigned = "swap" => Approved("swap", [r \in DOMAIN wish |-> wish[r].target])
        /\ assigned = "pickup" => \A w \in Worker : PendingOf(w, {"pickup"}) = {}
        /\ \A w \in Worker, type \in {"swap", "pickup"} : Cardinality(PendingOf(w, {type})) <= 1
        /\ shift.status # "published" => \A r \in DOMAIN wish : wish[r].status = "deleted"
=============================================================================
