----------------------------- MODULE InviteCodes -----------------------------
(***************************************************************************)
(* One invite code of an organization, the members it brings and the       *)
(* admins who approve or reject them:                                      *)
(*   lib/effect/services/invite-code.service.ts,                           *)
(*   lib/effect/services/pending-member.service.ts,                        *)
(*   db/schema/invite-code.ts, db/auth-schema.ts                           *)
(*                                                                         *)
(* The tables have no constraint that keeps a user from being a member or  *)
(* an employee twice, and no call takes a lock.  A code without a limit is *)
(* left out: nothing of it can be exceeded.                                *)
(***************************************************************************)
EXTENDS Integers, Sequences, FiniteSets, FiniteSetsExt

CONSTANTS
    Joiner,         \* users who hold the code
    JoinCall,       \* calls of theirs that run at a time
    Review,         \* calls of admins that run at a time
    MaxLimit,       \* bound: the greatest maxUses an admin sets
    MaxInviteCalls  \* bound: calls

ASSUME InviteBounds == MaxLimit \in Nat \ {0} /\ MaxInviteCalls \in Nat
ASSUME InviteCalls == IsFiniteSet(JoinCall) /\ JoinCall # {}

VARIABLES
    code,        \* the invite_code row
    joined,      \* the member rows it brought, each with its invite_code_usage row
    hired,       \* hired[u]: employee rows of u
    pendingCode, \* user.pendingInviteCode is set
    joinCall,    \* joinCall[a]: how far the call is and what it has read
    review,      \* review[v]: likewise
    topLimit,    \* history: the greatest limit so far
    begun,       \* calls begun so far
    tangled,     \* history: calls overlapped
    unhired,     \* history: users whose approval died before it made them employees
    keptOn       \* history: users rejected after the code itself had approved them

inviteVars ==
    <<code, joined, hired, pendingCode, joinCall, review, topLimit, begun, tangled, unhired, keptOn>>

\* open: active and not expired; approval: requiresApproval.
Code == [open : BOOLEAN, uses : Nat, limit : 1..MaxLimit, approval : BOOLEAN]

\* decisions: the member_approval rows; gone: deleted, and its approval and usage rows
\* with it.
Membership == [user : Joiner, status : {"pending", "approved"},
               decisions : SUBSET {"approved", "rejected"}, gone : BOOLEAN]

\* wants: memberStatus as it follows from the code the call has read.
Joining == [step : {"clear", "find", "member", "redeem", "employee", "commit"}, user : Joiner,
            wants : {"pending", "approved"}, hires : BOOLEAN]

Reviewing == [step : {"check", "insert", "employee", "hire", "remove"}, m : Nat,
              verdict : {"approved", "rejected"}]

NoInviteCall == [step |-> "idle"]

InviteInit ==
    /\ \E limit \in 1..MaxLimit, approval \in BOOLEAN :
          /\ code = [open |-> TRUE, uses |-> 0, limit |-> limit, approval |-> approval]
          /\ topLimit = limit
    /\ joined = <<>> /\ hired = [u \in Joiner |-> 0]
    /\ pendingCode = {}
    /\ joinCall = [a \in JoinCall |-> NoInviteCall] /\ review = [v \in Review |-> NoInviteCall]
    /\ begun = 0 /\ tangled = FALSE /\ unhired = {} /\ keptOn = {}

-----------------------------------------------------------------------------
\* Variant: off by one.
UsableOnceMore == code.open /\ code.uses <= code.limit

\* isCodeUsable.
Usable == code.open /\ code.uses < code.limit

MembersOf(u) == {m \in DOMAIN joined : joined[m].user = u /\ ~joined[m].gone}

Calm ==
    /\ \A a \in JoinCall : joinCall[a].step = "idle"
    /\ \A v \in Review : review[v].step = "idle"

JoinGoes(a, step) == joinCall' = [joinCall EXCEPT ![a].step = step]
JoinEnds(a) == joinCall' = [joinCall EXCEPT ![a] = NoInviteCall]

BeginJoin(a, u, step) ==
    /\ joinCall[a].step = "idle" /\ begun < MaxInviteCalls
    /\ begun' = begun + 1
    /\ joinCall' = [joinCall EXCEPT ![a] =
          [step |-> step, user |-> u, wants |-> "pending", hires |-> FALSE]]
    /\ tangled' = (tangled \/ ~Calm)
    /\ UNCHANGED <<code, joined, hired, pendingCode, review, topLimit, unhired, keptOn>>

-----------------------------------------------------------------------------
(***************************************************************************)
(* Joining: setPendingInviteCode before the address is verified,           *)
(* processPendingInviteCode after it, useCode by one who is signed in.     *)
(***************************************************************************)
SetPendingInviteCode(u) ==
    /\ Usable /\ pendingCode' = pendingCode \cup {u}
    /\ UNCHANGED <<code, joined, hired, joinCall, review, topLimit, begun, tangled, unhired, keptOn>>

UseCode(a, u) == BeginJoin(a, u, "find")

ProcessPending(a, u) == u \in pendingCode /\ BeginJoin(a, u, "clear")

\* "Clear the pending code first (regardless of outcome)".
ClearPending(a) ==
    /\ joinCall[a].step = "clear"
    /\ pendingCode' = pendingCode \ {joinCall[a].user}
    /\ JoinGoes(a, "find")
    /\ UNCHANGED <<code, joined, hired, review, topLimit, begun, tangled, unhired, keptOn>>

FindCode(a) ==
    /\ joinCall[a].step = "find"
    /\ \/ /\ Usable
          /\ joinCall' = [joinCall EXCEPT ![a].step = "member",
                                          ![a].wants = IF code.approval THEN "pending" ELSE "approved"]
       \/ ~Usable /\ JoinEnds(a)
    /\ UNCHANGED <<code, joined, hired, pendingCode, review, topLimit, begun, tangled, unhired, keptOn>>

CheckMember(a) ==
    /\ joinCall[a].step = "member"
    /\ \/ MembersOf(joinCall[a].user) = {} /\ JoinGoes(a, "redeem")
       \/ MembersOf(joinCall[a].user) # {} /\ JoinEnds(a)
    /\ UNCHANGED <<code, joined, hired, pendingCode, review, topLimit, begun, tangled, unhired, keptOn>>

\* The transaction inserts the member, which nobody sees before it commits, and looks for
\* the employee if none is to approve ...
BeginRedeem(a) ==
    LET c == joinCall[a] IN
    /\ c.step = "redeem"
    /\ joinCall' = [joinCall EXCEPT ![a].step = "commit",
                                    ![a].hires = c.wants = "approved" /\ hired[c.user] = 0]
    /\ UNCHANGED <<code, joined, hired, pendingCode, review, topLimit, begun, tangled, unhired, keptOn>>

\* ... inserts it and counts the use, asking nothing of the code again.
Redeem(a) ==
    LET c == joinCall[a] IN
    /\ c.step = "commit"
    /\ joined' = Append(joined, [user |-> c.user, status |-> c.wants, decisions |-> {}, gone |-> FALSE])
    /\ hired' = IF c.hires THEN [hired EXCEPT ![c.user] = @ + 1] ELSE hired
    /\ code' = [code EXCEPT !.uses = @ + 1]
    /\ JoinEnds(a)
    /\ UNCHANGED <<pendingCode, review, topLimit, begun, tangled, unhired, keptOn>>

-----------------------------------------------------------------------------
(***************************************************************************)
(* The admins: update and delete (archive) of the code, and its expiry.    *)
(***************************************************************************)
UpdateCode ==
    /\ \E open, approval \in BOOLEAN, limit \in 1..MaxLimit :
          /\ code' = [code EXCEPT !.open = open, !.approval = approval, !.limit = limit]
          /\ topLimit' = Max({topLimit, limit})
    /\ UNCHANGED <<joined, hired, pendingCode, joinCall, review, begun, tangled, unhired, keptOn>>

\* The list of pending members is every use without an approval row, those of an
\* approved member included.
Listed == {m \in DOMAIN joined : ~joined[m].gone /\ joined[m].decisions = {}}

ReviewGoes(v, step) == review' = [review EXCEPT ![v].step = step]
ReviewEnds(v) == review' = [review EXCEPT ![v] = NoInviteCall]

\* approve and reject, one member or each of a bulk: the member is there ...
BeginReview(v) ==
    /\ review[v].step = "idle" /\ begun < MaxInviteCalls
    /\ begun' = begun + 1
    /\ \E m \in Listed, verdict \in {"approved", "rejected"} :
          /\ review' = [review EXCEPT ![v] = [step |-> "check", m |-> m, verdict |-> verdict]]
    /\ tangled' = (tangled \/ ~Calm)
    /\ UNCHANGED <<code, joined, hired, pendingCode, joinCall, topLimit, unhired, keptOn>>

\* ... has no approval row ...
CheckDecided(v) ==
    /\ review[v].step = "check"
    /\ \/ joined[review[v].m].decisions = {} /\ ReviewGoes(v, "insert")
       \/ joined[review[v].m].decisions # {} /\ ReviewEnds(v)
    /\ UNCHANGED <<code, joined, hired, pendingCode, joinCall, topLimit, begun, tangled, unhired, keptOn>>

\* ... gets one, unless it was deleted meanwhile; its status stays what it was.
InsertDecision(v) ==
    LET m == review[v].m IN
    /\ review[v].step = "insert"
    /\ \/ /\ ~joined[m].gone
          /\ joined' = [joined EXCEPT ![m].decisions = @ \cup {review[v].verdict}]
          /\ ReviewGoes(v, IF review[v].verdict = "approved" THEN "employee" ELSE "remove")
       \/ joined[m].gone /\ ReviewEnds(v) /\ UNCHANGED joined
    /\ UNCHANGED <<code, hired, pendingCode, joinCall, topLimit, begun, tangled, unhired, keptOn>>

CheckEmployee(v) ==
    /\ review[v].step = "employee"
    /\ \/ hired[joined[review[v].m].user] = 0 /\ ReviewGoes(v, "hire")
       \/ hired[joined[review[v].m].user] # 0 /\ ReviewEnds(v)
    /\ UNCHANGED <<code, joined, hired, pendingCode, joinCall, topLimit, begun, tangled, unhired, keptOn>>

Hire(v) ==
    /\ review[v].step = "hire"
    /\ hired' = [hired EXCEPT ![joined[review[v].m].user] = @ + 1]
    /\ ReviewEnds(v)
    /\ UNCHANGED <<code, joined, pendingCode, joinCall, topLimit, begun, tangled, unhired, keptOn>>

\* The approval rows go with the member.
RemoveMember(v) ==
    /\ review[v].step = "remove"
    /\ joined' = [joined EXCEPT ![review[v].m].gone = TRUE, ![review[v].m].decisions = {}]
    /\ keptOn' = IF joined[review[v].m].status = "approved"
                 THEN keptOn \cup {joined[review[v].m].user} ELSE keptOn
    /\ ReviewEnds(v)
    /\ UNCHANGED <<code, hired, pendingCode, joinCall, topLimit, begun, tangled, unhired>>

-----------------------------------------------------------------------------
\* A statement fails or the process dies: a transaction leaves nothing behind.
InviteCallDies ==
    /\ \/ /\ \E a \in JoinCall : joinCall[a].step # "idle" /\ JoinEnds(a)
          /\ UNCHANGED <<review, unhired>>
       \/ /\ \E v \in Review :
                /\ review[v].step # "idle" /\ ReviewEnds(v)
                /\ unhired' = IF review[v].step \in {"employee", "hire"}
                              THEN unhired \cup {joined[review[v].m].user} ELSE unhired
          /\ UNCHANGED joinCall
    /\ UNCHANGED <<code, joined, hired, pendingCode, topLimit, begun, tangled, keptOn>>

InviteNext ==
    \/ \E u \in Joiner : SetPendingInviteCode(u)
    \/ \E a \in JoinCall, u \in Joiner : UseCode(a, u) \/ ProcessPending(a, u)
    \/ \E a \in JoinCall :
          ClearPending(a) \/ FindCode(a) \/ CheckMember(a) \/ BeginRedeem(a) \/ Redeem(a)
    \/ UpdateCode
    \/ \E v \in Review :
          \/ BeginReview(v) \/ CheckDecided(v) \/ InsertDecision(v)
          \/ CheckEmployee(v) \/ Hire(v) \/ RemoveMember(v)
    \/ InviteCallDies

InviteSpec == InviteInit /\ [][InviteNext]_inviteVars

-----------------------------------------------------------------------------
(***************************************************************************)
(* Properties.                                                             *)
(***************************************************************************)

\* Every variable has the type its column or value has.
InviteTypeOK ==
    /\ code \in Code /\ topLimit \in 1..MaxLimit
    /\ joined \in Seq(Membership) /\ hired \in [Joiner -> Nat]
    /\ pendingCode \subseteq Joiner
    /\ joinCall \in [JoinCall -> {NoInviteCall} \cup Joining]
    /\ review \in [Review -> {NoInviteCall} \cup Reviewing]
    /\ \A v \in Review : review[v].step # "idle" => review[v].m \in DOMAIN joined
    /\ begun \in 0..MaxInviteCalls /\ tangled \in BOOLEAN
    /\ unhired \subseteq Joiner /\ keptOn \subseteq Joiner

\* The uses of a code add up: one for each member it ever brought, and no more than its
\* limit and what the calls that ran next to one another could add to it.
UsesAddUp ==
    /\ code.uses = Len(joined)
    /\ code.uses <= topLimit + Cardinality(JoinCall) - 1

\* The code itself or an admin approved the member.
Admitted(m) == joined[m].status = "approved" \/ "approved" \in joined[m].decisions

Confirmed(u) == \E m \in MembersOf(u) : Admitted(m)

\* When no call is at work, whatever overlapped or died, a user with an approved membership
\* is an employee, unless the approval died between its two rows.  If no two calls
\* overlapped, a user has one membership and one employee row at most, and the row only
\* with an approved membership, or after an admin rejected a member whom the code itself
\* had approved: the list of pending members holds him as well, and the rejection deletes
\* the member and leaves the employee.
SettledMembersAgree ==
    Calm =>
        \A u \in Joiner :
            /\ Confirmed(u) => hired[u] > 0 \/ u \in unhired
            /\ ~tangled =>
                  /\ Cardinality(MembersOf(u)) <= 1 /\ hired[u] <= 1
                  /\ hired[u] = 1 => Confirmed(u) \/ u \in keptOn
=============================================================================
