-------------------------- MODULE MembersAndShifts --------------------------
(***************************************************************************)
(* An invite code with its members, and a shift with its requests.  The    *)
(* two share no state, and each goes on by itself.  Neither has a lock or  *)
(* a constraint that keeps overlapping calls apart: that a user is member  *)
(* and employee once, and that a shift goes to one, holds only of calls    *)
(* that do not overlap.                                                    *)
(***************************************************************************)
EXTENDS InviteCodes, ShiftRequests

MembersAndShiftsSpec == InviteSpec /\ ShiftSpec

\* What calls leave behind once they end.  Whatever overlaps or dies, a user whom the code
\* or an admin approved as a member is an employee, unless the approval died halfway.  If no
\* two calls of the invite code overlapped, there is one row of each at most; if no two calls
\* about the shift did and none died, the shift agrees with its requests.
SettledAgree == SettledMembersAgree /\ SettledShiftsAgree
=============================================================================
