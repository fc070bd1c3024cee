---------------------------- MODULE MCChatApproval ----------------------------
(***************************************************************************)
(* ChatApproval for TLC: one vacation under a policy of up to two stages   *)
(* or in a category that needs no approval, and two calls at a time.       *)
(***************************************************************************)
EXTENDS ChatApproval, TLC

Symmetry == Permutations(Session) \cup Permutations(Request) \cup Permutations(Employee)
=============================================================================
