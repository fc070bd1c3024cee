-------------------------- MODULE MCAbsenceRequests --------------------------
(***************************************************************************)
(* AbsenceRequests for TLC: a vacation under a policy of up to two stages, *)
(* room for the segment a sick absence splits off, and two calls at a      *)
(* time.  The employees are interchangeable: both are eligible managers.   *)
(***************************************************************************)
EXTENDS AbsenceRequests, TLC

Symmetry == Permutations(Session) \cup Permutations(Request) \cup Permutations(Employee)
=============================================================================
