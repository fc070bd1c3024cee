--------------------------- MODULE MCTravelExpense ---------------------------
(***************************************************************************)
(* TravelExpense for TLC: sessions, requests and employees as model        *)
(* values.  One claim with policies of up to three stages, two calls at a  *)
(* time (a double click, two approvers, a page and the inbox).             *)
(***************************************************************************)
EXTENDS TravelExpense, TLC

Symmetry == Permutations(Session) \cup Permutations(Request)
=============================================================================
