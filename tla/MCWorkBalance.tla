---------------------------- MODULE MCWorkBalance ----------------------------
(***************************************************************************)
(* WorkBalance for TLC: a hot window of one month and one closed month, two *)
(* overlapping refreshes and one caller, which makes its changes in turn.   *)
(***************************************************************************)
EXTENDS WorkBalance
=============================================================================
