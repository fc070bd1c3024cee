---------------------------- MODULE MCTimeEntries ----------------------------
(***************************************************************************)
(* One server process that appends entries to an employee's chain: enough  *)
(* for the order of the two entries of one transaction.                    *)
(***************************************************************************)
EXTENDS TimeEntries
=============================================================================
