------------------------------ MODULE MCSubmission ------------------------------
(***************************************************************************)
(* A small instance of Submission for TLC: orders of one or two units,     *)
(* adjustments down by as many and up by one.                              *)
(***************************************************************************)
EXTENDS Submission

MCChanges == {-2, -1, 1}
===============================================================================
