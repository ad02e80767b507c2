------------------------------ MODULE MCSched ------------------------------
(* The scheduler with all of its eight slots.                             *)
EXTENDS Sched
=============================================================================
