------------------------------ MODULE MCKernel ------------------------------
(* Two tasks, a counter that wraps every five ticks, a sleep of three.     *)
EXTENDS Kernel
=============================================================================
