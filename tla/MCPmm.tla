------------------------------- MODULE MCPmm -------------------------------
(* Eight pages in words of three: the last word is incomplete.  The maps   *)
(* of pmm_init differ in where the reserved pages lie: only page 0, a hole *)
(* in the middle, a full first word.                                       *)
EXTENDS Pmm

Maps == {{0}, {0, 4}, {0, 1, 2}}
=============================================================================
