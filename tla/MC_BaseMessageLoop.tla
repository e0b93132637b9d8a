------------------------- MODULE MC_BaseMessageLoop -------------------------
(* Model-checking instance of BaseMessageLoop: a 2-bit TaskId, so that     *)
(* ids 1..3 exist and last_id_ wraps after three allocations.              *)
EXTENDS BaseMessageLoopRefinement

MCIdSpace == 4
=============================================================================
