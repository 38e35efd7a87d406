---------------------------- MODULE MCPushAttempts ----------------------------
(***************************************************************************)
(* The queue of main.tf in units of ten seconds, one worker and jobs of    *)
(* seven and a half minutes (quota.py): four of them at once.              *)
(***************************************************************************)
EXTENDS PushAttempts, TLC

Symmetry == Permutations(Job)
=============================================================================
