---------------------------- MODULE MCCloudJobs ----------------------------
(***************************************************************************)
(* Instances of CloudJobs for TLC.  Jobs and workers are interchangeable,  *)
(* which the runs of safety properties use.                                *)
(***************************************************************************)
EXTENDS CloudJobs, TLC

Symmetry == Permutations(Jobs) \cup Permutations(Workers)
=============================================================================
