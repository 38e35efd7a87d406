---------------------------- MODULE MCLocalJobs ----------------------------
(***************************************************************************)
(* An instance of LocalJobs for TLC: the .cfg gives all the constants.     *)
(***************************************************************************)
EXTENDS LocalJobs
=============================================================================
