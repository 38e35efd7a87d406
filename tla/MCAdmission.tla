---------------------------- MODULE MCAdmission ----------------------------
(***************************************************************************)
(* An instance of Admission for TLC: two instances and three requests of   *)
(* one caller, two of them to the same instance, so that the requests race *)
(* across instances and one finds what another left in the cache.  The     *)
(* record allows one job in flight and has no quota of its own.            *)
(***************************************************************************)
EXTENDS Admission

MCRequests == 1..3
MCAt == <<"i1", "i2", "i1">>
MCBy == [r \in Requests |-> "c1"]
MCConcurrent == [c \in Callers |-> 1]
MCQuota == [c \in Callers |-> 0]
MCChanges == [c \in Callers |-> 2]
=============================================================================
