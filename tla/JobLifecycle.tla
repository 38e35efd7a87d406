---------------------------- MODULE JobLifecycle ----------------------------
(***************************************************************************)
(* What a job promises its client (meteor_stego/service/jobs.py, "Job      *)
(* lifecycle: queued, running, then done or failed"): it takes each state  *)
(* once, in this order, it ends, and it has a result just if it is done.   *)
(* LocalJobs and CloudJobs are two ways to keep that promise.              *)
(***************************************************************************)
CONSTANT Jobs

VARIABLES
  status,  \* of each job
  result   \* whether it has one

vars == <<status, result>>

Moves(j, from, to) == status[j] = from /\ status' = [status EXCEPT ![j] = to]

Submit(j) == Moves(j, "absent", "queued") /\ UNCHANGED result

Start(j) == Moves(j, "queued", "running") /\ UNCHANGED result

Finish(j) == Moves(j, "running", "done") /\ result' = [result EXCEPT ![j] = TRUE]

Fail(j) == Moves(j, "running", "failed") /\ UNCHANGED result

Init ==
  /\ status = [j \in Jobs |-> "absent"]
  /\ result = [j \in Jobs |-> FALSE]

Next == \E j \in Jobs : Submit(j) \/ Start(j) \/ Finish(j) \/ Fail(j)

Safe == Init /\ [][Next]_vars

Spec == Safe /\ \A j \in Jobs : WF_vars(Start(j)) /\ WF_vars(Finish(j) \/ Fail(j))
=============================================================================
