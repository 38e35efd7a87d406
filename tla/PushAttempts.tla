----------------------------- MODULE PushAttempts -----------------------------
(***************************************************************************)
(* The attempts of a push over time: how long an accepted job waits for a  *)
(* worker.  Cloud Tasks delivers a push that was answered 429 again after  *)
(* a growing delay, and after max_attempts drops it (the queue of          *)
(* infra/terraform/main.tf).  A worker answers 200 as soon as a job has    *)
(* started, so max_concurrent_dispatches does not hold pushes back while   *)
(* jobs run.  CloudJobs has the same deliveries without time, and no limit *)
(* on their number.                                                        *)
(***************************************************************************)
EXTENDS Naturals, FiniteSets, FiniteSetsExt

CONSTANTS
  Job,
  Worker,
  MaxAttempts,      \* of retry_config, as the next three; times share a unit
  MinBackoff,
  MaxBackoff,
  MaxDoublings,
  MaxQueued,        \* ADMISSION_MAX_QUEUED
  JobTime,          \* what a job takes on a worker
  LastSubmission,   \* bound: the time of the last submission
  MaxTime           \* bound on the clock

VARIABLES
  now,
  status,     \* status of the job's document, "none" before there is one
  since,      \* when it was submitted
  attempts,   \* how often its push was delivered
  due,        \* when it is delivered next
  busyTill    \* when a worker's slot is free

vars == <<now, status, since, attempts, due, busyTill>>

(* The delay doubles, then grows by the last step, up to a limit.          *)
Backoff(n) ==
  LET doublings == Min({n - 1, MaxDoublings})
      steps     == n - doublings
  IN Min({MaxBackoff, MinBackoff * 2^doublings * steps})

Pending(j) == status[j] = "queued" /\ attempts[j] < MaxAttempts
Due(j) == Pending(j) /\ due[j] <= now
Free(w) == busyTill[w] <= now

(* A job is accepted while the backlog is below its limit.  A job whose    *)
(* push was dropped is part of the backlog, since its status is queued.    *)
Submit(j) ==
  /\ status[j] = "none" /\ now <= LastSubmission
  /\ Cardinality({k \in Job : status[k] = "queued"}) < MaxQueued
  /\ status' = [status EXCEPT ![j] = "queued"]
  /\ since' = [since EXCEPT ![j] = now]
  /\ due' = [due EXCEPT ![j] = now]
  /\ UNCHANGED <<now, attempts, busyTill>>

Taken(j, w) ==
  /\ Due(j) /\ Free(w)
  /\ status' = [status EXCEPT ![j] = "started"]
  /\ attempts' = [attempts EXCEPT ![j] = @ + 1]
  /\ busyTill' = [busyTill EXCEPT ![w] = now + JobTime]
  /\ UNCHANGED <<now, since, due>>

(* The worker a push is sent to is busy; the tenth answer is the last.     *)
Refused(j, w) ==
  /\ Due(j) /\ ~Free(w)
  /\ attempts' = [attempts EXCEPT ![j] = @ + 1]
  /\ due' = [due EXCEPT ![j] = now + Backoff(attempts'[j])]
  /\ UNCHANGED <<now, status, since, busyTill>>

(* Deliveries are made when they are due.                                  *)
Tick ==
  /\ now < MaxTime /\ \A j \in Job : ~Due(j)
  /\ now' = now + 1
  /\ UNCHANGED <<status, since, attempts, due, busyTill>>

Init ==
  /\ now = 0
  /\ status = [j \in Job |-> "none"] /\ since = [j \in Job |-> 0]
  /\ attempts = [j \in Job |-> 0] /\ due = [j \in Job |-> 0]
  /\ busyTill = [w \in Worker |-> 0]

Next ==
  \/ \E j \in Job : Submit(j)
  \/ \E j \in Job, w \in Worker : Taken(j, w) \/ Refused(j, w)
  \/ Tick

Spec == Init /\ [][Next]_vars
-----------------------------------------------------------------------------
(* quota.py: the limit on the backlog "doubles as the worst-case wait we   *)
(* are willing to promise", which is the limit times the time of a job.    *)
WaitIsKept == \A j \in Job : status[j] = "queued" => now - since[j] <= MaxQueued * JobTime
=============================================================================
