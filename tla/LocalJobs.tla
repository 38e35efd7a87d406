------------------------------ MODULE LocalJobs ------------------------------
(***************************************************************************)
(* The job service in local mode (meteor_stego/service/{app,dispatcher,    *)
(* worker,jobs}.py): one process, an in-memory store, and a dispatcher     *)
(* whose consumer task hands one job at a time to an executor of one       *)
(* thread.  The submissions and the consumer run on the event loop, so     *)
(* what they do between two awaits is one step; the thread is on its own.  *)
(*                                                                         *)
(* stop() and start() end and begin an application lifespan; each lifespan *)
(* has a queue and an executor of its own, the store outlives them.        *)
(***************************************************************************)
EXTENDS Integers, Sequences, SequencesExt

CONSTANTS
  Jobs, NoJob,
  MaxLifespans   \* lifespans of one process

ASSUME LocalAssumption == NoJob \notin Jobs /\ MaxLifespans \in Nat

VARIABLES
  status,    \* the store: status of each job
  result,    \* and whether it has a result
  lifespan,  \* number of the lifespan
  serving,   \* between start() and stop()
  queue,     \* dispatcher._queue
  awaits,    \* the job whose future the consumer awaits, NoJob while it waits for the queue
  threads,   \* jobs that run in an executor's thread
  outcome,   \* how the awaited future has ended: "none", "returned", "raised"
  submitted, started   \* history: the jobs in the order of their submission and of their start

vars == <<status, result, lifespan, serving, queue, awaits, threads, outcome, submitted, started>>

(* app.py: submit_encode, submit_decode.                                   *)
SubmitAhead(j) ==   \* mutant: the queue is a stack
  /\ serving /\ status[j] = "absent"
  /\ status' = [status EXCEPT ![j] = "queued"]
  /\ queue' = <<j>> \o queue
  /\ submitted' = Append(submitted, j)
  /\ UNCHANGED <<result, lifespan, serving, awaits, threads, outcome, started>>

Submit(j) ==
  /\ serving /\ status[j] = "absent"
  /\ status' = [status EXCEPT ![j] = "queued"]
  /\ queue' = Append(queue, j)
  /\ submitted' = Append(submitted, j)
  /\ UNCHANGED <<result, lifespan, serving, awaits, threads, outcome, started>>

(* dispatcher.py: _run up to the await.                                    *)
TakeWithoutAwait ==   \* mutant: the consumer does not wait for the thread
  /\ serving /\ queue # <<>>
  /\ status' = [status EXCEPT ![Head(queue)] = "running"]
  /\ queue' = Tail(queue)
  /\ awaits' = Head(queue) /\ outcome' = "none"
  /\ threads' = threads \cup {Head(queue)}
  /\ started' = Append(started, Head(queue))
  /\ UNCHANGED <<result, lifespan, serving, submitted>>

TakeUnmarked ==   \* mutant: mark_running is not called
  /\ serving /\ awaits = NoJob /\ queue # <<>>
  /\ queue' = Tail(queue)
  /\ awaits' = Head(queue) /\ outcome' = "none"
  /\ threads' = threads \cup {Head(queue)}
  /\ started' = Append(started, Head(queue))
  /\ UNCHANGED <<status, result, lifespan, serving, submitted>>

Take ==
  /\ serving /\ awaits = NoJob /\ queue # <<>>
  /\ status' = [status EXCEPT ![Head(queue)] = "running"]
  /\ queue' = Tail(queue)
  /\ awaits' = Head(queue) /\ outcome' = "none"
  /\ threads' = threads \cup {Head(queue)}
  /\ started' = Append(started, Head(queue))
  /\ UNCHANGED <<result, lifespan, serving, submitted>>

(* worker.py: run_encode or run_decode ends with set_done, or raises.      *)
ThreadReturns(j) ==
  /\ j \in threads
  /\ status' = [status EXCEPT ![j] = "done"]
  /\ result' = [result EXCEPT ![j] = TRUE]
  /\ threads' = threads \ {j}
  /\ outcome' = IF awaits = j THEN "returned" ELSE outcome
  /\ UNCHANGED <<lifespan, serving, queue, awaits, submitted, started>>

ThreadRaises(j) ==
  /\ j \in threads
  /\ threads' = threads \ {j}
  /\ outcome' = IF awaits = j THEN "raised" ELSE outcome
  /\ UNCHANGED <<status, result, lifespan, serving, queue, awaits, submitted, started>>

(* dispatcher.py: _run from the await on.                                  *)
ResumeSilently ==   \* mutant: the exception is swallowed
  /\ serving /\ outcome # "none"
  /\ awaits' = NoJob /\ outcome' = "none"
  /\ UNCHANGED <<status, result, lifespan, serving, queue, threads, submitted, started>>

Resume ==
  /\ serving /\ outcome # "none"
  /\ status' = IF outcome = "raised" THEN [status EXCEPT ![awaits] = "failed"] ELSE status
  /\ awaits' = NoJob /\ outcome' = "none"
  /\ UNCHANGED <<result, lifespan, serving, queue, threads, submitted, started>>

(* dispatcher.py: stop() cancels the consumer wherever it awaits, and the  *)
(* job it handed over if the thread has not begun it yet; it does not wait *)
(* for a thread that has.                                                  *)
StopRecorded ==   \* mutant: the cancellation counts as an outcome
  /\ serving
  /\ serving' = FALSE
  /\ awaits' = NoJob /\ outcome' = "cancelled"
  /\ UNCHANGED <<status, result, lifespan, queue, threads, submitted, started>>

Stop ==
  /\ serving
  /\ serving' = FALSE
  /\ awaits' = NoJob /\ outcome' = "none"
  /\ threads' \in {threads, threads \ {awaits}}
  /\ UNCHANGED <<status, result, lifespan, queue, submitted, started>>

Start ==
  /\ ~serving /\ lifespan < MaxLifespans
  /\ serving' = TRUE /\ lifespan' = lifespan + 1
  /\ queue' = <<>>
  /\ UNCHANGED <<status, result, awaits, threads, outcome, submitted, started>>

-----------------------------------------------------------------------------
Init ==
  /\ status = [j \in Jobs |-> "absent"]
  /\ result = [j \in Jobs |-> FALSE]
  /\ lifespan = 0 /\ serving = FALSE
  /\ queue = <<>> /\ awaits = NoJob /\ threads = {} /\ outcome = "none"
  /\ submitted = <<>> /\ started = <<>>

Next ==
  \/ \E j \in Jobs : Submit(j) \/ ThreadReturns(j) \/ ThreadRaises(j)
  \/ Take \/ Resume \/ Stop \/ Start

Spec == Init /\ [][Next]_vars

(* The event loop runs what is ready, and a run ends (max_steps requests,  *)
(* each with a timeout).                                                   *)
FairSpec ==
  /\ Spec
  /\ WF_vars(Take) /\ WF_vars(Resume)
  /\ \A j \in Jobs : WF_vars(ThreadReturns(j) \/ ThreadRaises(j))
-----------------------------------------------------------------------------
(* The dispatcher's locals have their types, a job is queued once, and     *)
(* what is queued or running says so in the store.                         *)
TypeOK ==
  /\ status \in [Jobs -> {"absent", "queued", "running", "done", "failed"}]
  /\ result \in [Jobs -> BOOLEAN]
  /\ lifespan \in 0..MaxLifespans /\ serving \in BOOLEAN
  /\ queue \in Seq(Jobs)
  /\ awaits \in Jobs \cup {NoJob} /\ threads \in SUBSET Jobs
  /\ outcome \in {"none", "returned", "raised"}
  /\ submitted \in Seq(Jobs) /\ started \in Seq(Jobs)

(* dispatcher.py: exactly one encode or decode may run at a time, because  *)
(* llama-server has one client slot.  (A thread that stop() left running   *)
(* has company in the next lifespan.)                                      *)
OneAtATime == lifespan <= 1 => \A j, k \in threads : j = k

(* dispatcher.py: submitted jobs are processed in order, in a lifespan     *)
(* that has not inherited jobs from another one.                           *)
InOrder == lifespan <= 1 => IsPrefix(started, submitted)

InQueue(j) == \E i \in DOMAIN queue : queue[i] = j

(* What is in the queue is what the store calls queued; of the jobs of an  *)
(* earlier lifespan the queue knows nothing.                               *)
QueueMatchesStore ==
  \A j \in Jobs : /\ InQueue(j) => status[j] = "queued"
                  /\ lifespan <= 1 /\ status[j] = "queued" => InQueue(j)

(* jobs.py: queued, running, then done or failed, each once, with a result *)
(* just if done, whatever the lifespans of the process.                    *)
Lifecycle == INSTANCE JobLifecycle

KeepsStages == Lifecycle!Safe

(* A job that is in the queue ends, unless the service is stopped.         *)
QueuedJobsEnd ==
  \A j \in Jobs : InQueue(j) ~> (status[j] \in {"done", "failed"} \/ ~serving)
=============================================================================
