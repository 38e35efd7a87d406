------------------------------ MODULE CloudJobs ------------------------------
(***************************************************************************)
(* The job service in GCP mode (meteor_stego/service/gcp): front-ends that *)
(* write a job to the store and enqueue a push for it, Cloud Tasks, which  *)
(* delivers a push at least once, and workers that run one job at a time   *)
(* and acknowledge the push before the job is done.                        *)
(*                                                                         *)
(* A worker process has three flows of control: the request handler on the *)
(* event loop, the thread that runs the job, and the SIGTERM handler,      *)
(* which runs in place of the event loop.  A call to the store or to the   *)
(* queue is one step, and so is each assignment to what the flows share.   *)
(***************************************************************************)
EXTENDS Integers, FiniteSets

CONSTANTS
  Jobs, Workers, NoJob,
  MaxDuplicates,    \* pushes Cloud Tasks delivers once more than it has to
  MaxTerminations,  \* SIGTERMs: preemption, scale-down, rollout
  MaxCrashes,       \* processes that end without a SIGTERM
  MaxErrors         \* calls to the store or the queue that raise

ASSUME CloudAssumption ==
  /\ NoJob \notin Jobs
  /\ {MaxDuplicates, MaxTerminations, MaxCrashes, MaxErrors} \subseteq Nat

ASSUME WorkersFinite == IsFiniteSet(Workers)

VARIABLES
  doc,       \* Firestore: each job's [status, payload, result]; payload and result say whether it has one
  client,    \* the submission of each job: "none", "created", then "accepted" (202) or "refused" (500)
  pushes,    \* Cloud Tasks: deliveries still to be made for each job
  handler,   \* run(): [pc, job, payload], payload as store.get returned it
  thread,    \* _work(): [pc, job, payload]
  slot,      \* app.state.slot is held
  inflight,  \* app.state.inflight
  signal,    \* the SIGTERM handler: [pc, job]
  life,      \* the process: "up", "draining" after SIGTERM, "down"
  lost,      \* history: jobs a recovery queued and did not enqueue
  stranded,  \* history: jobs a fault left in state running with nobody to run them
  runs,      \* history: how often each worker started each job
  spent      \* history: how much of each bound has been used

service == <<doc, client, pushes>>
worker == <<handler, thread, slot, inflight, signal, life>>
history == <<lost, stranded, runs>>
vars == <<doc, client, pushes, handler, thread, slot, inflight, signal, life, history, spent>>

Statuses == {"absent", "queued", "running", "done", "failed"}
Idle == [pc |-> "idle", job |-> NoJob, payload |-> FALSE]
NoSignal == [pc |-> "none", job |-> NoJob]
Bounds == {"duplicates", "terminations", "crashes", "errors"}

Spend(what) ==
  /\ spent[what] < CASE what = "duplicates"   -> MaxDuplicates
                     [] what = "terminations" -> MaxTerminations
                     [] what = "crashes"      -> MaxCrashes
                     [] what = "errors"       -> MaxErrors
  /\ spent' = [spent EXCEPT ![what] = @ + 1]

(***************************************************************************)
(* frontend_app.py: _submit creates the document, then enqueues.           *)
(***************************************************************************)
Create(j) ==
  /\ client[j] = "none"
  /\ client' = [client EXCEPT ![j] = "created"]
  /\ doc' = [doc EXCEPT ![j] = [status |-> "queued", payload |-> TRUE, result |-> FALSE]]
  /\ UNCHANGED <<pushes, worker, history, spent>>

EnqueueTwice(j) ==   \* mutant: a retry of the call without the task name that dedupes it
  /\ client[j] = "created"
  /\ client' = [client EXCEPT ![j] = "accepted"]
  /\ pushes' = [pushes EXCEPT ![j] = @ + 2]
  /\ UNCHANGED <<doc, worker, history, spent>>

Enqueue(j) ==
  /\ client[j] = "created"
  /\ client' = [client EXCEPT ![j] = "accepted"]
  /\ pushes' = [pushes EXCEPT ![j] = @ + 1]
  /\ UNCHANGED <<doc, worker, history, spent>>

(* create_task raises, and may have created the task all the same: a 500.  *)
EnqueueFails(j) ==
  /\ client[j] = "created" /\ Spend("errors")
  /\ client' = [client EXCEPT ![j] = "refused"]
  /\ \/ UNCHANGED pushes
     \/ pushes' = [pushes EXCEPT ![j] = @ + 1]
  /\ UNCHANGED <<doc, worker, history>>

(***************************************************************************)
(* Cloud Tasks: a delivery is made to a worker that is up; a job may be    *)
(* delivered again though it has been, or is being, delivered.  A worker   *)
(* whose slot is held answers 429, which leaves everything as it is.       *)
(***************************************************************************)
Deliver(w, j) ==
  /\ pushes[j] > 0 /\ life[w] = "up" /\ handler[w].pc = "idle" /\ ~slot[w]
  /\ pushes' = [pushes EXCEPT ![j] = @ - 1]
  /\ slot' = [slot EXCEPT ![w] = TRUE]
  /\ handler' = [handler EXCEPT ![w] = [pc |-> "get", job |-> j, payload |-> FALSE]]
  /\ UNCHANGED <<doc, client, thread, inflight, signal, life, history, spent>>

Duplicate(j) ==
  /\ client[j] = "accepted" /\ Spend("duplicates")
  /\ pushes' = [pushes EXCEPT ![j] = @ + 1]
  /\ UNCHANGED <<doc, client, worker, history>>

(***************************************************************************)
(* worker_app.py: run().  The event loop stands still in a SIGTERM handler. *)
(***************************************************************************)
Runs(w, pc) == handler[w].pc = pc /\ signal[w].pc = "none"

GetUnchecked(w) ==   \* mutant: the status is not checked
  LET j == handler[w].job
  IN /\ Runs(w, "get")
     /\ handler' = [handler EXCEPT ![w] = [pc |-> "mark", job |-> j, payload |-> doc[j].payload]]
     /\ UNCHANGED <<service, thread, slot, inflight, signal, life, history, spent>>

GetQueued(w) ==
  LET j == handler[w].job
  IN /\ Runs(w, "get") /\ doc[j].status = "queued"
     /\ handler' = [handler EXCEPT ![w] = [pc |-> "mark", job |-> j, payload |-> doc[j].payload]]
     /\ UNCHANGED <<service, thread, slot, inflight, signal, life, history, spent>>

AlreadyHandledKeepsSlot(w) ==   \* mutant: the early return does not release the slot
  /\ Runs(w, "get") /\ doc[handler[w].job].status # "queued"
  /\ handler' = [handler EXCEPT ![w] = Idle]
  /\ UNCHANGED <<service, thread, slot, inflight, signal, life, history, spent>>

(* Anything past queued was already picked up: 200, and the slot is free.  *)
AlreadyHandled(w) ==
  /\ Runs(w, "get") /\ doc[handler[w].job].status # "queued"
  /\ slot' = [slot EXCEPT ![w] = FALSE]
  /\ handler' = [handler EXCEPT ![w] = Idle]
  /\ UNCHANGED <<service, thread, inflight, signal, life, history, spent>>

(* After SIGTERM this is too late for the recovery, which has come and     *)
(* found nothing in flight.                                                *)
MarkRunning(w) ==
  /\ Runs(w, "mark")
  /\ doc' = [doc EXCEPT ![handler[w].job].status = "running"]
  /\ handler' = [handler EXCEPT ![w].pc = "note"]
  /\ stranded' = IF life[w] = "up" THEN stranded ELSE stranded \cup {handler[w].job}
  /\ UNCHANGED <<client, pushes, thread, slot, inflight, signal, life, lost, runs, spent>>

(* store.get or store.mark_running raises; the update may be in the store  *)
(* all the same.  The answer is a 500 and Cloud Tasks delivers again, to a *)
(* worker that takes a job in state running for handled.                   *)
RunRaises(w) ==
  LET j == handler[w].job
  IN /\ Runs(w, "get") \/ Runs(w, "mark")
     /\ Spend("errors")
     /\ \/ UNCHANGED <<doc, stranded>>
        \/ /\ Runs(w, "mark")
           /\ doc' = [doc EXCEPT ![j].status = "running"]
           /\ stranded' = stranded \cup {j}
     /\ pushes' = [pushes EXCEPT ![j] = @ + 1]
     /\ slot' = [slot EXCEPT ![w] = FALSE]
     /\ handler' = [handler EXCEPT ![w] = Idle]
     /\ UNCHANGED <<client, thread, inflight, signal, life, lost, runs>>

NoteNothing(w) ==   \* mutant: what runs is not recorded for the recovery
  /\ Runs(w, "note")
  /\ handler' = [handler EXCEPT ![w].pc = "reply"]
  /\ UNCHANGED <<service, thread, slot, inflight, signal, life, history, spent>>

NoteInflight(w) ==
  /\ Runs(w, "note")
  /\ inflight' = [inflight EXCEPT ![w] = handler[w].job]
  /\ handler' = [handler EXCEPT ![w].pc = "reply"]
  /\ UNCHANGED <<service, thread, slot, signal, life, history, spent>>

(* The 200 is sent, then the background task starts.                       *)
Reply(w) ==
  /\ Runs(w, "reply")
  /\ thread' = [thread EXCEPT ![w] = [handler[w] EXCEPT !.pc = "run"]]
  /\ handler' = [handler EXCEPT ![w] = Idle]
  /\ runs' = [runs EXCEPT ![w][handler[w].job] = @ + 1]
  /\ UNCHANGED <<service, slot, inflight, signal, life, lost, stranded, spent>>

(***************************************************************************)
(* worker_app.py: _work(), in the thread pool.  Without a payload the      *)
(* request cannot be built and the run fails; any other run may fail, too. *)
(* What raises, set_done included, is followed by set_failed.              *)
(***************************************************************************)
RunSucceeds(w) ==
  /\ thread[w].pc = "run" /\ thread[w].payload
  /\ doc' = [doc EXCEPT ![thread[w].job] = [status |-> "done", payload |-> FALSE, result |-> TRUE]]
  /\ thread' = [thread EXCEPT ![w].pc = "clear"]
  /\ UNCHANGED <<client, pushes, handler, slot, inflight, signal, life, history, spent>>

(* set_done raises; the store may have the result all the same.            *)
DoneRaises(w) ==
  LET j == thread[w].job
  IN /\ thread[w].pc = "run" /\ thread[w].payload /\ Spend("errors")
     /\ \/ UNCHANGED doc
        \/ doc' = [doc EXCEPT ![j] = [status |-> "done", payload |-> FALSE, result |-> TRUE]]
     /\ thread' = [thread EXCEPT ![w].pc = "fail"]
     /\ UNCHANGED <<client, pushes, handler, slot, inflight, signal, life, history>>

RunFailsKeepsPayload(w) ==   \* mutant: set_failed does not drop the payload
  /\ thread[w].pc \in {"run", "fail"}
  /\ doc' = [doc EXCEPT ![thread[w].job].status = "failed"]
  /\ thread' = [thread EXCEPT ![w].pc = "clear"]
  /\ UNCHANGED <<client, pushes, handler, slot, inflight, signal, life, history, spent>>

RunFails(w) ==
  LET j == thread[w].job
  IN /\ thread[w].pc \in {"run", "fail"}
     /\ doc' = [doc EXCEPT ![j] = [status |-> "failed", payload |-> FALSE, result |-> @.result]]
     /\ thread' = [thread EXCEPT ![w].pc = "clear"]
     /\ UNCHANGED <<client, pushes, handler, slot, inflight, signal, life, history, spent>>

(* set_failed raises: the job stays as it is.                              *)
RunUnrecorded(w) ==
  /\ thread[w].pc \in {"run", "fail"} /\ Spend("errors")
  /\ thread' = [thread EXCEPT ![w].pc = "clear"]
  /\ stranded' = stranded \cup {thread[w].job}
  /\ UNCHANGED <<service, handler, slot, inflight, signal, life, lost, runs>>

ClearInflight(w) ==
  /\ thread[w].pc = "clear"
  /\ inflight' = [inflight EXCEPT ![w] = NoJob]
  /\ thread' = [thread EXCEPT ![w].pc = "release"]
  /\ UNCHANGED <<service, handler, slot, signal, life, history, spent>>

ReleaseSlot(w) ==
  /\ thread[w].pc = "release"
  /\ slot' = [slot EXCEPT ![w] = FALSE]
  /\ thread' = [thread EXCEPT ![w] = Idle]
  /\ UNCHANGED <<service, handler, inflight, signal, life, history, spent>>

(***************************************************************************)
(* worker_app.py: SIGTERM.  recover_inflight() runs first, then uvicorn's  *)
(* handler, which takes no more requests and lets what runs come to its    *)
(* end, as far as the grace period allows.                                 *)
(***************************************************************************)
Sigterm(w) ==
  /\ life[w] = "up" /\ Spend("terminations")
  /\ life' = [life EXCEPT ![w] = "draining"]
  /\ signal' = [signal EXCEPT ![w] = IF inflight[w] = NoJob THEN NoSignal
                                     ELSE [pc |-> "get", job |-> inflight[w]]]
  /\ stranded' = IF handler[w].pc = "note" THEN stranded \cup {handler[w].job} ELSE stranded
  /\ UNCHANGED <<service, handler, thread, slot, inflight, lost, runs>>

RecoverGet(w) ==
  /\ signal[w].pc = "get"
  /\ signal' = [signal EXCEPT ![w] = IF doc[signal[w].job].status = "running"
                                     THEN [@ EXCEPT !.pc = "requeue"] ELSE NoSignal]
  /\ UNCHANGED <<service, handler, thread, slot, inflight, life, history, spent>>

RecoverMarkQueued(w) ==
  /\ signal[w].pc = "requeue"
  /\ doc' = [doc EXCEPT ![signal[w].job].status = "queued"]
  /\ signal' = [signal EXCEPT ![w].pc = "enqueue"]
  /\ UNCHANGED <<client, pushes, handler, thread, slot, inflight, life, history, spent>>

RecoverEnqueueNamed(w) ==   \* mutant: the name job_id is used again, and Cloud Tasks refuses it
  /\ signal[w].pc = "enqueue"
  /\ signal' = [signal EXCEPT ![w] = NoSignal]
  /\ UNCHANGED <<service, handler, thread, slot, inflight, life, history, spent>>

RecoverEnqueue(w) ==
  /\ signal[w].pc = "enqueue"
  /\ pushes' = [pushes EXCEPT ![signal[w].job] = @ + 1]
  /\ signal' = [signal EXCEPT ![w] = NoSignal]
  /\ UNCHANGED <<doc, client, handler, thread, slot, inflight, life, history, spent>>

(* Whatever raises in there is logged and forgotten; mark_queued may have  *)
(* reached the store all the same.                                         *)
RecoverRaises(w) ==
  LET j == signal[w].job
  IN /\ signal[w].pc # "none" /\ Spend("errors")
     /\ signal' = [signal EXCEPT ![w] = NoSignal]
     /\ \/ /\ signal[w].pc \in {"get", "requeue"}
           /\ stranded' = stranded \cup {j}
           /\ UNCHANGED <<doc, lost>>
        \/ /\ signal[w].pc = "requeue"
           /\ doc' = [doc EXCEPT ![j].status = "queued"]
           /\ lost' = lost \cup {j}
           /\ UNCHANGED stranded
        \/ /\ signal[w].pc = "enqueue"
           /\ lost' = lost \cup {j}
           /\ UNCHANGED <<doc, stranded>>
     /\ UNCHANGED <<client, pushes, handler, thread, slot, inflight, life, runs>>

(* The process ends: what it had in memory is gone, and a request it had   *)
(* not answered is delivered again.                                        *)
Vanish(w) ==
  /\ life' = [life EXCEPT ![w] = "down"]
  /\ handler' = [handler EXCEPT ![w] = Idle]
  /\ thread' = [thread EXCEPT ![w] = Idle]
  /\ slot' = [slot EXCEPT ![w] = FALSE]
  /\ inflight' = [inflight EXCEPT ![w] = NoJob]
  /\ signal' = [signal EXCEPT ![w] = NoSignal]
  /\ pushes' = [j \in Jobs |-> pushes[j] + IF handler[w].job = j THEN 1 ELSE 0]
  /\ lost' = IF signal[w].pc = "enqueue" THEN lost \cup {signal[w].job} ELSE lost
  /\ UNCHANGED <<doc, client, runs>>

(* A worker that has not been told to stop looks after the job it is about *)
(* to run or runs, and a recovery after the one it has not yet queued.     *)
LooksAfter(w, j) ==
  \/ /\ life[w] = "up"
     /\ \/ handler[w].job = j /\ handler[w].pc \in {"note", "reply"}
        \/ thread[w].job = j /\ thread[w].pc \in {"run", "fail"}
  \/ signal[w].job = j /\ signal[w].pc \in {"get", "requeue"}

(* A draining process ends at the latest when the grace period is over,    *)
(* which is long enough for a request and the recovery, not for a job.     *)
Exit(w) ==
  /\ life[w] = "draining" /\ handler[w].pc = "idle" /\ signal[w].pc = "none"
  /\ Vanish(w)
  /\ UNCHANGED <<stranded, spent>>

Crash(w) ==
  /\ life[w] # "down" /\ Spend("crashes")
  /\ Vanish(w)
  /\ stranded' = stranded \cup {j \in Jobs : doc[j].status = "running" /\ LooksAfter(w, j)}

(* The deployment puts a new process in its place.                         *)
Restart(w) ==
  /\ life[w] = "down"
  /\ life' = [life EXCEPT ![w] = "up"]
  /\ UNCHANGED <<service, handler, thread, slot, inflight, signal, history, spent>>

-----------------------------------------------------------------------------
Init ==
  /\ doc = [j \in Jobs |-> [status |-> "absent", payload |-> FALSE, result |-> FALSE]]
  /\ client = [j \in Jobs |-> "none"]
  /\ pushes = [j \in Jobs |-> 0]
  /\ handler = [w \in Workers |-> Idle]
  /\ thread = [w \in Workers |-> Idle]
  /\ slot = [w \in Workers |-> FALSE]
  /\ inflight = [w \in Workers |-> NoJob]
  /\ signal = [w \in Workers |-> NoSignal]
  /\ life = [w \in Workers |-> "up"]
  /\ lost = {} /\ stranded = {}
  /\ runs = [w \in Workers |-> [j \in Jobs |-> 0]]
  /\ spent = [what \in Bounds |-> 0]

Submission(j) == Create(j) \/ Enqueue(j) \/ EnqueueFails(j)

Handling(w) ==
  \/ GetQueued(w) \/ AlreadyHandled(w) \/ MarkRunning(w)
  \/ RunRaises(w) \/ NoteInflight(w) \/ Reply(w)

Working(w) ==
  \/ RunSucceeds(w) \/ RunFails(w) \/ DoneRaises(w)
  \/ RunUnrecorded(w) \/ ClearInflight(w) \/ ReleaseSlot(w)

Recovering(w) ==
  \/ RecoverGet(w) \/ RecoverMarkQueued(w) \/ RecoverEnqueue(w) \/ RecoverRaises(w)

Next ==
  \/ \E j \in Jobs : Submission(j) \/ Duplicate(j) \/ (\E w \in Workers : Deliver(w, j))
  \/ \E w \in Workers : \/ Handling(w) \/ Working(w) \/ Recovering(w)
                        \/ Sigterm(w) \/ Exit(w) \/ Crash(w) \/ Restart(w)

Spec == Init /\ [][Next]_vars

(* A front-end that has created a job goes on to enqueue it, a process     *)
(* takes the steps of its three flows, a run ends (max_steps requests,     *)
(* each with a timeout), Cloud Tasks keeps delivering what a free worker   *)
(* would take, and the deployment replaces a process that ended.           *)
Fairness ==
  /\ \A j \in Jobs : WF_vars(Submission(j))
  /\ \A w \in Workers :
       /\ WF_vars(Handling(w)) /\ WF_vars(Working(w)) /\ WF_vars(Recovering(w))
       /\ WF_vars(Restart(w))
  /\ \A j \in Jobs : WF_vars(\E w \in Workers : Deliver(w, j))

FairSpec == Spec /\ Fairness
-----------------------------------------------------------------------------
DocState == [status : Statuses, payload : BOOLEAN, result : BOOLEAN]
HandlerState == {Idle} \cup [pc : {"get", "mark", "note", "reply"}, job : Jobs, payload : BOOLEAN]
ThreadState == {Idle} \cup [pc : {"run", "fail", "clear", "release"}, job : Jobs, payload : BOOLEAN]
SignalState == {NoSignal} \cup [pc : {"get", "requeue", "enqueue"}, job : Jobs]

(* The records of every flow of control have their types: none is at work  *)
(* without a job, and a job it no longer works on is not kept.             *)
TypeOK ==
  /\ doc \in [Jobs -> DocState]
  /\ client \in [Jobs -> {"none", "created", "accepted", "refused"}]
  /\ pushes \in [Jobs -> Nat]
  /\ handler \in [Workers -> HandlerState]
  /\ thread \in [Workers -> ThreadState]
  /\ slot \in [Workers -> BOOLEAN]
  /\ inflight \in [Workers -> Jobs \cup {NoJob}]
  /\ signal \in [Workers -> SignalState]
  /\ life \in [Workers -> {"up", "draining", "down"}]
  /\ lost \subseteq Jobs /\ stranded \subseteq Jobs
  /\ runs \in [Workers -> [Jobs -> Nat]]
  /\ spent \in [Bounds -> Nat]

(* One decode slot per worker: it is held exactly while a push is being    *)
(* handled or a job is running, never by both, and someone is always left  *)
(* to release it, or the worker would answer 429 for ever.                 *)
SlotHasOneHolder ==
  \A w \in Workers :
    /\ slot[w] <=> (handler[w].pc # "idle" \/ thread[w].pc # "idle")
    /\ handler[w].pc = "idle" \/ thread[w].pc = "idle"

PushOnItsWay(j) ==
  \/ pushes[j] > 0
  \/ \E w \in Workers : \/ handler[w].job = j /\ handler[w].pc \in {"get", "mark"}
                        \/ signal[w].job = j /\ signal[w].pc = "enqueue"

(* An accepted job that waits has a push on its way, from the front-end or *)
(* from the recovery of a worker, unless that recovery was cut short.       *)
QueuedHasPush ==
  \A j \in Jobs :
    client[j] = "accepted" /\ doc[j].status = "queued" /\ j \notin lost => PushOnItsWay(j)

(* jobs.py: the payload is kept while a job can still run and no longer. A *)
(* finished job has none, and a job that waits for a worker has one.       *)
PayloadWhileRunnable ==
  \A j \in Jobs : /\ doc[j].status \in {"done", "failed"} => ~doc[j].payload
                  /\ doc[j].status = "queued" => doc[j].payload

(* worker_app.py: a job in state running is in the hands of a worker that  *)
(* was not told to stop, or of a recovery that is about to queue it again. *)
(* Jobs are left in that state for good by a fault between two calls and   *)
(* by nothing else: a crash, a call that raises, or a SIGTERM that comes   *)
(* after the request has passed the status check and before it is noted.   *)
RunningHasRunner ==
  \A j \in Jobs : doc[j].status = "running" /\ j \notin stranded => \E w \in Workers : LooksAfter(w, j)

(* cloud_tasks.py and worker_app.py: the status check dedupes redelivery.  *)
(* However often a push is delivered, and whatever fails, a worker runs a  *)
(* job once, and once more at most for each SIGTERM, whose recovery makes  *)
(* the job pass the check again.                                           *)
RunsBounded == \A w \in Workers, j \in Jobs : runs[w][j] <= 1 + spent["terminations"]

(* worker_app.py: a job that finished before the recovery gets to it is    *)
(* left untouched.                                                         *)
FinishedIsFinal ==
  [][\A j \in Jobs : doc[j].status = "done" => doc'[j].status = "done"]_doc

(* jobs.py: queued, running, then done or failed, each once, with a result *)
(* just if done; and every job that is queued comes to its end.            *)
Lifecycle ==
  INSTANCE JobLifecycle WITH status <- [j \in Jobs |-> doc[j].status],
                             result <- [j \in Jobs |-> doc[j].result]

KeepsLifecycle == Lifecycle!Spec

(* Every job a client was promised ends, and is not taken up again for     *)
(* ever, however often its push is delivered.                              *)
EveryAcceptedJobEnds ==
  \A j \in Jobs : client[j] = "accepted" ~> [](doc[j].status \in {"done", "failed"})
=============================================================================
