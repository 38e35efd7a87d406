-------------------------- MODULE CloudJobsProofs --------------------------
(***************************************************************************)
(* For any number of jobs and workers, and any number of redeliveries,     *)
(* terminations, crashes and failing calls: a worker's slot has one        *)
(* holder, a job that waits has a push on its way, a running job has a     *)
(* worker, and a worker runs a job once, and once more per SIGTERM.  And   *)
(* what else holds when some of these faults are left out: the payload     *)
(* while it is needed, the stages of the abstract lifecycle.               *)
(***************************************************************************)
EXTENDS CloudJobs, FiniteSetTheorems, TLAPS

IInv == TypeOK /\ SlotHasOneHolder /\ QueuedHasPush

(* A recovery runs only after SIGTERM, so SIGTERM cuts none short.         *)
RecoversWhileDraining == \A w \in Workers : signal[w].pc # "none" => life[w] = "draining"

(***************************************************************************)
(* The records of a flow of control.  One that is not idle has a job.      *)
(***************************************************************************)
LEMMA HandlerBusy ==
  ASSUME TypeOK, NEW w \in Workers, handler[w].pc # "idle"
  PROVE  /\ handler[w] \in [pc : {"get", "mark", "note", "reply"}, job : Jobs, payload : BOOLEAN]
         /\ handler[w].job \in Jobs
BY DEF TypeOK, HandlerState, Idle

LEMMA ThreadBusy ==
  ASSUME TypeOK, NEW w \in Workers, thread[w].pc # "idle"
  PROVE  /\ thread[w] \in [pc : {"run", "fail", "clear", "release"}, job : Jobs, payload : BOOLEAN]
         /\ thread[w].job \in Jobs
BY DEF TypeOK, ThreadState, Idle

LEMMA IdleHasNoJob ==
  ASSUME TypeOK, NEW w \in Workers
  PROVE  /\ NoJob \notin Jobs
         /\ handler[w].pc = "idle" => handler[w].job = NoJob
         /\ thread[w].pc = "idle" => thread[w].job = NoJob
<1>1. NoJob \notin Jobs
  BY CloudAssumption
<1> QED BY <1>1 DEF TypeOK, HandlerState, ThreadState, Idle

LEMMA SignalBusy ==
  ASSUME TypeOK, NEW w \in Workers, signal[w].pc # "none"
  PROVE  /\ signal[w] \in [pc : {"get", "requeue", "enqueue"}, job : Jobs]
         /\ signal[w].job \in Jobs
BY DEF TypeOK, SignalState, NoSignal

(* A flow that moves on keeps its job; a job that moves on keeps the rest. *)
LEMMA HandlerTo ==
  ASSUME TypeOK, NEW w \in Workers, handler[w].pc # "idle", NEW c
  PROVE  [handler[w] EXCEPT !.pc = c]
           = [pc |-> c, job |-> handler[w].job, payload |-> handler[w].payload]
BY HandlerBusy

LEMMA ThreadTo ==
  ASSUME TypeOK, NEW w \in Workers, thread[w].pc # "idle", NEW c
  PROVE  [thread[w] EXCEPT !.pc = c]
           = [pc |-> c, job |-> thread[w].job, payload |-> thread[w].payload]
BY ThreadBusy

LEMMA SignalTo ==
  ASSUME TypeOK, NEW w \in Workers, signal[w].pc # "none", NEW c
  PROVE  [signal[w] EXCEPT !.pc = c] = [pc |-> c, job |-> signal[w].job]
BY SignalBusy

LEMMA DocTo ==
  ASSUME TypeOK, NEW j \in Jobs, NEW c
  PROVE  [doc[j] EXCEPT !.status = c]
           = [status |-> c, payload |-> doc[j].payload, result |-> doc[j].result]
BY DEF TypeOK, DocState

LEMMA ExceptType ==
  ASSUME NEW S, NEW T, NEW f \in [S -> T], NEW x \in S, NEW e \in T
  PROVE  [f EXCEPT ![x] = e] \in [S -> T]
OBVIOUS

(* What a bound has been used for stays a number.                          *)
LEMMA SpendType ==
  ASSUME TypeOK, NEW what \in Bounds, Spend(what)
  PROVE  spent' \in [Bounds -> Nat]
BY DEF TypeOK, Spend

(***************************************************************************)
(* The initial state.                                                      *)
(***************************************************************************)
LEMMA InitIInv == Init => IInv
<1> SUFFICES ASSUME Init PROVE IInv
  OBVIOUS
<1>1. TypeOK
  BY DEF Init, TypeOK, DocState, HandlerState, ThreadState, SignalState, Statuses
<1>2. SlotHasOneHolder
  BY DEF Init, SlotHasOneHolder, Idle
<1>3. QueuedHasPush
  BY DEF Init, QueuedHasPush
<1> QED BY <1>1, <1>2, <1>3 DEF IInv

(***************************************************************************)
(* The front-end and Cloud Tasks.                                          *)
(***************************************************************************)
LEMMA CreateIInv ==
  ASSUME IInv, NEW j \in Jobs, Create(j)
  PROVE  IInv'
<1> USE DEF IInv, Create, worker, history
<1>1. TypeOK'
  BY DEF TypeOK, DocState, Statuses
<1>2. SlotHasOneHolder'
  BY DEF SlotHasOneHolder
<1>3. QueuedHasPush'
  BY DEF QueuedHasPush, PushOnItsWay, TypeOK
<1> QED BY <1>1, <1>2, <1>3

LEMMA EnqueueIInv ==
  ASSUME IInv, NEW j \in Jobs, Enqueue(j)
  PROVE  IInv'
<1> USE DEF IInv, Enqueue, worker, history
<1>1. TypeOK'
  BY DEF TypeOK
<1>2. SlotHasOneHolder'
  BY DEF SlotHasOneHolder
<1>3. QueuedHasPush'
  BY DEF QueuedHasPush, PushOnItsWay, TypeOK
<1> QED BY <1>1, <1>2, <1>3

LEMMA EnqueueFailsIInv ==
  ASSUME IInv, NEW j \in Jobs, EnqueueFails(j)
  PROVE  IInv'
<1> USE DEF IInv, EnqueueFails, worker, history
<1>1. TypeOK'
  <2>1. spent' \in [Bounds -> Nat]
    BY SpendType DEF Bounds
  <2> QED BY <2>1 DEF TypeOK
<1>2. SlotHasOneHolder'
  BY DEF SlotHasOneHolder
<1>3. QueuedHasPush'
  BY DEF QueuedHasPush, PushOnItsWay, TypeOK
<1> QED BY <1>1, <1>2, <1>3

LEMMA DuplicateIInv ==
  ASSUME IInv, NEW j \in Jobs, Duplicate(j)
  PROVE  IInv'
<1> USE DEF IInv, Duplicate, worker, history
<1>1. TypeOK'
  BY SpendType DEF TypeOK, Bounds
<1>2. SlotHasOneHolder'
  BY DEF SlotHasOneHolder
<1>3. QueuedHasPush'
  BY DEF QueuedHasPush, PushOnItsWay, TypeOK
<1> QED BY <1>1, <1>2, <1>3

LEMMA DeliverIInv ==
  ASSUME IInv, NEW w \in Workers, NEW j \in Jobs, Deliver(w, j)
  PROVE  IInv'
<1> USE DEF IInv, Deliver
<1>1. TypeOK'
  BY DEF TypeOK, HandlerState, history
<1>2. SlotHasOneHolder'
  BY DEF SlotHasOneHolder, TypeOK
<1>3. QueuedHasPush'
  BY DEF QueuedHasPush, PushOnItsWay, TypeOK, history
<1> QED BY <1>1, <1>2, <1>3

(***************************************************************************)
(* The request handler.                                                    *)
(***************************************************************************)
LEMMA GetQueuedIInv ==
  ASSUME IInv, NEW w \in Workers, GetQueued(w)
  PROVE  IInv'
<1> DEFINE j == handler[w].job
           h == [pc |-> "mark", job |-> j, payload |-> doc[j].payload]
<1> USE DEF IInv
<1>1. /\ handler[w].pc = "get" /\ j \in Jobs
      /\ handler' = [handler EXCEPT ![w] = h]
      /\ UNCHANGED <<service, thread, slot, inflight, signal, life, history, spent>>
  BY HandlerBusy DEF GetQueued, Runs
<1>2. TypeOK'
  <2>1. h \in HandlerState
    BY <1>1 DEF TypeOK, DocState, HandlerState
  <2> QED BY <1>1, <2>1 DEF TypeOK, service, history
<1>3. SlotHasOneHolder'
  BY <1>1 DEF SlotHasOneHolder, TypeOK
<1>4. QueuedHasPush'
  BY <1>1 DEF QueuedHasPush, PushOnItsWay, TypeOK, service, history
<1> QED BY <1>2, <1>3, <1>4

LEMMA AlreadyHandledIInv ==
  ASSUME IInv, NEW w \in Workers, AlreadyHandled(w)
  PROVE  IInv'
<1> USE DEF IInv
<1>1. /\ handler[w].pc = "get" /\ handler[w].job \in Jobs
      /\ doc[handler[w].job].status # "queued"
      /\ slot' = [slot EXCEPT ![w] = FALSE]
      /\ handler' = [handler EXCEPT ![w] = Idle]
      /\ UNCHANGED <<service, thread, inflight, signal, life, history, spent>>
  BY HandlerBusy DEF AlreadyHandled, Runs
<1>2. TypeOK'
  BY <1>1 DEF TypeOK, HandlerState, service, history
<1>3. SlotHasOneHolder'
  BY <1>1 DEF SlotHasOneHolder, TypeOK, Idle
<1>4. QueuedHasPush'
  BY <1>1 DEF QueuedHasPush, PushOnItsWay, TypeOK, service, Idle, history
<1> QED BY <1>2, <1>3, <1>4

LEMMA MarkRunningIInv ==
  ASSUME IInv, NEW w \in Workers, MarkRunning(w)
  PROVE  IInv'
<1> DEFINE j == handler[w].job
           h == [pc |-> "note", job |-> j, payload |-> handler[w].payload]
           d == [status |-> "running", payload |-> doc[j].payload, result |-> doc[j].result]
<1> USE DEF IInv
<1>1. /\ handler[w].pc = "mark" /\ j \in Jobs
      /\ handler' = [handler EXCEPT ![w] = h]
      /\ doc' = [doc EXCEPT ![j] = d]
      /\ stranded' \in {stranded, stranded \cup {j}}
      /\ UNCHANGED <<client, pushes, thread, slot, inflight, signal, life, lost, runs, spent>>
  BY HandlerBusy, HandlerTo, DocTo DEF MarkRunning, Runs
<1>2. TypeOK'
  <2>1. h \in HandlerState /\ d \in DocState
    BY <1>1, HandlerBusy DEF TypeOK, DocState, HandlerState, Statuses
  <2> QED BY <1>1, <2>1 DEF TypeOK
<1>3. SlotHasOneHolder'
  BY <1>1 DEF SlotHasOneHolder, TypeOK
<1>4. QueuedHasPush'
  BY <1>1 DEF QueuedHasPush, PushOnItsWay, TypeOK
<1> QED BY <1>2, <1>3, <1>4

(* The push goes back to Cloud Tasks, so it is on its way again.           *)
LEMMA RunRaisesIInv ==
  ASSUME IInv, NEW w \in Workers, RunRaises(w)
  PROVE  IInv'
<1> DEFINE j == handler[w].job
           d == [status |-> "running", payload |-> doc[j].payload, result |-> doc[j].result]
<1> USE DEF IInv
<1>1. /\ handler[w].pc \in {"get", "mark"} /\ j \in Jobs
      /\ doc' = doc \/ doc' = [doc EXCEPT ![j] = d]
      /\ pushes' = [pushes EXCEPT ![j] = @ + 1]
      /\ slot' = [slot EXCEPT ![w] = FALSE]
      /\ handler' = [handler EXCEPT ![w] = Idle]
      /\ stranded' \in {stranded, stranded \cup {j}}
      /\ UNCHANGED <<client, thread, inflight, signal, life, lost, runs>>
  BY HandlerBusy, DocTo DEF RunRaises, Runs
<1>2. TypeOK'
  <2>1. d \in DocState
    BY <1>1 DEF TypeOK, DocState, Statuses
  <2>2. spent' \in [Bounds -> Nat]
    BY SpendType DEF RunRaises, Bounds
  <2> QED BY <1>1, <2>1, <2>2 DEF TypeOK, HandlerState
<1>3. SlotHasOneHolder'
  BY <1>1 DEF SlotHasOneHolder, TypeOK, Idle
<1>4. QueuedHasPush'
  BY <1>1 DEF QueuedHasPush, PushOnItsWay, TypeOK, Idle
<1> QED BY <1>2, <1>3, <1>4

LEMMA NoteInflightIInv ==
  ASSUME IInv, NEW w \in Workers, NoteInflight(w)
  PROVE  IInv'
<1> DEFINE h == [pc |-> "reply", job |-> handler[w].job, payload |-> handler[w].payload]
<1> USE DEF IInv
<1>1. /\ handler[w].pc = "note" /\ handler[w].job \in Jobs
      /\ inflight' = [inflight EXCEPT ![w] = handler[w].job]
      /\ handler' = [handler EXCEPT ![w] = h]
      /\ UNCHANGED <<service, thread, slot, signal, life, history, spent>>
  BY HandlerBusy, HandlerTo DEF NoteInflight, Runs
<1>2. TypeOK'
  <2>1. h \in HandlerState
    BY <1>1, HandlerBusy DEF HandlerState
  <2> QED BY <1>1, <2>1 DEF TypeOK, service, history
<1>3. SlotHasOneHolder'
  BY <1>1 DEF SlotHasOneHolder, TypeOK
<1>4. QueuedHasPush'
  BY <1>1 DEF QueuedHasPush, PushOnItsWay, TypeOK, service, history
<1> QED BY <1>2, <1>3, <1>4

(* The slot passes from the request to the thread.                         *)
LEMMA ReplyIInv ==
  ASSUME IInv, NEW w \in Workers, Reply(w)
  PROVE  IInv'
<1> DEFINE t == [pc |-> "run", job |-> handler[w].job, payload |-> handler[w].payload]
<1> USE DEF IInv
<1>1. /\ handler[w].pc = "reply" /\ handler[w].job \in Jobs
      /\ thread' = [thread EXCEPT ![w] = t]
      /\ handler' = [handler EXCEPT ![w] = Idle]
      /\ runs' = [runs EXCEPT ![w][handler[w].job] = @ + 1]
      /\ UNCHANGED <<service, slot, inflight, signal, life, lost, stranded, spent>>
  BY HandlerBusy, HandlerTo DEF Reply, Runs
<1>2. TypeOK'
  <2>1. t \in ThreadState
    BY <1>1, HandlerBusy DEF ThreadState
  <2> QED BY <1>1, <2>1 DEF TypeOK, service, HandlerState
<1>3. SlotHasOneHolder'
  BY <1>1 DEF SlotHasOneHolder, TypeOK, Idle
<1>4. QueuedHasPush'
  BY <1>1 DEF QueuedHasPush, PushOnItsWay, TypeOK, service, Idle
<1> QED BY <1>2, <1>3, <1>4

(***************************************************************************)
(* The thread that runs the job.                                           *)
(***************************************************************************)
LEMMA RunSucceedsIInv ==
  ASSUME IInv, NEW w \in Workers, RunSucceeds(w)
  PROVE  IInv'
<1> DEFINE j == thread[w].job
           t == [pc |-> "clear", job |-> j, payload |-> thread[w].payload]
           d == [status |-> "done", payload |-> FALSE, result |-> TRUE]
<1> USE DEF IInv
<1>1. /\ thread[w].pc = "run" /\ j \in Jobs
      /\ thread' = [thread EXCEPT ![w] = t]
      /\ doc' = [doc EXCEPT ![j] = d]
      /\ UNCHANGED <<client, pushes, handler, slot, inflight, signal, life, history, spent>>
  BY ThreadBusy, ThreadTo DEF RunSucceeds
<1>2. TypeOK'
  <2>1. t \in ThreadState /\ d \in DocState
    BY <1>1, ThreadBusy DEF TypeOK, DocState, ThreadState, Statuses
  <2> QED BY <1>1, <2>1 DEF TypeOK, history
<1>3. SlotHasOneHolder'
  BY <1>1 DEF SlotHasOneHolder, TypeOK
<1>4. QueuedHasPush'
  BY <1>1 DEF QueuedHasPush, PushOnItsWay, TypeOK, history
<1> QED BY <1>2, <1>3, <1>4

LEMMA RunFailsIInv ==
  ASSUME IInv, NEW w \in Workers, RunFails(w)
  PROVE  IInv'
<1> DEFINE j == thread[w].job
           t == [pc |-> "clear", job |-> j, payload |-> thread[w].payload]
           d == [status |-> "failed", payload |-> FALSE, result |-> doc[j].result]
<1> USE DEF IInv
<1>1. /\ thread[w].pc # "idle" /\ j \in Jobs
      /\ thread' = [thread EXCEPT ![w] = t]
      /\ doc' = [doc EXCEPT ![j] = d]
      /\ UNCHANGED <<client, pushes, handler, slot, inflight, signal, life, history, spent>>
  BY ThreadBusy, ThreadTo DEF RunFails
<1>2. TypeOK'
  <2>1. t \in ThreadState /\ d \in DocState
    BY <1>1, ThreadBusy DEF TypeOK, DocState, ThreadState, Statuses
  <2> QED BY <1>1, <2>1 DEF TypeOK, history
<1>3. SlotHasOneHolder'
  BY <1>1 DEF SlotHasOneHolder, TypeOK
<1>4. QueuedHasPush'
  BY <1>1 DEF QueuedHasPush, PushOnItsWay, TypeOK, history
<1> QED BY <1>2, <1>3, <1>4

LEMMA DoneRaisesIInv ==
  ASSUME IInv, NEW w \in Workers, DoneRaises(w)
  PROVE  IInv'
<1> DEFINE j == thread[w].job
           t == [pc |-> "fail", job |-> j, payload |-> thread[w].payload]
           d == [status |-> "done", payload |-> FALSE, result |-> TRUE]
<1> USE DEF IInv
<1>1. /\ thread[w].pc = "run" /\ j \in Jobs
      /\ thread' = [thread EXCEPT ![w] = t]
      /\ doc' = doc \/ doc' = [doc EXCEPT ![j] = d]
      /\ UNCHANGED <<client, pushes, handler, slot, inflight, signal, life, history>>
  BY ThreadBusy, ThreadTo DEF DoneRaises
<1>2. TypeOK'
  <2>1. t \in ThreadState /\ d \in DocState
    BY <1>1, ThreadBusy DEF TypeOK, DocState, ThreadState, Statuses
  <2>2. spent' \in [Bounds -> Nat]
    BY SpendType DEF DoneRaises, Bounds
  <2> QED BY <1>1, <2>1, <2>2 DEF TypeOK, history
<1>3. SlotHasOneHolder'
  BY <1>1 DEF SlotHasOneHolder, TypeOK
<1>4. QueuedHasPush'
  BY <1>1 DEF QueuedHasPush, PushOnItsWay, TypeOK, history
<1> QED BY <1>2, <1>3, <1>4

LEMMA RunUnrecordedIInv ==
  ASSUME IInv, NEW w \in Workers, RunUnrecorded(w)
  PROVE  IInv'
<1> DEFINE t == [pc |-> "clear", job |-> thread[w].job, payload |-> thread[w].payload]
<1> USE DEF IInv
<1>1. /\ thread[w].pc # "idle"
      /\ thread' = [thread EXCEPT ![w] = t]
      /\ stranded' = stranded \cup {thread[w].job}
      /\ UNCHANGED <<service, handler, slot, inflight, signal, life, lost, runs>>
  BY ThreadTo DEF RunUnrecorded
<1>2. TypeOK'
  <2>1. t \in ThreadState /\ thread[w].job \in Jobs
    BY <1>1, ThreadBusy DEF ThreadState
  <2>2. spent' \in [Bounds -> Nat]
    BY SpendType DEF RunUnrecorded, Bounds
  <2> QED BY <1>1, <2>1, <2>2 DEF TypeOK, service, history
<1>3. SlotHasOneHolder'
  BY <1>1 DEF SlotHasOneHolder, TypeOK
<1>4. QueuedHasPush'
  BY <1>1 DEF QueuedHasPush, PushOnItsWay, TypeOK, service
<1> QED BY <1>2, <1>3, <1>4

LEMMA ClearInflightIInv ==
  ASSUME IInv, NEW w \in Workers, ClearInflight(w)
  PROVE  IInv'
<1> DEFINE t == [pc |-> "release", job |-> thread[w].job, payload |-> thread[w].payload]
<1> USE DEF IInv
<1>1. /\ thread[w].pc = "clear"
      /\ inflight' = [inflight EXCEPT ![w] = NoJob]
      /\ thread' = [thread EXCEPT ![w] = t]
      /\ UNCHANGED <<service, handler, slot, signal, life, history, spent>>
  BY ThreadTo DEF ClearInflight
<1>2. TypeOK'
  <2>1. t \in ThreadState
    BY <1>1, ThreadBusy DEF ThreadState
  <2> QED BY <1>1, <2>1 DEF TypeOK, service, history
<1>3. SlotHasOneHolder'
  BY <1>1 DEF SlotHasOneHolder, TypeOK
<1>4. QueuedHasPush'
  BY <1>1 DEF QueuedHasPush, PushOnItsWay, TypeOK, service, history
<1> QED BY <1>2, <1>3, <1>4

LEMMA ReleaseSlotIInv ==
  ASSUME IInv, NEW w \in Workers, ReleaseSlot(w)
  PROVE  IInv'
<1> USE DEF IInv, ReleaseSlot
<1>1. TypeOK'
  BY DEF TypeOK, service, ThreadState, history
<1>2. SlotHasOneHolder'
  BY DEF SlotHasOneHolder, TypeOK, Idle
<1>3. QueuedHasPush'
  BY DEF QueuedHasPush, PushOnItsWay, TypeOK, service, history
<1> QED BY <1>1, <1>2, <1>3

(***************************************************************************)
(* The SIGTERM handler, and the process itself.                            *)
(***************************************************************************)
LEMMA SigtermIInv ==
  ASSUME IInv, RecoversWhileDraining, NEW w \in Workers, Sigterm(w)
  PROVE  IInv'
<1> DEFINE g == IF inflight[w] = NoJob THEN NoSignal ELSE [pc |-> "get", job |-> inflight[w]]
<1> USE DEF IInv
<1>1. /\ signal' = [signal EXCEPT ![w] = g] /\ signal[w].pc = "none"
      /\ life' = [life EXCEPT ![w] = "draining"]
      /\ stranded' \in {stranded, stranded \cup {handler[w].job}}
      /\ stranded' # stranded => handler[w].job \in Jobs
      /\ UNCHANGED <<service, handler, thread, slot, inflight, lost, runs>>
  BY HandlerBusy DEF Sigterm, RecoversWhileDraining
<1>2. TypeOK'
  <2>1. g \in SignalState
    BY DEF TypeOK, SignalState
  <2>2. spent' \in [Bounds -> Nat]
    BY SpendType DEF Sigterm, Bounds
  <2> QED BY <1>1, <2>1, <2>2 DEF TypeOK, service, history
<1>3. SlotHasOneHolder'
  BY <1>1 DEF SlotHasOneHolder
<1>4. QueuedHasPush'
  BY <1>1 DEF QueuedHasPush, PushOnItsWay, TypeOK, service, NoSignal
<1> QED BY <1>2, <1>3, <1>4

LEMMA RecoverGetIInv ==
  ASSUME IInv, NEW w \in Workers, RecoverGet(w)
  PROVE  IInv'
<1> DEFINE j == signal[w].job
           g == IF doc[j].status = "running" THEN [pc |-> "requeue", job |-> j] ELSE NoSignal
<1> USE DEF IInv
<1>1. /\ signal[w].pc = "get" /\ j \in Jobs
      /\ signal' = [signal EXCEPT ![w] = g]
      /\ UNCHANGED <<service, handler, thread, slot, inflight, life, history, spent>>
  BY SignalBusy, SignalTo DEF RecoverGet
<1>2. TypeOK'
  <2>1. g \in SignalState
    BY <1>1 DEF SignalState
  <2> QED BY <1>1, <2>1 DEF TypeOK, service, history
<1>3. SlotHasOneHolder'
  BY <1>1 DEF SlotHasOneHolder
<1>4. QueuedHasPush'
  BY <1>1 DEF QueuedHasPush, PushOnItsWay, TypeOK, service, history
<1> QED BY <1>2, <1>3, <1>4

(* The recovery queues the job before it has enqueued the push.            *)
LEMMA RecoverMarkQueuedIInv ==
  ASSUME IInv, NEW w \in Workers, RecoverMarkQueued(w)
  PROVE  IInv'
<1> DEFINE j == signal[w].job
           g == [pc |-> "enqueue", job |-> j]
           d == [status |-> "queued", payload |-> doc[j].payload, result |-> doc[j].result]
<1> USE DEF IInv
<1>1. /\ signal[w].pc = "requeue" /\ j \in Jobs
      /\ signal' = [signal EXCEPT ![w] = g]
      /\ doc' = [doc EXCEPT ![j] = d]
      /\ UNCHANGED <<client, pushes, handler, thread, slot, inflight, life, history, spent>>
  BY SignalBusy, SignalTo, DocTo DEF RecoverMarkQueued
<1>2. TypeOK'
  <2>1. g \in SignalState /\ d \in DocState
    BY <1>1 DEF TypeOK, DocState, SignalState, Statuses
  <2> QED BY <1>1, <2>1 DEF TypeOK, history
<1>3. SlotHasOneHolder'
  BY <1>1 DEF SlotHasOneHolder
<1>4. QueuedHasPush'
  <2> SUFFICES ASSUME NEW i \in Jobs, client'[i] = "accepted", doc'[i].status = "queued",
                      i \notin lost'
               PROVE  PushOnItsWay(i)'
    BY DEF QueuedHasPush
  <2>1. CASE i = j
    BY <1>1, <2>1 DEF PushOnItsWay, TypeOK
  <2>2. CASE i # j
    BY <1>1, <2>2 DEF QueuedHasPush, PushOnItsWay, TypeOK, history
  <2> QED BY <2>1, <2>2
<1> QED BY <1>2, <1>3, <1>4

LEMMA RecoverEnqueueIInv ==
  ASSUME IInv, NEW w \in Workers, RecoverEnqueue(w)
  PROVE  IInv'
<1> USE DEF IInv
<1>1. /\ signal[w].pc = "enqueue" /\ signal[w].job \in Jobs
      /\ pushes' = [pushes EXCEPT ![signal[w].job] = @ + 1]
      /\ signal' = [signal EXCEPT ![w] = NoSignal]
      /\ UNCHANGED <<doc, client, handler, thread, slot, inflight, life, history, spent>>
  BY SignalBusy DEF RecoverEnqueue
<1>2. TypeOK'
  BY <1>1 DEF TypeOK, SignalState, history
<1>3. SlotHasOneHolder'
  BY <1>1 DEF SlotHasOneHolder
<1>4. QueuedHasPush'
  BY <1>1 DEF QueuedHasPush, PushOnItsWay, TypeOK, NoSignal, history
<1> QED BY <1>2, <1>3, <1>4

LEMMA RecoverRaisesIInv ==
  ASSUME IInv, NEW w \in Workers, RecoverRaises(w)
  PROVE  IInv'
<1> DEFINE j == signal[w].job
           d == [status |-> "queued", payload |-> doc[j].payload, result |-> doc[j].result]
<1> USE DEF IInv
<1>1. /\ j \in Jobs
      /\ signal' = [signal EXCEPT ![w] = NoSignal]
      /\ \/ /\ doc' = [doc EXCEPT ![j] = d] /\ lost' = lost \cup {j}
            /\ UNCHANGED stranded
         \/ /\ UNCHANGED doc
            /\ lost' = IF signal[w].pc = "enqueue" THEN lost \cup {j} ELSE lost
            /\ stranded' \in {stranded, stranded \cup {j}}
      /\ UNCHANGED <<client, pushes, handler, thread, slot, inflight, life, runs>>
  BY SignalBusy, DocTo DEF RecoverRaises
<1>2. TypeOK'
  <2>1. d \in DocState
    BY <1>1 DEF TypeOK, DocState, Statuses
  <2>2. spent' \in [Bounds -> Nat]
    BY SpendType DEF RecoverRaises, Bounds
  <2> QED BY <1>1, <2>1, <2>2 DEF TypeOK, SignalState
<1>3. SlotHasOneHolder'
  BY <1>1 DEF SlotHasOneHolder
<1>4. QueuedHasPush'
  BY <1>1 DEF QueuedHasPush, PushOnItsWay, TypeOK, NoSignal
<1> QED BY <1>2, <1>3, <1>4

(* A process that ends takes no push with it: what it was handling is      *)
(* delivered again, and a recovery it had not finished is accounted for.   *)
LEMMA VanishIInv ==
  ASSUME IInv, NEW w \in Workers, Vanish(w), spent' \in [Bounds -> Nat],
         stranded' \subseteq Jobs
  PROVE  IInv'
<1> USE DEF IInv
<1>1. /\ handler' = [handler EXCEPT ![w] = Idle]
      /\ thread' = [thread EXCEPT ![w] = Idle]
      /\ slot' = [slot EXCEPT ![w] = FALSE]
      /\ inflight' = [inflight EXCEPT ![w] = NoJob]
      /\ signal' = [signal EXCEPT ![w] = NoSignal]
      /\ life' = [life EXCEPT ![w] = "down"]
      /\ UNCHANGED <<doc, client, runs>>
  BY DEF Vanish
<1>2. /\ pushes' \in [Jobs -> Nat]
      /\ \A j \in Jobs : /\ pushes[j] > 0 => pushes'[j] > 0
                         /\ handler[w].job = j => pushes'[j] > 0
  BY DEF Vanish, TypeOK
<1>3. /\ lost' \subseteq Jobs /\ lost \subseteq lost'
      /\ signal[w].pc = "enqueue" => signal[w].job \in lost'
  BY SignalBusy DEF Vanish, TypeOK
<1>4. TypeOK'
  BY <1>1, <1>2, <1>3 DEF TypeOK, HandlerState, ThreadState, SignalState
<1>5. SlotHasOneHolder'
  BY <1>1 DEF SlotHasOneHolder, TypeOK, Idle
<1>6. QueuedHasPush'
  BY <1>1, <1>2, <1>3 DEF QueuedHasPush, PushOnItsWay, TypeOK, NoSignal, Idle
<1> QED BY <1>4, <1>5, <1>6

LEMMA RestartIInv ==
  ASSUME IInv, NEW w \in Workers, Restart(w)
  PROVE  IInv'
<1> USE DEF IInv, Restart, service
<1>1. TypeOK'
  BY DEF TypeOK, history
<1>2. SlotHasOneHolder'
  BY DEF SlotHasOneHolder
<1>3. QueuedHasPush'
  BY DEF QueuedHasPush, PushOnItsWay, history
<1> QED BY <1>1, <1>2, <1>3

LEMMA LifeIInv ==
  ASSUME IInv, NEW w \in Workers, Exit(w) \/ Crash(w)
  PROVE  IInv'
<1>1. spent' \in [Bounds -> Nat] /\ stranded' \subseteq Jobs
  BY SpendType DEF Exit, Crash, Bounds, IInv, TypeOK
<1> QED BY <1>1, VanishIInv DEF Exit, Crash

(***************************************************************************)
(* Recoveries and SIGTERM.                                                 *)
(***************************************************************************)
LEMMA RecoversStep ==
  ASSUME TypeOK, RecoversWhileDraining, [Next]_vars
  PROVE  RecoversWhileDraining'
<1>1. CASE UNCHANGED <<signal, life>>
  BY <1>1 DEF RecoversWhileDraining
<1>2. ASSUME NEW w \in Workers, Sigterm(w) PROVE RecoversWhileDraining'
  BY <1>2 DEF RecoversWhileDraining, Sigterm, TypeOK
<1>3. ASSUME NEW w \in Workers, Recovering(w) PROVE RecoversWhileDraining'
  <2>1. /\ signal[w].pc # "none" /\ UNCHANGED life
        /\ \E g \in SignalState : signal' = [signal EXCEPT ![w] = g]
    <3>1. signal[w].pc # "none" => \A c \in {"requeue", "enqueue"} :
             [signal[w] EXCEPT !.pc = c] \in SignalState
      BY SignalBusy, SignalTo DEF SignalState
    <3>2. NoSignal \in SignalState
      BY DEF SignalState
    <3> QED BY <1>3, <3>1, <3>2
         DEF Recovering, RecoverGet, RecoverMarkQueued, RecoverEnqueue, RecoverRaises
  <2> QED BY <2>1 DEF RecoversWhileDraining, TypeOK
<1>4. ASSUME NEW w \in Workers, Exit(w) \/ Crash(w) PROVE RecoversWhileDraining'
  BY <1>4 DEF RecoversWhileDraining, Exit, Crash, Vanish, TypeOK, NoSignal
<1>5. ASSUME NEW w \in Workers, Restart(w) PROVE RecoversWhileDraining'
  BY <1>5 DEF RecoversWhileDraining, Restart, TypeOK
<1>6. ASSUME NEW j \in Jobs, Submission(j) \/ Duplicate(j) \/ (\E w \in Workers : Deliver(w, j))
      PROVE  UNCHANGED <<signal, life>>
  BY <1>6 DEF Submission, Create, Enqueue, EnqueueFails, Duplicate, Deliver, worker
<1>7. ASSUME NEW w \in Workers, Handling(w) PROVE UNCHANGED <<signal, life>>
  BY <1>7 DEF Handling, GetQueued, AlreadyHandled, MarkRunning, RunRaises, NoteInflight, Reply
<1>8. ASSUME NEW w \in Workers, Working(w) PROVE UNCHANGED <<signal, life>>
  BY <1>8 DEF Working, RunSucceeds, RunFails, DoneRaises, RunUnrecorded, ClearInflight, ReleaseSlot
<1> QED BY <1>1, <1>2, <1>3, <1>4, <1>5, <1>6, <1>7, <1>8 DEF Next, vars

LEMMA NextIInv ==
  ASSUME IInv, RecoversWhileDraining, [Next]_vars
  PROVE  IInv'
<1>1. CASE UNCHANGED vars
  BY <1>1 DEF vars, IInv, TypeOK, SlotHasOneHolder, QueuedHasPush, PushOnItsWay, history
<1>2. ASSUME NEW j \in Jobs, Submission(j) \/ Duplicate(j) \/ (\E w \in Workers : Deliver(w, j))
      PROVE  IInv'
  BY <1>2, CreateIInv, EnqueueIInv, EnqueueFailsIInv, DuplicateIInv, DeliverIInv DEF Submission
<1>3. ASSUME NEW w \in Workers, Handling(w) PROVE IInv'
  BY <1>3, GetQueuedIInv, AlreadyHandledIInv, MarkRunningIInv, RunRaisesIInv, NoteInflightIInv,
     ReplyIInv DEF Handling
<1>4. ASSUME NEW w \in Workers, Working(w) PROVE IInv'
  BY <1>4, RunSucceedsIInv, RunFailsIInv, DoneRaisesIInv, RunUnrecordedIInv, ClearInflightIInv,
     ReleaseSlotIInv DEF Working
<1>5. ASSUME NEW w \in Workers, Recovering(w) PROVE IInv'
  BY <1>5, RecoverGetIInv, RecoverMarkQueuedIInv, RecoverEnqueueIInv, RecoverRaisesIInv
  DEF Recovering
<1>6. ASSUME NEW w \in Workers, Sigterm(w) \/ Exit(w) \/ Crash(w) \/ Restart(w) PROVE IInv'
  BY <1>6, SigtermIInv, LifeIInv, RestartIInv
<1> QED BY <1>1, <1>2, <1>3, <1>4, <1>5, <1>6 DEF Next

LEMMA IInvInvariant == Spec => [](IInv /\ RecoversWhileDraining)
<1>1. Init => IInv /\ RecoversWhileDraining
  BY InitIInv DEF Init, RecoversWhileDraining, NoSignal
<1>2. (IInv /\ RecoversWhileDraining) /\ [Next]_vars => (IInv /\ RecoversWhileDraining)'
  BY NextIInv, RecoversStep DEF IInv
<1> QED BY <1>1, <1>2, PTL DEF Spec

(***************************************************************************)
(* The theorems.                                                           *)
(***************************************************************************)

(* The records of every flow of control have a job while it is not idle.   *)
THEOREM TypeCorrect == Spec => []TypeOK
<1>1. IInv => TypeOK
  BY DEF IInv
<1> QED BY <1>1, IInvInvariant, PTL

(* A worker's slot is held just while a push is handled or a job runs, and *)
(* by one of them: it never runs two jobs, nor refuses pushes for nobody.  *)
THEOREM SlotHeldByOne == Spec => []SlotHasOneHolder
<1>1. IInv => SlotHasOneHolder
  BY DEF IInv
<1> QED BY <1>1, IInvInvariant, PTL

(* No accepted job waits without a push on its way to a worker.            *)
THEOREM NoJobForgotten == Spec => []QueuedHasPush
<1>1. IInv => QueuedHasPush
  BY DEF IInv
<1> QED BY <1>1, IInvInvariant, PTL

(***************************************************************************)
(* A job in state running has a worker or is stranded.  A worker past the  *)
(* window has noted its job, so a SIGTERM hands the job to the recovery.   *)
(***************************************************************************)
Noted == \A w \in Workers :
  /\ handler[w].pc = "reply" => inflight[w] = handler[w].job
  /\ thread[w].pc \in {"run", "fail"} => inflight[w] = thread[w].job

RunnerInv == Noted /\ RunningHasRunner

LEMMA RunnerInvService ==
  ASSUME IInv, RunnerInv, NEW j \in Jobs,
         Submission(j) \/ Duplicate(j) \/ (\E w \in Workers : Deliver(w, j))
  PROVE  RunnerInv'
<1> USE DEF RunnerInv, Noted, RunningHasRunner, LooksAfter, IInv, TypeOK
<1>1. ASSUME Create(j) PROVE RunnerInv'
  BY <1>1 DEF Create, worker, history
<1>2. ASSUME Enqueue(j) \/ EnqueueFails(j) \/ Duplicate(j) PROVE RunnerInv'
  BY <1>2 DEF Enqueue, EnqueueFails, Duplicate, worker, history
<1>3. ASSUME NEW w \in Workers, Deliver(w, j) PROVE RunnerInv'
  BY <1>3 DEF Deliver, history
<1> QED BY <1>1, <1>2, <1>3 DEF Submission

LEMMA RunnerInvHandling ==
  ASSUME IInv, RunnerInv, NEW w \in Workers, Handling(w)
  PROVE  RunnerInv'
<1> DEFINE j == handler[w].job
           Other(v, i) == LooksAfter(v, i) /\ v # w
<1> USE DEF RunnerInv, Noted, RunningHasRunner, LooksAfter
<1>1. handler[w].pc # "idle" /\ j \in Jobs /\ thread[w].pc = "idle" /\ TypeOK
  <2>1. handler[w].pc # "idle"
    BY DEF Handling, GetQueued, AlreadyHandled, MarkRunning, RunRaises, NoteInflight, Reply, Runs
  <2> QED BY <2>1, HandlerBusy DEF IInv, SlotHasOneHolder
<1>2. ASSUME NEW c PROVE [handler[w] EXCEPT !.pc = c]
                           = [pc |-> c, job |-> j, payload |-> handler[w].payload]
  BY <1>1, HandlerTo
<1>3. ASSUME NEW c PROVE [doc[j] EXCEPT !.status = c]
                           = [status |-> c, payload |-> doc[j].payload, result |-> doc[j].result]
  BY <1>1, DocTo
<1>4. ASSUME GetQueued(w) \/ AlreadyHandled(w) PROVE RunnerInv'
  <2> DEFINE h == [pc |-> "mark", job |-> j, payload |-> doc[j].payload]
  <2>1. /\ handler[w].pc = "get" /\ h.pc = "mark" /\ Idle.pc = "idle"
        /\ handler' = [handler EXCEPT ![w] = h] \/ handler' = [handler EXCEPT ![w] = Idle]
        /\ UNCHANGED <<doc, thread, inflight, signal, life, stranded>>
    BY <1>4 DEF GetQueued, AlreadyHandled, Runs, service, history, Idle
  <2> HIDE DEF h
  <2>2. Noted'
    <3>1. handler'[w].pc # "reply" /\ \A v \in Workers : v # w => handler'[v] = handler[v]
      BY <1>1, <2>1 DEF TypeOK
    <3> QED BY <2>1, <3>1
  <2>3. ASSUME NEW v \in Workers, NEW i \in Jobs, LooksAfter(v, i) PROVE LooksAfter(v, i)'
    BY <1>1, <2>1, <2>3 DEF TypeOK
  <2>4. RunningHasRunner'
    BY <1>1, <2>1, <2>3 DEF TypeOK
  <2> QED BY <2>2, <2>4
<1>5. ASSUME MarkRunning(w) PROVE RunnerInv'
  <2>1. /\ handler[w].pc = "mark"
        /\ handler' = [handler EXCEPT ![w] = [pc |-> "note", job |-> j, payload |-> handler[w].payload]]
        /\ doc' = [doc EXCEPT ![j] = [status |-> "running", payload |-> doc[j].payload,
                                      result |-> doc[j].result]]
        /\ stranded' = IF life[w] = "up" THEN stranded ELSE stranded \cup {j}
        /\ UNCHANGED <<thread, inflight, signal, life>>
    BY <1>2, <1>3, <1>5 DEF MarkRunning, Runs
  <2> QED BY <1>1, <2>1 DEF TypeOK
<1>6. ASSUME RunRaises(w) PROVE RunnerInv'
  <2>1. /\ handler[w].pc \in {"get", "mark"}
        /\ handler' = [handler EXCEPT ![w] = Idle] /\ Idle.pc = "idle"
        /\ \/ UNCHANGED <<doc, stranded>>
           \/ /\ doc' = [doc EXCEPT ![j] = [status |-> "running", payload |-> doc[j].payload,
                                            result |-> doc[j].result]]
              /\ stranded' = stranded \cup {j}
        /\ UNCHANGED <<thread, inflight, signal, life>>
    BY <1>3, <1>6 DEF RunRaises, Runs, Idle
  <2> QED BY <1>1, <2>1 DEF TypeOK
<1>7. ASSUME NoteInflight(w) PROVE RunnerInv'
  <2>1. /\ handler[w].pc = "note"
        /\ handler' = [handler EXCEPT ![w] = [pc |-> "reply", job |-> j, payload |-> handler[w].payload]]
        /\ inflight' = [inflight EXCEPT ![w] = j]
        /\ UNCHANGED <<doc, thread, signal, life, stranded>>
    BY <1>2, <1>7 DEF NoteInflight, Runs, service, history
  <2> QED BY <1>1, <2>1 DEF TypeOK
<1>8. ASSUME Reply(w) PROVE RunnerInv'
  <2>1. /\ handler[w].pc = "reply"
        /\ thread' = [thread EXCEPT ![w] = [pc |-> "run", job |-> j, payload |-> handler[w].payload]]
        /\ handler' = [handler EXCEPT ![w] = Idle] /\ Idle.pc = "idle"
        /\ UNCHANGED <<doc, inflight, signal, life, stranded>>
    BY <1>2, <1>8 DEF Reply, Runs, service, Idle
  <2>2. inflight[w] = j
    BY <2>1
  <2>3. Noted'
    BY <1>1, <2>1, <2>2 DEF TypeOK
  <2>4. ASSUME NEW v \in Workers, NEW i \in Jobs, LooksAfter(v, i) PROVE LooksAfter(v, i)'
    BY <1>1, <2>1, <2>4 DEF TypeOK
  <2>5. RunningHasRunner'
    BY <2>1, <2>4
  <2> QED BY <2>3, <2>5
<1> QED BY <1>4, <1>5, <1>6, <1>7, <1>8 DEF Handling

LEMMA RunnerInvWorking ==
  ASSUME IInv, RunnerInv, NEW w \in Workers, Working(w)
  PROVE  RunnerInv'
<1> DEFINE j == thread[w].job
           t(c) == [pc |-> c, job |-> j, payload |-> thread[w].payload]
           D == [status |-> "done", payload |-> FALSE, result |-> TRUE]
           F == [status |-> "failed", payload |-> FALSE, result |-> doc[j].result]
<1> USE DEF RunnerInv, Noted, RunningHasRunner, LooksAfter
<1>1. thread[w].pc # "idle" /\ j \in Jobs /\ handler[w].pc = "idle" /\ TypeOK
  <2>1. thread[w].pc # "idle"
    BY DEF Working, RunSucceeds, RunFails, DoneRaises, RunUnrecorded, ClearInflight, ReleaseSlot
  <2> QED BY <2>1, ThreadBusy DEF IInv, SlotHasOneHolder
<1>2. ASSUME NEW c PROVE [thread[w] EXCEPT !.pc = c] = t(c)
  BY <1>1, ThreadTo
<1>3. ASSUME RunSucceeds(w) \/ RunFails(w) PROVE RunnerInv'
  <2>1. /\ thread' = [thread EXCEPT ![w] = t("clear")]
        /\ doc' = [doc EXCEPT ![j] = D] \/ doc' = [doc EXCEPT ![j] = F]
        /\ D.status = "done" /\ F.status = "failed"
        /\ UNCHANGED <<handler, inflight, signal, life, stranded>>
    BY <1>2, <1>3 DEF RunSucceeds, RunFails, history
  <2> HIDE DEF D, F
  <2>2. Noted'
    BY <1>1, <2>1 DEF TypeOK
  <2>3. ASSUME NEW v \in Workers, NEW i \in Jobs, i # j, LooksAfter(v, i) PROVE LooksAfter(v, i)'
    BY <1>1, <2>1, <2>3 DEF TypeOK
  <2>4. RunningHasRunner'
    <3>1. doc'[j].status # "running" /\ \A i \in Jobs : i # j => doc'[i] = doc[i]
      BY <1>1, <2>1 DEF TypeOK
    <3> QED BY <2>1, <2>3, <3>1
  <2> QED BY <2>2, <2>4
<1>4. ASSUME DoneRaises(w) PROVE RunnerInv'
  <2>1. /\ thread[w].pc = "run" /\ thread' = [thread EXCEPT ![w] = t("fail")]
        /\ UNCHANGED doc \/ doc' = [doc EXCEPT ![j] = D]
        /\ D.status = "done"
        /\ UNCHANGED <<handler, inflight, signal, life, stranded>>
    BY <1>2, <1>4 DEF DoneRaises, history
  <2> HIDE DEF D
  <2> QED BY <1>1, <2>1 DEF TypeOK
<1>5. ASSUME RunUnrecorded(w) PROVE RunnerInv'
  <2>1. /\ thread' = [thread EXCEPT ![w] = t("clear")]
        /\ stranded' = stranded \cup {j}
        /\ UNCHANGED <<doc, handler, inflight, signal, life>>
    BY <1>2, <1>5 DEF RunUnrecorded, service
  <2> QED BY <1>1, <2>1 DEF TypeOK
<1>6. ASSUME ClearInflight(w) PROVE RunnerInv'
  <2>1. /\ thread[w].pc = "clear" /\ thread' = [thread EXCEPT ![w] = t("release")]
        /\ inflight' = [inflight EXCEPT ![w] = NoJob]
        /\ UNCHANGED <<doc, handler, signal, life, stranded>>
    BY <1>2, <1>6 DEF ClearInflight, service, history
  <2>2. Noted'
    BY <1>1, <2>1 DEF TypeOK
  <2>3. ASSUME NEW v \in Workers, NEW i \in Jobs, LooksAfter(v, i) PROVE LooksAfter(v, i)'
    BY <1>1, <2>1, <2>3 DEF TypeOK
  <2>4. RunningHasRunner'
    BY <2>1, <2>3
  <2> QED BY <2>2, <2>4
<1>7. ASSUME ReleaseSlot(w) PROVE RunnerInv'
  <2>1. /\ thread[w].pc = "release" /\ thread' = [thread EXCEPT ![w] = Idle] /\ Idle.pc = "idle"
        /\ UNCHANGED <<doc, handler, inflight, signal, life, stranded>>
    BY <1>7 DEF ReleaseSlot, service, history, Idle
  <2>2. Noted'
    BY <1>1, <2>1 DEF TypeOK
  <2>3. ASSUME NEW v \in Workers, NEW i \in Jobs, LooksAfter(v, i) PROVE LooksAfter(v, i)'
    BY <1>1, <2>1, <2>3 DEF TypeOK
  <2>4. RunningHasRunner'
    BY <1>1, <2>1, <2>3 DEF TypeOK
  <2> QED BY <2>2, <2>4
<1> QED BY <1>3, <1>4, <1>5, <1>6, <1>7 DEF Working

(* What a SIGTERM takes from a worker it gives to the recovery, unless it  *)
(* comes in the window.                                                    *)
LEMMA RunnerInvSigterm ==
  ASSUME IInv, RunnerInv, RecoversWhileDraining, NEW w \in Workers, Sigterm(w)
  PROVE  RunnerInv'
<1> DEFINE g == IF inflight[w] = NoJob THEN NoSignal ELSE [pc |-> "get", job |-> inflight[w]]
<1>1. /\ signal' = [signal EXCEPT ![w] = g] /\ signal[w].pc = "none"
      /\ life' = [life EXCEPT ![w] = "draining"]
      /\ stranded' = IF handler[w].pc = "note" THEN stranded \cup {handler[w].job} ELSE stranded
      /\ UNCHANGED <<doc, handler, thread, inflight>>
  BY DEF Sigterm, RecoversWhileDraining, service
<1>2. NoJob \notin Jobs
  BY CloudAssumption
<1>3. Noted'
  BY <1>1 DEF Noted, RunnerInv
<1>4. ASSUME NEW i \in Jobs, LooksAfter(w, i), i \notin stranded' PROVE LooksAfter(w, i)'
  <2>1. inflight[w] = i
    BY <1>1, <1>4 DEF LooksAfter, RunnerInv, Noted
  <2>2. signal'[w] = [pc |-> "get", job |-> i]
    BY <1>1, <1>2, <2>1 DEF IInv, TypeOK
  <2> QED BY <2>2 DEF LooksAfter
<1>5. ASSUME NEW v \in Workers, NEW i \in Jobs, v # w, LooksAfter(v, i) PROVE LooksAfter(v, i)'
  BY <1>1, <1>5 DEF LooksAfter, IInv, TypeOK
<1>6. RunningHasRunner'
  BY <1>1, <1>4, <1>5 DEF RunningHasRunner, RunnerInv
<1> QED BY <1>3, <1>6 DEF RunnerInv

LEMMA RunnerInvRecovering ==
  ASSUME IInv, RunnerInv, NEW w \in Workers, Recovering(w)
  PROVE  RunnerInv'
<1> DEFINE j == signal[w].job
<1> USE DEF RunnerInv, Noted, RunningHasRunner, LooksAfter
<1>1. signal[w].pc # "none" /\ j \in Jobs /\ TypeOK
  <2>1. signal[w].pc # "none"
    BY DEF Recovering, RecoverGet, RecoverMarkQueued, RecoverEnqueue, RecoverRaises
  <2> QED BY <2>1, SignalBusy DEF IInv
<1>2. ASSUME NEW c PROVE [signal[w] EXCEPT !.pc = c] = [pc |-> c, job |-> j]
  BY <1>1, SignalTo
<1>3. ASSUME NEW c PROVE [doc[j] EXCEPT !.status = c]
                           = [status |-> c, payload |-> doc[j].payload, result |-> doc[j].result]
  BY <1>1, DocTo
<1>4. ASSUME RecoverGet(w) PROVE RunnerInv'
  <2>1. /\ signal' = [signal EXCEPT ![w] = IF doc[j].status = "running"
                                           THEN [pc |-> "requeue", job |-> j] ELSE NoSignal]
        /\ UNCHANGED <<doc, handler, thread, inflight, life, stranded>>
    BY <1>2, <1>4 DEF RecoverGet, service, history
  <2> QED BY <1>1, <2>1 DEF TypeOK
<1>5. ASSUME RecoverMarkQueued(w) PROVE RunnerInv'
  <2>1. /\ signal' = [signal EXCEPT ![w] = [pc |-> "enqueue", job |-> j]]
        /\ doc' = [doc EXCEPT ![j] = [status |-> "queued", payload |-> doc[j].payload,
                                      result |-> doc[j].result]]
        /\ UNCHANGED <<handler, thread, inflight, life, stranded>>
    BY <1>2, <1>3, <1>5 DEF RecoverMarkQueued, history
  <2> QED BY <1>1, <2>1 DEF TypeOK
<1>6. ASSUME RecoverEnqueue(w) PROVE RunnerInv'
  <2>1. /\ signal[w].pc = "enqueue" /\ signal' = [signal EXCEPT ![w] = NoSignal]
        /\ UNCHANGED <<doc, handler, thread, inflight, life, stranded>>
    BY <1>6 DEF RecoverEnqueue, history
  <2> QED BY <1>1, <2>1 DEF TypeOK
<1>7. ASSUME RecoverRaises(w) PROVE RunnerInv'
  <2>1. /\ signal' = [signal EXCEPT ![w] = NoSignal]
        /\ \/ signal[w].pc \in {"get", "requeue"} /\ stranded' = stranded \cup {j} /\ UNCHANGED doc
           \/ /\ doc' = [doc EXCEPT ![j] = [status |-> "queued", payload |-> doc[j].payload,
                                            result |-> doc[j].result]]
              /\ UNCHANGED stranded
           \/ signal[w].pc = "enqueue" /\ UNCHANGED <<doc, stranded>>
        /\ UNCHANGED <<handler, thread, inflight, life>>
    BY <1>3, <1>7 DEF RecoverRaises
  <2> QED BY <1>1, <2>1 DEF TypeOK
<1> QED BY <1>4, <1>5, <1>6, <1>7 DEF Recovering

LEMMA RunnerInvLife ==
  ASSUME IInv, RunnerInv, NEW w \in Workers, Exit(w) \/ Crash(w) \/ Restart(w)
  PROVE  RunnerInv'
<1> USE DEF RunnerInv, Noted, RunningHasRunner, LooksAfter, IInv, TypeOK
<1>1. ASSUME Exit(w) PROVE RunnerInv'
  BY <1>1 DEF Exit, Vanish, Idle
<1>2. ASSUME Crash(w) PROVE RunnerInv'
  BY <1>2 DEF Crash, Vanish, Idle
<1>3. ASSUME Restart(w) PROVE RunnerInv'
  BY <1>3 DEF Restart, service, history
<1> QED BY <1>1, <1>2, <1>3

(* Nothing but the faults named at stranded leaves a job in state running  *)
(* without a worker, whatever is delivered, terminated, killed or fails.   *)
THEOREM RunningIsRun == Spec => []RunningHasRunner
<1>1. Init => RunnerInv
  BY DEF Init, RunnerInv, Noted, RunningHasRunner, Idle
<1>2. ASSUME IInv, RecoversWhileDraining, RunnerInv, [Next]_vars PROVE RunnerInv'
  <2>1. CASE UNCHANGED vars
    BY <1>2, <2>1 DEF vars, history, RunnerInv, Noted, RunningHasRunner, LooksAfter
  <2> QED BY <1>2, <2>1, RunnerInvService, RunnerInvHandling, RunnerInvWorking, RunnerInvSigterm,
             RunnerInvRecovering, RunnerInvLife DEF Next
<1>3. RunnerInv => RunningHasRunner
  BY DEF RunnerInv
<1> QED BY <1>1, <1>2, <1>3, IInvInvariant, PTL DEF Spec

(***************************************************************************)
(* The runs of a job by a worker: those it made, the one it is about to    *)
(* make, and the one it may make while the job can pass the status check.  *)
(* A recovery lets the job pass once more, and each SIGTERM brings one.    *)
(***************************************************************************)
AboutTo(w, j) == IF handler[w].job = j /\ handler[w].pc \in {"note", "reply"} THEN 1 ELSE 0

MayPass(w, j) ==
  IF \/ handler[w].job = j /\ handler[w].pc = "mark"
     \/ doc[j].status \in {"absent", "queued"}
  THEN 1 ELSE 0

Credit(w, j) == runs[w][j] + AboutTo(w, j) + MayPass(w, j)

Pending == {v \in Workers : signal[v].pc \in {"get", "requeue"}}

Unsent(j) == client[j] = "none" =>
  /\ doc[j].status = "absent" /\ pushes[j] = 0
  /\ \A w \in Workers : handler[w].job # j /\ thread[w].job # j /\ inflight[w] # j /\ signal[w].job # j

AllUnsent == \A j \in Jobs : Unsent(j)

RunsInv ==
  /\ AllUnsent
  /\ \A w \in Workers, j \in Jobs : Credit(w, j) + Cardinality(Pending) <= 1 + spent["terminations"]

(* Steps that bring no SIGTERM and let nobody run a job that could not.    *)
LEMMA CreditKept ==
  ASSUME TypeOK, TypeOK', RunsInv, AllUnsent',
         Pending' \subseteq Pending, spent'["terminations"] = spent["terminations"],
         \A w \in Workers, j \in Jobs : Credit(w, j)' <= Credit(w, j)
  PROVE  RunsInv'
<1>1. IsFiniteSet(Pending)
  BY WorkersFinite, FS_Subset DEF Pending
<1>2. /\ Cardinality(Pending) \in Nat /\ Cardinality(Pending') \in Nat
      /\ Cardinality(Pending') <= Cardinality(Pending)
  BY <1>1, FS_Subset, FS_CardinalityType
<1>3. spent["terminations"] \in Nat
  BY DEF TypeOK, Bounds
<1>4. ASSUME NEW w \in Workers, NEW j \in Jobs
      PROVE  Credit(w, j)' + Cardinality(Pending') <= 1 + spent'["terminations"]
  <2>1. Credit(w, j) \in Nat /\ Credit(w, j)' \in Nat
    BY DEF TypeOK, Credit, AboutTo, MayPass
  <2>2. Credit(w, j)' <= Credit(w, j) /\ Credit(w, j) + Cardinality(Pending) <= 1 + spent["terminations"]
    BY DEF RunsInv
  <2> HIDE DEF Credit, Pending
  <2> QED BY <1>2, <1>3, <2>1, <2>2
<1> QED BY <1>4 DEF RunsInv

LEMMA RunsService ==
  ASSUME IInv, TypeOK', RunsInv, NEW j \in Jobs,
         Submission(j) \/ Duplicate(j) \/ (\E w \in Workers : Deliver(w, j))
  PROVE  RunsInv'
<1> USE DEF IInv
<1>1. UNCHANGED <<signal, runs>> /\ spent'["terminations"] = spent["terminations"]
  BY DEF Submission, Create, Enqueue, EnqueueFails, Duplicate, Deliver, worker, history, Spend, TypeOK, Bounds
<1>2. Pending' = Pending
  BY <1>1 DEF Pending
<1>3. AllUnsent'
  <2> USE DEF RunsInv, AllUnsent, Unsent, TypeOK
  <2>1. ASSUME Create(j) PROVE AllUnsent'
    BY <2>1 DEF Create, worker
  <2>2. ASSUME Enqueue(j) \/ EnqueueFails(j) \/ Duplicate(j) PROVE AllUnsent'
    BY <2>2 DEF Enqueue, EnqueueFails, Duplicate, worker
  <2>3. ASSUME NEW w \in Workers, Deliver(w, j) PROVE AllUnsent'
    BY <2>3 DEF Deliver
  <2> QED BY <2>1, <2>2, <2>3 DEF Submission
<1>4. ASSUME NEW v \in Workers, NEW i \in Jobs PROVE Credit(v, i)' <= Credit(v, i)
  <2> USE DEF Credit, AboutTo, MayPass, TypeOK
  <2>1. ASSUME Create(j) PROVE Credit(v, i)' <= Credit(v, i)
    <3>1. doc[j].status = "absent"
      BY <2>1 DEF RunsInv, AllUnsent, Unsent, Create
    <3> QED BY <2>1, <3>1 DEF Create, worker, history
  <2>2. ASSUME Enqueue(j) \/ EnqueueFails(j) \/ Duplicate(j) PROVE Credit(v, i)' <= Credit(v, i)
    BY <2>2 DEF Enqueue, EnqueueFails, Duplicate, worker, history
  <2>3. ASSUME NEW w \in Workers, Deliver(w, j) PROVE Credit(v, i)' <= Credit(v, i)
    BY <2>3 DEF Deliver, history
  <2> QED BY <2>1, <2>2, <2>3 DEF Submission
<1> QED BY <1>1, <1>2, <1>3, <1>4, CreditKept

LEMMA RunsHandling ==
  ASSUME IInv, TypeOK', RunsInv, NEW w \in Workers, Handling(w)
  PROVE  RunsInv'
<1> DEFINE j == handler[w].job
<1>1. handler[w].pc # "idle" /\ j \in Jobs /\ NoJob \notin Jobs /\ TypeOK
  <2>1. handler[w].pc # "idle"
    BY DEF Handling, GetQueued, AlreadyHandled, MarkRunning, RunRaises, NoteInflight, Reply, Runs
  <2> QED BY <2>1, HandlerBusy, IdleHasNoJob DEF IInv
<1>2. client[j] # "none"
  BY <1>1 DEF RunsInv, AllUnsent, Unsent
<1>3. ASSUME NEW c PROVE [handler[w] EXCEPT !.pc = c]
                           = [pc |-> c, job |-> j, payload |-> handler[w].payload]
  BY <1>1, HandlerTo
<1>4. ASSUME NEW c PROVE [doc[j] EXCEPT !.status = c]
                           = [status |-> c, payload |-> doc[j].payload, result |-> doc[j].result]
  BY <1>1, DocTo
<1>5. /\ UNCHANGED <<client, signal>>
      /\ spent'["terminations"] = spent["terminations"]
  BY DEF Handling, GetQueued, AlreadyHandled, MarkRunning, RunRaises, NoteInflight, Reply, service, Spend,
         IInv, TypeOK, Bounds
<1>6. Pending' = Pending
  BY <1>5 DEF Pending
<1>7. AllUnsent'
  <2>1. ASSUME NEW i \in Jobs, client'[i] = "none" PROVE Unsent(i)'
    <3>1. Unsent(i) /\ i # j /\ client[i] = "none"
      BY <1>2, <1>5, <2>1 DEF RunsInv, AllUnsent
    <3>2. doc'[i] = doc[i] /\ pushes'[i] = pushes[i]
      BY <1>1, <3>1 DEF Handling, GetQueued, AlreadyHandled, MarkRunning, RunRaises, NoteInflight, Reply,
                        service, TypeOK
    <3>3. \A v \in Workers : handler'[v].job \in {handler[v].job, j, NoJob}
      <4>1. \E h : handler' = [handler EXCEPT ![w] = h] /\ h.job \in {j, NoJob}
        <5> DEFINE H(c) == [pc |-> c, job |-> j, payload |-> handler[w].payload]
                   Q == [pc |-> "mark", job |-> j, payload |-> doc[j].payload]
        <5>1. handler' \in {[handler EXCEPT ![w] = Idle], [handler EXCEPT ![w] = H("note")],
                            [handler EXCEPT ![w] = H("reply")], [handler EXCEPT ![w] = Q]}
          BY <1>3 DEF Handling, GetQueued, AlreadyHandled, MarkRunning, RunRaises, NoteInflight, Reply
        <5>2. Idle.job = NoJob /\ H("note").job = j /\ H("reply").job = j /\ Q.job = j
          BY DEF Idle
        <5> HIDE DEF H, Q
        <5> QED BY <5>1, <5>2
      <4>2. PICK h : handler' = [handler EXCEPT ![w] = h] /\ h.job \in {j, NoJob}
        BY <4>1
      <4>3. handler'[w] = h /\ \A v \in Workers : v # w => handler'[v] = handler[v]
        BY <1>1, <4>2 DEF TypeOK
      <4> QED BY <4>2, <4>3
    <3>4. \A v \in Workers : thread'[v].job \in {thread[v].job, j}
      <4>1. UNCHANGED thread \/ thread' = [thread EXCEPT ![w] = [pc |-> "run", job |-> j,
                                                                  payload |-> handler[w].payload]]
        BY <1>3 DEF Handling, GetQueued, AlreadyHandled, MarkRunning, RunRaises, NoteInflight, Reply
      <4>2. \A v \in Workers : v # w => thread'[v] = thread[v]
        BY <1>1, <4>1 DEF TypeOK
      <4>3. thread'[w].job \in {thread[w].job, j}
        BY <1>1, <4>1 DEF TypeOK
      <4> QED BY <4>2, <4>3
    <3>5. \A v \in Workers : inflight'[v] \in {inflight[v], j}
      BY <1>1 DEF Handling, GetQueued, AlreadyHandled, MarkRunning, RunRaises, NoteInflight, Reply, TypeOK
    <3> QED BY <1>1, <1>5, <3>1, <3>2, <3>3, <3>4, <3>5 DEF Unsent
  <2> QED BY <2>1 DEF AllUnsent, Unsent
<1>8. ASSUME NEW v \in Workers, NEW i \in Jobs PROVE Credit(v, i)' <= Credit(v, i)
  <2> USE DEF Credit, AboutTo, MayPass
  <2>1. CASE GetQueued(w)
    BY <1>1, <2>1 DEF GetQueued, Runs, service, history, TypeOK
  <2>2. CASE AlreadyHandled(w)
    BY <1>1, <2>2 DEF AlreadyHandled, Runs, service, history, Idle, TypeOK
  <2>3. CASE MarkRunning(w)
    <3>1. /\ handler[w].pc = "mark"
          /\ handler' = [handler EXCEPT ![w] = [pc |-> "note", job |-> j, payload |-> handler[w].payload]]
          /\ doc' = [doc EXCEPT ![j] = [status |-> "running", payload |-> doc[j].payload,
                                        result |-> doc[j].result]]
          /\ UNCHANGED runs
      BY <1>3, <1>4, <2>3 DEF MarkRunning, Runs
    <3> QED BY <1>1, <3>1 DEF TypeOK
  <2>4. CASE RunRaises(w)
    <3>1. /\ handler[w].pc \in {"get", "mark"}
          /\ handler' = [handler EXCEPT ![w] = Idle]
          /\ \/ UNCHANGED doc
             \/ doc' = [doc EXCEPT ![j] = [status |-> "running", payload |-> doc[j].payload,
                                           result |-> doc[j].result]]
          /\ UNCHANGED runs
      BY <1>4, <2>4 DEF RunRaises, Runs
    <3>2. AboutTo(v, i)' <= AboutTo(v, i)
      BY <1>1, <3>1 DEF Idle, TypeOK
    <3>3. MayPass(v, i)' <= MayPass(v, i)
      <4>1. doc'[i].status \in {doc[i].status, "running"}
        <5>1. i # j => doc'[i] = doc[i]
          BY <1>1, <3>1 DEF TypeOK
        <5>2. doc'[j].status \in {doc[j].status, "running"}
          BY <1>1, <3>1 DEF TypeOK
        <5> QED BY <5>1, <5>2
      <4>2. handler'[v].pc = "mark" => handler'[v] = handler[v]
        BY <1>1, <3>1 DEF Idle, TypeOK
      <4> QED BY <4>1, <4>2
    <3>4. AboutTo(v, i) \in Nat /\ MayPass(v, i) \in Nat /\ AboutTo(v, i)' \in Nat /\ MayPass(v, i)' \in Nat
          /\ runs'[v][i] = runs[v][i] /\ runs[v][i] \in Nat
      BY <1>1, <3>1 DEF TypeOK
    <3> HIDE DEF AboutTo, MayPass
    <3> QED BY <3>2, <3>3, <3>4
  <2>5. CASE NoteInflight(w)
    <3>1. /\ handler[w].pc = "note"
          /\ handler' = [handler EXCEPT ![w] = [pc |-> "reply", job |-> j, payload |-> handler[w].payload]]
          /\ UNCHANGED <<doc, runs>>
      BY <1>3, <2>5 DEF NoteInflight, Runs, service, history
    <3> QED BY <1>1, <3>1 DEF TypeOK
  <2>6. CASE Reply(w)
    <3>1. /\ handler[w].pc = "reply"
          /\ handler' = [handler EXCEPT ![w] = Idle]
          /\ runs' = [runs EXCEPT ![w][j] = @ + 1]
          /\ UNCHANGED doc
      BY <2>6 DEF Reply, Runs, service
    <3>2. CASE v = w /\ i = j
      BY <1>1, <3>1, <3>2 DEF Idle, TypeOK
    <3>3. CASE ~(v = w /\ i = j)
      <4>1. runs'[v][i] = runs[v][i]
        BY <1>1, <3>1, <3>3 DEF TypeOK
      <4> QED BY <1>1, <3>1, <3>3, <4>1 DEF Idle, TypeOK
    <3> QED BY <3>2, <3>3
  <2> QED BY <2>1, <2>2, <2>3, <2>4, <2>5, <2>6 DEF Handling
<1> QED BY <1>1, <1>5, <1>6, <1>7, <1>8, CreditKept

LEMMA RunsWorking ==
  ASSUME IInv, TypeOK', RunsInv, NEW w \in Workers, Working(w)
  PROVE  RunsInv'
<1> DEFINE j == thread[w].job
<1>1. thread[w].pc # "idle" /\ j \in Jobs /\ NoJob \notin Jobs /\ TypeOK
  <2>1. thread[w].pc # "idle"
    BY DEF Working, RunSucceeds, RunFails, DoneRaises, RunUnrecorded, ClearInflight, ReleaseSlot
  <2> QED BY <2>1, ThreadBusy, IdleHasNoJob DEF IInv
<1>2. client[j] # "none"
  BY <1>1 DEF RunsInv, AllUnsent, Unsent
<1>3. /\ UNCHANGED <<client, pushes, handler, signal, runs>>
      /\ spent'["terminations"] = spent["terminations"]
      /\ inflight' \in {inflight, [inflight EXCEPT ![w] = NoJob]}
  BY DEF Working, RunSucceeds, RunFails, DoneRaises, RunUnrecorded, ClearInflight, ReleaseSlot, service,
         history, Spend, IInv, TypeOK, Bounds
<1>4. \/ UNCHANGED doc
      \/ /\ doc'[j].status \notin {"absent", "queued"}
         /\ \A i \in Jobs : i # j => doc'[i] = doc[i]
  BY <1>1 DEF Working, RunSucceeds, RunFails, DoneRaises, RunUnrecorded, ClearInflight, ReleaseSlot,
              service, TypeOK
<1>5. \A v \in Workers : thread'[v].job \in {thread[v].job, j, NoJob}
  <2> DEFINE T(c) == [pc |-> c, job |-> j, payload |-> thread[w].payload]
  <2>1. ASSUME NEW c PROVE [thread[w] EXCEPT !.pc = c] = T(c)
    BY <1>1, ThreadTo
  <2>2. thread' \in {[thread EXCEPT ![w] = T("clear")], [thread EXCEPT ![w] = T("fail")],
                     [thread EXCEPT ![w] = T("release")], [thread EXCEPT ![w] = Idle]}
    BY <2>1 DEF Working, RunSucceeds, RunFails, DoneRaises, RunUnrecorded, ClearInflight, ReleaseSlot
  <2>3. Idle.job = NoJob /\ T("clear").job = j /\ T("fail").job = j /\ T("release").job = j
    BY DEF Idle
  <2> HIDE DEF T
  <2> QED BY <1>1, <2>2, <2>3 DEF TypeOK
<1>6. Pending' = Pending
  BY <1>3 DEF Pending
<1>7. AllUnsent'
  BY <1>1, <1>2, <1>3, <1>4, <1>5 DEF RunsInv, AllUnsent, Unsent, TypeOK
<1>8. ASSUME NEW v \in Workers, NEW i \in Jobs PROVE Credit(v, i)' <= Credit(v, i)
  <2>1. MayPass(v, i)' <= MayPass(v, i)
    BY <1>1, <1>3, <1>4 DEF MayPass
  <2>2. AboutTo(v, i)' = AboutTo(v, i) /\ runs'[v][i] = runs[v][i]
    BY <1>3 DEF AboutTo
  <2>3. AboutTo(v, i) \in Nat /\ runs[v][i] \in Nat /\ MayPass(v, i) \in Nat /\ MayPass(v, i)' \in Nat
    BY <1>1 DEF AboutTo, MayPass, TypeOK
  <2> QED BY <2>1, <2>2, <2>3 DEF Credit
<1> QED BY <1>1, <1>3, <1>6, <1>7, <1>8, CreditKept

(* A SIGTERM adds one recovery and one to what the jobs may be run.        *)
LEMMA RunsSigterm ==
  ASSUME IInv, TypeOK', RunsInv, RecoversWhileDraining, NEW w \in Workers, Sigterm(w)
  PROVE  RunsInv'
<1>1. /\ UNCHANGED <<doc, client, pushes, handler, thread, inflight, runs>>
      /\ spent'["terminations"] = spent["terminations"] + 1
      /\ signal' = [signal EXCEPT ![w] = IF inflight[w] = NoJob THEN NoSignal
                                         ELSE [pc |-> "get", job |-> inflight[w]]]
      /\ TypeOK
  BY DEF Sigterm, service, Spend, IInv, TypeOK, Bounds
<1>2. Pending' \subseteq Pending \cup {w}
  BY <1>1 DEF Pending, IInv, TypeOK
<1>3. IsFiniteSet(Pending) /\ IsFiniteSet(Pending \cup {w})
  BY WorkersFinite, FS_Subset, FS_AddElement DEF Pending
<1>4. /\ Cardinality(Pending) \in Nat /\ Cardinality(Pending') \in Nat
      /\ Cardinality(Pending') <= Cardinality(Pending) + 1
  <2>1. Cardinality(Pending \cup {w}) <= Cardinality(Pending) + 1
    BY <1>3, FS_AddElement, FS_CardinalityType
  <2>2. IsFiniteSet(Pending') /\ Cardinality(Pending') <= Cardinality(Pending \cup {w})
    BY <1>2, <1>3, FS_Subset
  <2> QED BY <1>3, <2>1, <2>2, FS_CardinalityType
<1>5. AllUnsent'
  <2>1. ASSUME NEW i \in Jobs PROVE Unsent(i)'
    <3>1. Unsent(i)
      BY DEF RunsInv, AllUnsent
    <3>2. \A v \in Workers : signal'[v].job \in {signal[v].job, inflight[v], NoJob}
      BY <1>1 DEF NoSignal, TypeOK
    <3> QED BY <1>1, <3>1, <3>2, CloudAssumption DEF Unsent
  <2> QED BY <2>1 DEF AllUnsent
<1>6. ASSUME NEW v \in Workers, NEW i \in Jobs
      PROVE  Credit(v, i)' + Cardinality(Pending') <= 1 + spent'["terminations"]
  <2>1. Credit(v, i) \in Nat /\ Credit(v, i)' = Credit(v, i)
    BY <1>1 DEF Credit, AboutTo, MayPass, TypeOK
  <2>2. Credit(v, i) + Cardinality(Pending) <= 1 + spent["terminations"] /\ spent["terminations"] \in Nat
    BY <1>1 DEF RunsInv, TypeOK, Bounds
  <2> HIDE DEF Credit, Pending
  <2> QED BY <1>1, <1>4, <2>1, <2>2
<1> QED BY <1>5, <1>6 DEF RunsInv

(* A job that a recovery queues may pass the check once more, and that     *)
(* recovery will queue it no more.                                         *)
LEMMA RunsRecovering ==
  ASSUME IInv, TypeOK', RunsInv, NEW w \in Workers, Recovering(w)
  PROVE  RunsInv'
<1> DEFINE j == signal[w].job
           d == [status |-> "queued", payload |-> doc[j].payload, result |-> doc[j].result]
<1>1. signal[w].pc # "none" /\ j \in Jobs /\ TypeOK
  <2>1. signal[w].pc # "none"
    BY DEF Recovering, RecoverGet, RecoverMarkQueued, RecoverEnqueue, RecoverRaises
  <2> QED BY <2>1, SignalBusy DEF IInv
<1>2. client[j] # "none"
  BY <1>1 DEF RunsInv, AllUnsent, Unsent
<1>3. /\ UNCHANGED <<client, handler, thread, inflight, runs>>
      /\ spent'["terminations"] = spent["terminations"]
  BY DEF Recovering, RecoverGet, RecoverMarkQueued, RecoverEnqueue, RecoverRaises, service, history,
         Spend, IInv, TypeOK, Bounds
<1>4. \A i \in Jobs : i # j => doc'[i] = doc[i] /\ pushes'[i] = pushes[i]
  BY <1>1 DEF Recovering, RecoverGet, RecoverMarkQueued, RecoverEnqueue, RecoverRaises, service, TypeOK
<1>5. ASSUME NEW c PROVE [signal[w] EXCEPT !.pc = c] = [pc |-> c, job |-> j]
  BY <1>1, SignalTo
<1>6. [doc[j] EXCEPT !.status = "queued"] = d
  BY <1>1, DocTo
<1>7. AllUnsent'
  <2> DEFINE G(c) == [pc |-> c, job |-> j]
  <2>1. signal' \in {[signal EXCEPT ![w] = NoSignal], [signal EXCEPT ![w] = G("requeue")],
                     [signal EXCEPT ![w] = G("enqueue")]}
    BY <1>5 DEF Recovering, RecoverGet, RecoverMarkQueued, RecoverEnqueue, RecoverRaises
  <2>2. NoSignal.job = NoJob /\ G("requeue").job = j /\ G("enqueue").job = j /\ NoJob \notin Jobs
    BY CloudAssumption DEF NoSignal
  <2> HIDE DEF G
  <2>3. \A v \in Workers : signal'[v].job \in {signal[v].job, j, NoJob}
    BY <1>1, <2>1, <2>2 DEF TypeOK
  <2>4. ASSUME NEW i \in Jobs, client[i] = "none" PROVE Unsent(i)'
    <3>1. Unsent(i) /\ i # j
      BY <1>2, <2>4 DEF RunsInv, AllUnsent
    <3> QED BY <1>3, <1>4, <2>2, <2>3, <2>4, <3>1 DEF Unsent
  <2> QED BY <1>3, <2>4 DEF AllUnsent, Unsent
<1>8. CASE UNCHANGED doc
  <2>1. Pending' \subseteq Pending
    <3>1. \/ signal' = [signal EXCEPT ![w] = NoSignal]
          \/ /\ signal[w].pc \in {"get", "requeue"}
             /\ \E c \in {"requeue", "enqueue"} : signal' = [signal EXCEPT ![w] = [pc |-> c, job |-> j]]
      BY <1>5 DEF Recovering, RecoverGet, RecoverMarkQueued, RecoverEnqueue, RecoverRaises
    <3>2. \A v \in Workers : v # w => signal'[v] = signal[v]
      BY <1>1, <3>1 DEF TypeOK
    <3>3. signal'[w].pc \in {"get", "requeue"} => signal[w].pc \in {"get", "requeue"}
      BY <1>1, <3>1 DEF NoSignal, TypeOK
    <3> QED BY <3>2, <3>3 DEF Pending
  <2>2. ASSUME NEW v \in Workers, NEW i \in Jobs PROVE Credit(v, i)' <= Credit(v, i)
    BY <1>3, <1>8 DEF Credit, AboutTo, MayPass, IInv, TypeOK
  <2> QED BY <1>1, <1>3, <1>7, <2>1, <2>2, CreditKept
<1>9. CASE doc' = [doc EXCEPT ![j] = d] /\ signal[w].pc = "requeue"
  <2>1. Pending' = Pending \ {w} /\ w \in Pending
    <3>1. signal' \in {[signal EXCEPT ![w] = NoSignal], [signal EXCEPT ![w] = [pc |-> "enqueue", job |-> j]]}
      BY <1>5, <1>9 DEF Recovering, RecoverGet, RecoverMarkQueued, RecoverEnqueue, RecoverRaises
    <3> QED BY <1>1, <1>9, <3>1 DEF Pending, NoSignal, TypeOK
  <2>2. IsFiniteSet(Pending)
    BY WorkersFinite, FS_Subset DEF Pending
  <2>3. /\ Cardinality(Pending) \in Nat /\ Cardinality(Pending') \in Nat
        /\ Cardinality(Pending') = Cardinality(Pending) - 1
    BY <2>1, <2>2, FS_RemoveElement, FS_CardinalityType
  <2>4. ASSUME NEW v \in Workers, NEW i \in Jobs
        PROVE  Credit(v, i)' + Cardinality(Pending') <= 1 + spent'["terminations"]
    <3>1. Credit(v, i) \in Nat /\ Credit(v, i)' \in Nat /\ Credit(v, i)' <= Credit(v, i) + 1
      BY <1>1, <1>3, <1>9 DEF Credit, AboutTo, MayPass, TypeOK
    <3>2. Credit(v, i) + Cardinality(Pending) <= 1 + spent["terminations"] /\ spent["terminations"] \in Nat
      BY <1>1 DEF RunsInv, TypeOK, Bounds
    <3> HIDE DEF Credit, Pending
    <3> QED BY <1>3, <2>3, <3>1, <3>2
  <2> QED BY <1>7, <2>4 DEF RunsInv
<1>10. UNCHANGED doc \/ (doc' = [doc EXCEPT ![j] = d] /\ signal[w].pc = "requeue")
  BY <1>6 DEF Recovering, RecoverGet, RecoverMarkQueued, RecoverEnqueue, RecoverRaises, service
<1> QED BY <1>8, <1>9, <1>10

LEMMA RunsLife ==
  ASSUME IInv, TypeOK', RunsInv, NEW w \in Workers, Exit(w) \/ Crash(w) \/ Restart(w)
  PROVE  RunsInv'
<1> USE DEF IInv
<1>1. CASE Restart(w)
  <2>1. UNCHANGED <<doc, client, pushes, handler, thread, inflight, signal, runs, spent>>
    BY <1>1 DEF Restart, service, history
  <2> QED BY <2>1 DEF RunsInv, AllUnsent, Unsent, Credit, AboutTo, MayPass, Pending
<1>2. CASE Exit(w) \/ Crash(w)
  <2>1. /\ Vanish(w) /\ UNCHANGED <<doc, client, runs>>
        /\ spent'["terminations"] = spent["terminations"]
    BY <1>2 DEF Exit, Crash, Vanish, Spend, TypeOK, Bounds
  <2>2. Pending' \subseteq Pending
    BY <2>1 DEF Vanish, Pending, NoSignal, TypeOK
  <2>3. AllUnsent'
    BY <2>1, CloudAssumption DEF Vanish, RunsInv, AllUnsent, Unsent, Idle, NoSignal, TypeOK
  <2>4. ASSUME NEW v \in Workers, NEW i \in Jobs PROVE Credit(v, i)' <= Credit(v, i)
    BY <2>1 DEF Vanish, Idle, Credit, AboutTo, MayPass, TypeOK
  <2> QED BY <2>1, <2>2, <2>3, <2>4, CreditKept
<1> QED BY <1>1, <1>2

(* The status check does what it is there for: any number of redeliveries  *)
(* makes a worker run a job no second time, and each SIGTERM at most one.  *)
THEOREM RunsFew == Spec => []RunsBounded
<1>1. Init => RunsInv
  <2> SUFFICES ASSUME Init PROVE RunsInv
    OBVIOUS
  <2>1. Pending = {}
    BY DEF Init, Pending, NoSignal
  <2>2. Cardinality(Pending) = 0
    BY <2>1, FS_EmptySet
  <2>3. AllUnsent
    BY CloudAssumption DEF Init, AllUnsent, Unsent, Idle, NoSignal
  <2>4. \A w \in Workers, j \in Jobs : Credit(w, j) = 1
    BY DEF Init, Credit, AboutTo, MayPass, Idle
  <2>5. spent["terminations"] = 0
    BY DEF Init, Bounds
  <2> QED BY <2>2, <2>3, <2>4, <2>5 DEF RunsInv
<1>2. ASSUME IInv, RecoversWhileDraining, RunsInv, [Next]_vars PROVE RunsInv'
  <2>1. TypeOK'
    BY <1>2, NextIInv DEF IInv
  <2>2. CASE UNCHANGED vars
    BY <1>2, <2>2 DEF vars, history, RunsInv, AllUnsent, Unsent, Credit, AboutTo, MayPass, Pending
  <2> QED BY <1>2, <2>1, <2>2, RunsService, RunsHandling, RunsWorking, RunsSigterm, RunsRecovering, RunsLife
          DEF Next
<1>3. IInv /\ RunsInv => RunsBounded
  <2> SUFFICES ASSUME IInv, RunsInv, NEW w \in Workers, NEW j \in Jobs
               PROVE  runs[w][j] <= 1 + spent["terminations"]
    BY DEF RunsBounded
  <2>1. Cardinality(Pending) \in Nat
    BY WorkersFinite, FS_Subset, FS_CardinalityType DEF Pending
  <2>2. Credit(w, j) + Cardinality(Pending) <= 1 + spent["terminations"]
    BY DEF RunsInv
  <2>3. runs[w][j] \in Nat /\ spent["terminations"] \in Nat /\ AboutTo(w, j) \in Nat /\ MayPass(w, j) \in Nat
    BY DEF IInv, TypeOK, Bounds, AboutTo, MayPass
  <2> QED BY <2>1, <2>2, <2>3 DEF Credit
<1> QED BY <1>1, <1>2, <1>3, IInvInvariant, PTL DEF Spec

(***************************************************************************)
(* A service whose workers are not terminated.  Crashes, failing calls and *)
(* redeliveries are named where they matter.                               *)
(***************************************************************************)
Unterminated == \A w \in Workers : signal[w].pc = "none" /\ life[w] # "draining"

(* A process that is not terminated has no recovery and does not drain.    *)
LEMMA NoTermination ==
  ASSUME MaxTerminations = 0
  PROVE  Spec => [](IInv /\ Unterminated)
<1>1. Init => Unterminated
  BY DEF Init, Unterminated, NoSignal
<1>2. ASSUME IInv, Unterminated, [Next]_vars PROVE Unterminated'
  <2> USE <1>2 DEF IInv
  <2>1. ASSUME NEW w \in Workers, Sigterm(w) PROVE FALSE
    BY <2>1 DEF Sigterm, Spend, TypeOK, Bounds
  <2>2. ASSUME NEW w \in Workers, Recovering(w) \/ Exit(w) PROVE FALSE
    BY <2>2 DEF Unterminated, Recovering, RecoverGet, RecoverMarkQueued, RecoverEnqueue,
                RecoverRaises, Exit
  <2>3. ASSUME NEW w \in Workers, Crash(w) \/ Restart(w) PROVE Unterminated'
    BY <2>3 DEF Unterminated, Crash, Vanish, Restart, TypeOK, NoSignal
  <2>4. ASSUME NEW j \in Jobs, Submission(j) \/ Duplicate(j) \/ (\E w \in Workers : Deliver(w, j))
        PROVE  UNCHANGED <<signal, life>>
    BY <2>4 DEF Submission, Create, Enqueue, EnqueueFails, Duplicate, Deliver, worker
  <2>5. ASSUME NEW w \in Workers, Handling(w) \/ Working(w) PROVE UNCHANGED <<signal, life>>
    BY <2>5 DEF Handling, GetQueued, AlreadyHandled, MarkRunning, RunRaises, NoteInflight, Reply,
                Working, RunSucceeds, RunFails, DoneRaises, RunUnrecorded, ClearInflight, ReleaseSlot
  <2>6. CASE UNCHANGED <<signal, life>>
    BY <2>6 DEF Unterminated
  <2> QED BY <1>2, <2>1, <2>2, <2>3, <2>4, <2>5, <2>6 DEF Next, vars
<1> QED BY <1>1, <1>2, IInvInvariant, PTL DEF Spec

(* Where no call fails, set_failed never has to follow set_done.           *)
NoneFails == \A w \in Workers : thread[w].pc # "fail"

LEMMA NoFailure ==
  ASSUME MaxErrors = 0
  PROVE  Spec => []NoneFails
<1>1. Init => NoneFails
  BY DEF Init, NoneFails, Idle
<1>2. ASSUME IInv, NoneFails, [Next]_vars PROVE NoneFails'
  <2> USE <1>2 DEF IInv
  <2>1. ASSUME NEW w \in Workers, DoneRaises(w) \/ RunUnrecorded(w) PROVE FALSE
    BY <2>1 DEF DoneRaises, RunUnrecorded, Spend, TypeOK, Bounds
  <2>2. ASSUME NEW w \in Workers,
               Reply(w) \/ RunSucceeds(w) \/ RunFails(w) \/ ClearInflight(w) \/ ReleaseSlot(w)
        PROVE  NoneFails'
    <3>1. ASSUME Reply(w) PROVE handler[w].pc # "idle"
      BY <3>1 DEF Reply, Runs
    <3>2. ASSUME RunSucceeds(w) \/ RunFails(w) \/ ClearInflight(w) PROVE thread[w].pc # "idle"
      BY <3>2 DEF RunSucceeds, RunFails, ClearInflight
    <3>3. \E t : t.pc # "fail" /\ thread' = [thread EXCEPT ![w] = t]
      <4>1. CASE Reply(w)
        <5>1. [handler[w] EXCEPT !.pc = "run"]
                = [pc |-> "run", job |-> handler[w].job, payload |-> handler[w].payload]
          BY <3>1, <4>1, HandlerTo
        <5> QED BY <4>1, <5>1 DEF Reply
      <4>2. CASE RunSucceeds(w) \/ RunFails(w) \/ ClearInflight(w)
        <5>1. thread' = [thread EXCEPT ![w].pc = "clear"] \/ thread' = [thread EXCEPT ![w].pc = "release"]
          BY <4>2 DEF RunSucceeds, RunFails, ClearInflight
        <5>2. \A pc : [thread EXCEPT ![w].pc = pc]
                        = [thread EXCEPT ![w] = [pc |-> pc, job |-> thread[w].job, payload |-> thread[w].payload]]
          BY <3>2, <4>2, ThreadTo
        <5>3. CASE thread' = [thread EXCEPT ![w].pc = "clear"]
          BY <5>2, <5>3
        <5>4. CASE thread' = [thread EXCEPT ![w].pc = "release"]
          BY <5>2, <5>4
        <5> QED BY <5>1, <5>3, <5>4
      <4>3. CASE ReleaseSlot(w)
        BY <4>3 DEF ReleaseSlot, Idle
      <4> QED BY <2>2, <4>1, <4>2, <4>3
    <3> QED BY <3>3 DEF NoneFails, TypeOK
  <2>3. ASSUME NEW w \in Workers, Exit(w) \/ Crash(w) PROVE NoneFails'
    BY <2>3 DEF NoneFails, Exit, Crash, Vanish, Idle, TypeOK
  <2>4. CASE UNCHANGED thread
    BY <2>4 DEF NoneFails
  <2>5. ASSUME NEW j \in Jobs, Submission(j) \/ Duplicate(j) \/ (\E w \in Workers : Deliver(w, j))
        PROVE  UNCHANGED thread
    BY <2>5 DEF Submission, Create, Enqueue, EnqueueFails, Duplicate, Deliver, worker
  <2>6. ASSUME NEW w \in Workers, \/ GetQueued(w) \/ AlreadyHandled(w) \/ MarkRunning(w) \/ RunRaises(w)
                                  \/ NoteInflight(w) \/ Recovering(w) \/ Sigterm(w) \/ Restart(w)
        PROVE  UNCHANGED thread
    BY <2>6 DEF GetQueued, AlreadyHandled, MarkRunning, RunRaises, NoteInflight, Recovering, RecoverGet,
                RecoverMarkQueued, RecoverEnqueue, RecoverRaises, Sigterm, Restart
  <2> QED BY <1>2, <2>1, <2>2, <2>3, <2>4, <2>5, <2>6 DEF Next, vars, Handling, Working
<1> QED BY <1>1, <1>2, IInvInvariant, PTL DEF Spec

(***************************************************************************)
(* One token per job.  Without redeliveries, a job's push is with Cloud    *)
(* Tasks or with one handler; the handler that has passed the status check *)
(* finds the job queued until it marks it, and a job that someone is about *)
(* to run, or runs, is running and has nobody else.                        *)
(***************************************************************************)
Runner(w, j) ==
  \/ handler[w].job = j /\ handler[w].pc \in {"note", "reply"}
  \/ thread[w].job = j /\ thread[w].pc = "run"

OneToken(j) ==
  /\ pushes[j] <= 1
  /\ pushes[j] = 1 => \A w \in Workers : handler[w].job # j
  /\ \A v, w \in Workers : handler[v].job = j /\ handler[w].job = j => v = w
  /\ client[j] \in {"none", "created"} =>
       /\ pushes[j] = 0
       /\ \A w \in Workers : handler[w].job # j /\ thread[w].job # j
  /\ client[j] = "none" => doc[j].status = "absent" /\ ~doc[j].result

OneRunner(j) ==
  /\ \A w \in Workers : handler[w].job = j /\ handler[w].pc = "mark" => doc[j].status = "queued"
  /\ \A w \in Workers : Runner(w, j) => doc[j].status = "running"
  /\ \A v, w \in Workers : Runner(v, j) /\ Runner(w, j) => v = w

RunInv == \A j \in Jobs : OneToken(j) /\ OneRunner(j)

(* A job that a handler has is not with Cloud Tasks as well.               *)
LEMMA TokenIsHeld ==
  ASSUME IInv, RunInv, NEW w \in Workers, NEW j \in Jobs, handler[w].job = j
  PROVE  pushes[j] = 0 /\ client[j] \notin {"none", "created"}
<1>1. pushes[j] \in Nat
  BY DEF IInv, TypeOK
<1>2. OneToken(j)
  BY DEF RunInv
<1>3. pushes[j] <= 1 /\ pushes[j] # 1 /\ client[j] \notin {"none", "created"}
  BY <1>2 DEF OneToken
<1> QED BY <1>1, <1>3

LEMMA RunInvSubmission ==
  ASSUME IInv, RunInv, NEW j \in Jobs, Submission(j)
  PROVE  RunInv'
<1> USE DEF RunInv, OneToken, OneRunner, Runner, IInv, TypeOK
<1>1. ASSUME Create(j) PROVE RunInv'
  BY <1>1 DEF Create, worker
<1>2. ASSUME Enqueue(j) PROVE RunInv'
  BY <1>2 DEF Enqueue, worker
<1>3. ASSUME EnqueueFails(j) PROVE RunInv'
  BY <1>3 DEF EnqueueFails, worker
<1> QED BY <1>1, <1>2, <1>3 DEF Submission

LEMMA RunInvDeliver ==
  ASSUME IInv, RunInv, NEW w \in Workers, NEW j \in Jobs, Deliver(w, j)
  PROVE  RunInv'
<1>1. /\ pushes[j] = 1 /\ handler[w].pc = "idle" /\ client[j] \notin {"none", "created"}
      /\ \A v \in Workers : handler[v].job # j
      /\ pushes' = [pushes EXCEPT ![j] = 0]
      /\ handler' = [handler EXCEPT ![w] = [pc |-> "get", job |-> j, payload |-> FALSE]]
      /\ UNCHANGED <<doc, client, thread>>
  <2>1. pushes[j] = 1
    BY DEF Deliver, RunInv, OneToken, IInv, TypeOK
  <2>2. client[j] \notin {"none", "created"} /\ \A v \in Workers : handler[v].job # j
    BY <2>1 DEF RunInv, OneToken
  <2> QED BY <2>1, <2>2 DEF Deliver, IInv, TypeOK
<1>2. handler[w].job \notin Jobs
  BY <1>1, IdleHasNoJob DEF IInv
<1>3. ASSUME NEW i \in Jobs PROVE OneToken(i)'
  BY <1>1, <1>2 DEF RunInv, OneToken, IInv, TypeOK
<1>4. ASSUME NEW i \in Jobs PROVE OneRunner(i)'
  BY <1>1, <1>2 DEF RunInv, OneRunner, Runner, IInv, TypeOK
<1> QED BY <1>3, <1>4 DEF RunInv

LEMMA RunInvHandling ==
  ASSUME IInv, RunInv, NEW w \in Workers, Handling(w)
  PROVE  RunInv'
<1> DEFINE j == handler[w].job
<1>1. handler[w].pc # "idle" /\ j \in Jobs /\ thread[w].pc = "idle" /\ thread[w].job \notin Jobs
  <2>1. handler[w].pc # "idle"
    BY DEF Handling, GetQueued, AlreadyHandled, MarkRunning, RunRaises, NoteInflight, Reply, Runs
  <2>2. thread[w].pc = "idle"
    BY <2>1 DEF IInv, SlotHasOneHolder
  <2> QED BY <2>1, <2>2, HandlerBusy, IdleHasNoJob DEF IInv
<1>2. ASSUME NEW c PROVE [handler[w] EXCEPT !.pc = c]
                           = [pc |-> c, job |-> j, payload |-> handler[w].payload]
  BY <1>1, HandlerTo DEF IInv
<1>3. ASSUME NEW c PROVE [doc[j] EXCEPT !.status = c]
                           = [status |-> c, payload |-> doc[j].payload, result |-> doc[j].result]
  BY <1>1, DocTo DEF IInv
<1>4. pushes[j] = 0 /\ client[j] \notin {"none", "created"}
  BY <1>1, TokenIsHeld
<1>5. ASSUME GetQueued(w) PROVE RunInv'
  <2>1. /\ handler' = [handler EXCEPT ![w] = [pc |-> "mark", job |-> j, payload |-> doc[j].payload]]
        /\ doc[j].status = "queued"
        /\ UNCHANGED <<doc, client, pushes, thread>>
    BY <1>5 DEF GetQueued, service
  <2> QED BY <1>1, <2>1 DEF RunInv, OneToken, OneRunner, Runner, IInv, TypeOK
<1>6. ASSUME AlreadyHandled(w) PROVE RunInv'
  BY <1>1, <1>6, CloudAssumption
  DEF AlreadyHandled, service, Idle, RunInv, OneToken, OneRunner, Runner, IInv, TypeOK
<1>7. ASSUME MarkRunning(w) PROVE RunInv'
  <2>1. /\ handler[w].pc = "mark"
        /\ handler' = [handler EXCEPT ![w] = [pc |-> "note", job |-> j, payload |-> handler[w].payload]]
        /\ doc' = [doc EXCEPT ![j] = [status |-> "running", payload |-> doc[j].payload,
                                      result |-> doc[j].result]]
        /\ UNCHANGED <<client, pushes, thread>>
    BY <1>2, <1>3, <1>7 DEF MarkRunning, Runs
  <2>2. \A v \in Workers : ~Runner(v, j)
    BY <1>1, <2>1 DEF RunInv, OneRunner
  <2>3. ASSUME NEW i \in Jobs PROVE OneToken(i)'
    BY <1>1, <1>4, <2>1 DEF RunInv, OneToken, IInv, TypeOK
  <2>4. ASSUME NEW i \in Jobs PROVE OneRunner(i)'
    <3>1. CASE i = j
      BY <1>1, <2>1, <2>2, <3>1 DEF RunInv, OneToken, OneRunner, Runner, IInv, TypeOK
    <3>2. CASE i # j
      BY <1>1, <2>1, <3>2 DEF RunInv, OneRunner, Runner, IInv, TypeOK
    <3> QED BY <3>1, <3>2
  <2> QED BY <2>3, <2>4 DEF RunInv
<1>8. ASSUME RunRaises(w) PROVE RunInv'
  <2>1. /\ handler[w].pc \in {"get", "mark"}
        /\ \/ doc' = doc
           \/ /\ handler[w].pc = "mark"
              /\ doc' = [doc EXCEPT ![j] = [status |-> "running", payload |-> doc[j].payload,
                                            result |-> doc[j].result]]
        /\ pushes' = [pushes EXCEPT ![j] = @ + 1]
        /\ handler' = [handler EXCEPT ![w] = Idle]
        /\ UNCHANGED <<client, thread>>
    BY <1>3, <1>8 DEF RunRaises, Runs
  <2>2. ASSUME NEW i \in Jobs PROVE OneToken(i)'
    BY <1>1, <1>4, <2>1, CloudAssumption DEF Idle, RunInv, OneToken, IInv, TypeOK
  <2>3. ASSUME NEW i \in Jobs PROVE OneRunner(i)'
    BY <1>1, <2>1, CloudAssumption DEF Idle, RunInv, OneToken, OneRunner, Runner, IInv, TypeOK
  <2> QED BY <2>2, <2>3 DEF RunInv
<1>9. ASSUME NoteInflight(w) PROVE RunInv'
  <2>1. /\ handler[w].pc = "note"
        /\ handler' = [handler EXCEPT ![w] = [pc |-> "reply", job |-> j, payload |-> handler[w].payload]]
        /\ UNCHANGED <<doc, client, pushes, thread>>
    BY <1>2, <1>9 DEF NoteInflight, Runs, service
  <2> QED BY <1>1, <2>1 DEF RunInv, OneToken, OneRunner, Runner, IInv, TypeOK
<1>10. ASSUME Reply(w) PROVE RunInv'
  <2>1. /\ handler[w].pc = "reply"
        /\ thread' = [thread EXCEPT ![w] = [pc |-> "run", job |-> j, payload |-> handler[w].payload]]
        /\ handler' = [handler EXCEPT ![w] = Idle]
        /\ UNCHANGED <<doc, client, pushes>>
    BY <1>2, <1>10 DEF Reply, Runs, service
  <2>2. ASSUME NEW i \in Jobs PROVE OneToken(i)'
    BY <1>1, <1>4, <2>1, CloudAssumption DEF Idle, RunInv, OneToken, IInv, TypeOK
  <2>3. ASSUME NEW i \in Jobs PROVE OneRunner(i)'
    BY <1>1, <2>1, CloudAssumption DEF Idle, RunInv, OneRunner, Runner, IInv, TypeOK
  <2> QED BY <2>2, <2>3 DEF RunInv
<1> QED BY <1>5, <1>6, <1>7, <1>8, <1>9, <1>10 DEF Handling

(* A run that ends takes the job out of running.                           *)
LEMMA RunInvWorking ==
  ASSUME MaxErrors = 0, IInv, NoneFails, RunInv, NEW w \in Workers, Working(w)
  PROVE  RunInv'
<1> DEFINE j == thread[w].job
<1>1. thread[w].pc # "idle" /\ j \in Jobs
  <2>1. thread[w].pc # "idle"
    BY DEF Working, RunSucceeds, RunFails, DoneRaises, RunUnrecorded, ClearInflight, ReleaseSlot
  <2> QED BY <2>1, ThreadBusy DEF IInv
<1>2. ASSUME NEW c PROVE [thread[w] EXCEPT !.pc = c]
                           = [pc |-> c, job |-> j, payload |-> thread[w].payload]
  BY <1>1, ThreadTo DEF IInv
<1>3. client[j] \notin {"none", "created"}
  BY <1>1 DEF RunInv, OneToken
<1>6. ASSUME DoneRaises(w) \/ RunUnrecorded(w) PROVE FALSE
  BY <1>6 DEF DoneRaises, RunUnrecorded, Spend, Bounds, IInv, TypeOK
<1>4. ASSUME RunSucceeds(w) \/ RunFails(w) PROVE RunInv'
  <2>1. /\ thread[w].pc = "run"
        /\ thread' = [thread EXCEPT ![w] = [pc |-> "clear", job |-> j, payload |-> thread[w].payload]]
        /\ \E d : doc' = [doc EXCEPT ![j] = d]
        /\ UNCHANGED <<client, pushes, handler>>
    BY <1>2, <1>4 DEF RunSucceeds, RunFails, NoneFails
  <2>2. doc[j].status = "running" /\ \A v \in Workers : Runner(v, j) => v = w
    BY <1>1, <2>1 DEF RunInv, OneRunner, Runner
  <2>3. \A v \in Workers : ~(handler[v].job = j /\ handler[v].pc \in {"mark", "note", "reply"})
    BY <1>1, <2>1, <2>2 DEF RunInv, OneRunner, Runner, IInv, SlotHasOneHolder
  <2>4. ASSUME NEW i \in Jobs PROVE OneToken(i)'
    BY <1>1, <1>3, <2>1 DEF RunInv, OneToken, IInv, TypeOK
  <2>5. ASSUME NEW i \in Jobs PROVE OneRunner(i)'
    <3>1. CASE i = j
      BY <1>1, <2>1, <2>2, <2>3, <3>1 DEF Runner, OneRunner, IInv, TypeOK
    <3>2. CASE i # j
      BY <1>1, <2>1, <3>2 DEF RunInv, OneRunner, Runner, IInv, TypeOK
    <3> QED BY <3>1, <3>2
  <2> QED BY <2>4, <2>5 DEF RunInv
<1>5. ASSUME ClearInflight(w) \/ ReleaseSlot(w) PROVE RunInv'
  <2>1. /\ \E t : thread' = [thread EXCEPT ![w] = t] /\ t.job \in {j, NoJob} /\ t.pc # "run"
        /\ UNCHANGED <<doc, client, pushes, handler>>
    <3> DEFINE t(c) == [pc |-> c, job |-> j, payload |-> thread[w].payload]
    <3>1. thread' \in {[thread EXCEPT ![w] = t("release")], [thread EXCEPT ![w] = Idle]}
      BY <1>2, <1>5 DEF ClearInflight, ReleaseSlot
    <3>2. UNCHANGED <<doc, client, pushes, handler>>
      BY <1>5 DEF ClearInflight, ReleaseSlot, service
    <3>3. Idle.pc = "idle" /\ Idle.job = NoJob
      BY DEF Idle
    <3> QED BY <3>1, <3>2, <3>3
  <2>2. ASSUME NEW i \in Jobs PROVE OneToken(i)'
    BY <1>1, <1>3, <2>1, CloudAssumption DEF RunInv, OneToken, IInv, TypeOK
  <2>3. ASSUME NEW i \in Jobs PROVE OneRunner(i)'
    BY <1>1, <2>1 DEF RunInv, OneRunner, Runner, IInv, TypeOK
  <2> QED BY <2>2, <2>3 DEF RunInv
<1> QED BY <1>4, <1>5, <1>6 DEF Working

(* The push of a request cut short goes back to Cloud Tasks.               *)
LEMMA RunInvCrash ==
  ASSUME IInv, RunInv, NEW w \in Workers, Vanish(w)
  PROVE  RunInv'
<1>1. /\ handler' = [handler EXCEPT ![w] = Idle]
      /\ thread' = [thread EXCEPT ![w] = Idle]
      /\ pushes' = [i \in Jobs |-> pushes[i] + IF handler[w].job = i THEN 1 ELSE 0]
      /\ UNCHANGED <<doc, client>>
  BY DEF Vanish
<1>2. ASSUME NEW i \in Jobs PROVE OneToken(i)'
  <2>1. CASE handler[w].job = i
    <3>1. pushes[i] = 0 /\ client[i] \notin {"none", "created"}
      BY <2>1, TokenIsHeld
    <3> QED BY <1>1, <2>1, <3>1, CloudAssumption DEF RunInv, OneToken, Idle, IInv, TypeOK
  <2>2. CASE handler[w].job # i
    BY <1>1, <2>2, CloudAssumption DEF RunInv, OneToken, Idle, IInv, TypeOK
  <2> QED BY <2>1, <2>2
<1>3. ASSUME NEW i \in Jobs PROVE OneRunner(i)'
  BY <1>1, CloudAssumption DEF RunInv, OneRunner, Runner, Idle, IInv, TypeOK
<1> QED BY <1>2, <1>3 DEF RunInv

LEMMA RunInvInvariant ==
  ASSUME MaxDuplicates = 0, MaxTerminations = 0, MaxErrors = 0
  PROVE  Spec => [](IInv /\ Unterminated /\ NoneFails /\ RunInv)
<1>1. Init => RunInv
  BY CloudAssumption DEF Init, RunInv, OneToken, OneRunner, Runner, Idle
<1>2. ASSUME IInv, Unterminated, NoneFails, RunInv, [Next]_vars PROVE RunInv'
  <2>1. ASSUME NEW j \in Jobs, Duplicate(j) PROVE FALSE
    BY <1>2, <2>1 DEF Duplicate, Spend, Bounds, IInv, TypeOK
  <2>2. ASSUME NEW w \in Workers, Sigterm(w) PROVE FALSE
    BY <1>2, <2>2 DEF Sigterm, Spend, TypeOK, Bounds, IInv
  <2>3. ASSUME NEW w \in Workers, Recovering(w) PROVE FALSE
    BY <1>2, <2>3 DEF Unterminated, Recovering, RecoverGet, RecoverMarkQueued, RecoverEnqueue,
                      RecoverRaises
  <2>4. ASSUME NEW w \in Workers, Exit(w) \/ Crash(w) PROVE RunInv'
    BY <1>2, <2>4, RunInvCrash DEF Exit, Crash
  <2>5. CASE UNCHANGED <<doc, client, pushes, handler, thread>>
    BY <1>2, <2>5 DEF RunInv, OneToken, OneRunner, Runner
  <2>6. ASSUME NEW w \in Workers, Restart(w) PROVE UNCHANGED <<doc, client, pushes, handler, thread>>
    BY <2>6 DEF Restart, service
  <2>7. ASSUME NEW j \in Jobs, Submission(j) \/ \E w \in Workers : Deliver(w, j) PROVE RunInv'
    BY <1>2, <2>7, RunInvSubmission, RunInvDeliver
  <2>8. ASSUME NEW w \in Workers, Handling(w) \/ Working(w) PROVE RunInv'
    BY <1>2, <2>8, RunInvHandling, RunInvWorking
  <2> QED BY <1>2, <2>1, <2>2, <2>3, <2>4, <2>5, <2>6, <2>7, <2>8 DEF Next, vars
<1> QED BY <1>1, <1>2, NoTermination, NoFailure, PTL DEF Spec

(* jobs.py: a job that waits has its payload and a finished one has none.  *)
(* Neither crashes nor failing calls nor redeliveries change that.         *)
THEOREM PayloadKept ==
  ASSUME MaxTerminations = 0
  PROVE  Spec => []PayloadWhileRunnable
<1>1. Init => PayloadWhileRunnable
  BY DEF Init, PayloadWhileRunnable
<1>2. ASSUME IInv, Unterminated, PayloadWhileRunnable, [Next]_vars
      PROVE  PayloadWhileRunnable'
  <2>1. CASE UNCHANGED doc
    BY <1>2, <2>1 DEF PayloadWhileRunnable
  <2>2. ASSUME NEW j \in Jobs, Submission(j) PROVE PayloadWhileRunnable'
    BY <1>2, <2>2 DEF Submission, Create, Enqueue, EnqueueFails, PayloadWhileRunnable, IInv, TypeOK
  <2>3. ASSUME NEW j \in Jobs, Duplicate(j) \/ \E w \in Workers : Deliver(w, j)
        PROVE  UNCHANGED doc
    BY <2>3 DEF Duplicate, Deliver
  <2>4. ASSUME NEW w \in Workers, MarkRunning(w) \/ RunRaises(w) PROVE PayloadWhileRunnable'
    <3>1. handler[w].job \in Jobs
      BY <2>4, HandlerBusy, <1>2 DEF MarkRunning, RunRaises, Runs, IInv
    <3>2. doc' = doc \/ doc' = [doc EXCEPT ![handler[w].job] =
                                  [status |-> "running", payload |-> doc[handler[w].job].payload,
                                   result |-> doc[handler[w].job].result]]
      BY <1>2, <2>4, <3>1, DocTo DEF MarkRunning, RunRaises, IInv
    <3> QED BY <1>2, <3>1, <3>2 DEF PayloadWhileRunnable, IInv, TypeOK
  <2>5. ASSUME NEW w \in Workers, RunSucceeds(w) \/ RunFails(w) \/ DoneRaises(w)
        PROVE  PayloadWhileRunnable'
    <3>1. \/ UNCHANGED doc
          \/ \E d : doc' = [doc EXCEPT ![thread[w].job] = d] /\ ~d.payload
                    /\ d.status \in {"done", "failed"}
      BY <2>5 DEF RunSucceeds, RunFails, DoneRaises
    <3> QED BY <1>2, <3>1 DEF PayloadWhileRunnable, IInv, TypeOK
  <2>6. ASSUME NEW w \in Workers, Recovering(w) PROVE FALSE
    BY <1>2, <2>6 DEF Unterminated, Recovering, RecoverGet, RecoverMarkQueued, RecoverEnqueue,
                      RecoverRaises
  <2>7. ASSUME NEW w \in Workers, GetQueued(w) \/ AlreadyHandled(w) \/ NoteInflight(w) \/ Reply(w)
        PROVE  UNCHANGED doc
    BY <2>7 DEF GetQueued, AlreadyHandled, NoteInflight, Reply, service
  <2>8. ASSUME NEW w \in Workers, RunUnrecorded(w) \/ ClearInflight(w) \/ ReleaseSlot(w)
        PROVE  UNCHANGED doc
    BY <2>8 DEF RunUnrecorded, ClearInflight, ReleaseSlot, service
  <2>9. ASSUME NEW w \in Workers, Sigterm(w) \/ Exit(w) \/ Crash(w) \/ Restart(w)
        PROVE  UNCHANGED doc
    BY <2>9 DEF Sigterm, Exit, Crash, Restart, Vanish, service
  <2> QED BY <1>2, <2>1, <2>2, <2>3, <2>4, <2>5, <2>6, <2>7, <2>8, <2>9
           DEF Next, vars, Handling, Working
<1> QED BY <1>1, <1>2, NoTermination, PTL DEF Spec

(***************************************************************************)
(* The refinement.                                                         *)
(***************************************************************************)
KeepsStages == Lifecycle!Safe

(* A step that changes one document moves its job from stage to stage.     *)
LEMMA DocStep ==
  ASSUME TypeOK, NEW j \in Jobs, NEW d \in DocState, doc' = [doc EXCEPT ![j] = d]
  PROVE  /\ doc[j].status = "absent" /\ d.status = "queued" /\ d.result = doc[j].result
              => Lifecycle!Submit(j)
         /\ doc[j].status = "queued" /\ d.status = "running" /\ d.result = doc[j].result
              => Lifecycle!Start(j)
         /\ doc[j].status = "running" /\ d.status = "done" /\ d.result = TRUE
              => Lifecycle!Finish(j)
         /\ doc[j].status = "running" /\ d.status = "failed" /\ d.result = doc[j].result
              => Lifecycle!Fail(j)
<1> DEFINE status == [k \in Jobs |-> doc[k].status]
           result == [k \in Jobs |-> doc[k].result]
<1>1. [k \in Jobs |-> doc'[k].status] = [status EXCEPT ![j] = d.status]
  BY DEF TypeOK
<1>2. [k \in Jobs |-> doc'[k].result] = [result EXCEPT ![j] = d.result]
  BY DEF TypeOK
<1>3. d.result = doc[j].result => [k \in Jobs |-> doc'[k].result] = result
  BY <1>2
<1>4. status[j] = doc[j].status
  OBVIOUS
<1> QED BY <1>1, <1>2, <1>3, <1>4
        DEF Lifecycle!Submit, Lifecycle!Start, Lifecycle!Finish, Lifecycle!Fail, Lifecycle!Moves

(* Each step of the service is one of the lifecycle, or none.              *)
LEMMA StepKeepsStages ==
  ASSUME MaxErrors = 0, IInv, Unterminated, NoneFails, RunInv, [Next]_vars
  PROVE  [Lifecycle!Next]_(Lifecycle!vars)
<1>1. CASE UNCHANGED doc
  BY <1>1 DEF Lifecycle!vars
<1>2. ASSUME Spend("errors") PROVE FALSE
  BY <1>2 DEF Spend, IInv, TypeOK, Bounds
<1>3. TypeOK
  BY DEF IInv
<1>4. ASSUME NEW j \in Jobs, Create(j) PROVE Lifecycle!Next
  <2> DEFINE d == [status |-> "queued", payload |-> TRUE, result |-> FALSE]
  <2>1. client[j] = "none" /\ doc' = [doc EXCEPT ![j] = d]
    BY <1>4 DEF Create
  <2>2. doc[j].status = "absent" /\ ~doc[j].result
    BY <2>1 DEF RunInv, OneToken
  <2>3. d \in DocState /\ doc[j].result = FALSE
    BY <1>3, <2>2 DEF DocState, Statuses, TypeOK
  <2>4. Lifecycle!Submit(j)
    BY <1>3, <2>1, <2>2, <2>3, DocStep
  <2> QED BY <2>4 DEF Lifecycle!Next
<1>5. ASSUME NEW w \in Workers, MarkRunning(w) PROVE Lifecycle!Next
  <2>1. handler[w].pc = "mark" /\ handler[w].job \in Jobs
    BY <1>3, <1>5, HandlerBusy DEF MarkRunning, Runs
  <2>2. PICK j \in Jobs : j = handler[w].job
    BY <2>1
  <2>3. doc[j].status = "queued"
    BY <2>1, <2>2 DEF RunInv, OneRunner
  <2>4. PICK d \in DocState : /\ d.status = "running" /\ d.result = doc[j].result
                              /\ doc' = [doc EXCEPT ![j] = d]
    <3> DEFINE D == [status |-> "running", payload |-> doc[j].payload, result |-> doc[j].result]
    <3>1. doc' = [doc EXCEPT ![j] = D]
      BY <1>3, <1>5, <2>1, <2>2, DocTo DEF MarkRunning
    <3>2. D \in DocState
      BY <1>3 DEF DocState, Statuses, TypeOK
    <3> QED BY <3>1, <3>2
  <2>5. Lifecycle!Start(j)
    BY <1>3, <2>3, <2>4, DocStep
  <2> QED BY <2>5 DEF Lifecycle!Next
<1>6. ASSUME NEW w \in Workers, RunSucceeds(w) \/ RunFails(w) PROVE Lifecycle!Next
  <2>1. thread[w].pc = "run" /\ thread[w].job \in Jobs
    BY <1>3, <1>6, ThreadBusy DEF RunSucceeds, RunFails, NoneFails
  <2>2. PICK j \in Jobs : j = thread[w].job
    BY <2>1
  <2>3. doc[j].status = "running"
    BY <2>1, <2>2 DEF RunInv, OneRunner, Runner
  <2>4. PICK d \in DocState : /\ \/ d.status = "done" /\ d.result = TRUE
                                 \/ d.status = "failed" /\ d.result = doc[j].result
                              /\ doc' = [doc EXCEPT ![j] = d]
    <3> DEFINE D == [status |-> "done", payload |-> FALSE, result |-> TRUE]
               F == [status |-> "failed", payload |-> FALSE, result |-> doc[j].result]
    <3>1. doc' = [doc EXCEPT ![j] = D] \/ doc' = [doc EXCEPT ![j] = F]
      BY <1>3, <1>6, <2>1, <2>2 DEF RunSucceeds, RunFails, TypeOK
    <3>2. D \in DocState /\ F \in DocState
      BY <1>3 DEF DocState, Statuses, TypeOK
    <3> QED BY <3>1, <3>2
  <2>5. Lifecycle!Finish(j) \/ Lifecycle!Fail(j)
    BY <1>3, <2>3, <2>4, DocStep
  <2> QED BY <2>5 DEF Lifecycle!Next
<1>7. ASSUME NEW w \in Workers, RunRaises(w) \/ DoneRaises(w) \/ Recovering(w) PROVE FALSE
  BY <1>2, <1>7 DEF RunRaises, DoneRaises, Unterminated, Recovering, RecoverGet, RecoverMarkQueued,
                    RecoverEnqueue, RecoverRaises
<1>8. ASSUME NEW j \in Jobs, \/ Enqueue(j) \/ EnqueueFails(j) \/ Duplicate(j)
                             \/ \E w \in Workers : Deliver(w, j)
      PROVE  UNCHANGED doc
  BY <1>8 DEF Enqueue, EnqueueFails, Duplicate, Deliver
<1>9. ASSUME NEW w \in Workers, GetQueued(w) \/ AlreadyHandled(w) \/ NoteInflight(w) \/ Reply(w)
      PROVE  UNCHANGED doc
  BY <1>9 DEF GetQueued, AlreadyHandled, NoteInflight, Reply, service
<1>10. ASSUME NEW w \in Workers, RunUnrecorded(w) \/ ClearInflight(w) \/ ReleaseSlot(w)
       PROVE  UNCHANGED doc
  BY <1>10 DEF RunUnrecorded, ClearInflight, ReleaseSlot, service
<1>11. ASSUME NEW w \in Workers, Sigterm(w) \/ Exit(w) \/ Crash(w) \/ Restart(w)
       PROVE  UNCHANGED doc
  BY <1>11 DEF Sigterm, Exit, Crash, Restart, Vanish, service
<1>12. ASSUME NEW j \in Jobs, Submission(j) \/ Duplicate(j) \/ (\E w \in Workers : Deliver(w, j))
       PROVE  UNCHANGED doc \/ Lifecycle!Next
  BY <1>4, <1>8, <1>12 DEF Submission
<1>13. ASSUME NEW w \in Workers, Handling(w) PROVE UNCHANGED doc \/ Lifecycle!Next
  BY <1>5, <1>7, <1>9, <1>13 DEF Handling
<1>14. ASSUME NEW w \in Workers, Working(w) PROVE UNCHANGED doc \/ Lifecycle!Next
  BY <1>6, <1>7, <1>10, <1>14 DEF Working
<1> QED BY <1>1, <1>7, <1>11, <1>12, <1>13, <1>14 DEF Next, vars

(* Without redeliveries, terminations and failing calls every job goes     *)
(* through the stages jobs.py names, each once, whatever crashes: the      *)
(* service implements the abstract lifecycle.                              *)
THEOREM StagesKept ==
  ASSUME MaxDuplicates = 0, MaxTerminations = 0, MaxErrors = 0
  PROVE  Spec => KeepsStages
<1>1. Init => Lifecycle!Init
  BY DEF Init, Lifecycle!Init
<1>2. IInv /\ Unterminated /\ NoneFails /\ RunInv /\ [Next]_vars => [Lifecycle!Next]_(Lifecycle!vars)
  BY StepKeepsStages
<1> QED BY <1>1, <1>2, RunInvInvariant, PTL DEF Spec, KeepsStages, Lifecycle!Safe
=============================================================================
