------------------------------ MODULE Admission ------------------------------
(***************************************************************************)
(* The front-end of the GCP mode (frontend_app.py, auth.py, quota.py) and  *)
(* the operator's manage_keys.py: who may submit a job, and how many.      *)
(*                                                                         *)
(* Several instances serve requests.  Authentication runs in a thread per  *)
(* request, with a cache per instance; _submit runs on the event loop and  *)
(* never yields, so an instance makes one submission at a time, but each   *)
(* of its calls to the store interleaves with those of other instances.    *)
(***************************************************************************)
EXTENDS Integers, FiniteSets

CONSTANTS
  Instances, Callers, Requests,
  At, By,               \* the instance that serves a request, and the caller who makes it
  QuotaField,           \* quota_daily of each caller's key record, 0 when it has none
  ConcurrentField,      \* max_concurrent of the record, 0 when it has none
  DefaultQuota,         \* FREE_TIER_QUOTA_DAILY
  DefaultConcurrent,    \* FREE_TIER_MAX_CONCURRENT
  MaxQueued,            \* ADMISSION_MAX_QUEUED
  TTL,                  \* API_KEY_CACHE_TTL_S
  MaxTime, MaxDay, MaxChanges, MaxRequeues, MaxErrors, MaxLosses   \* bounds of the model

ASSUME AdmissionAssumption ==
  /\ IsFiniteSet(Instances) /\ Instances # {} /\ IsFiniteSet(Requests)
  /\ At \in [Requests -> Instances] /\ By \in [Requests -> Callers]
  /\ QuotaField \in [Callers -> Int] /\ ConcurrentField \in [Callers -> Int]
  /\ {DefaultQuota, DefaultConcurrent, MaxQueued, TTL} \subseteq Nat
  /\ {MaxTime, MaxDay, MaxRequeues, MaxErrors, MaxLosses} \subseteq Nat
  /\ MaxChanges \in [Callers -> Nat \ {0}]

VARIABLES
  now,       \* the clock of the caches
  day,       \* utc_day()
  record,    \* Firestore: each key's record, as the number of changes made to it
  replaced,  \* history: when each version of a record was replaced
  cache,     \* _cache of each instance: [version, expires] of each key
  request,   \* [pc, began, version, day]: where a request is and what it has read
  usage,     \* Firestore: the counter of each key and day
  job,       \* Firestore: the status of the job each request made
  pushed,    \* the requests whose job was enqueued
  stranded,  \* history: those whose push was dropped or whose worker was lost
  spent      \* history: how much of the bounds on requeues, errors and losses has been used

keys == <<record, replaced>>
vars == <<now, day, record, replaced, cache, request, usage, job, pushed, stranded, spent>>

(***************************************************************************)
(* manage_keys.py.  Version 1 of a record is the key as it was minted;     *)
(* after that it is disabled and enabled in turns.                         *)
(***************************************************************************)
Valid(version) == version % 2 = 1

ChangeKey(c) ==
  /\ record[c] < MaxChanges[c]
  /\ record' = [record EXCEPT ![c] = @ + 1]
  /\ replaced' = [replaced EXCEPT ![c][record[c]] = now]
  /\ UNCHANGED <<now, day, cache, request, usage, job, pushed, stranded, spent>>

(* A limit of 0 in the record means the default.                           *)
QuotaOf(c) == IF QuotaField[c] = 0 THEN DefaultQuota ELSE QuotaField[c]

ConcurrentOf(c) == IF ConcurrentField[c] = 0 THEN DefaultConcurrent ELSE ConcurrentField[c]

(***************************************************************************)
(* auth.py: lookup.  The clock is read before the record.                  *)
(***************************************************************************)
Decided(r, version) ==
  [request EXCEPT ![r].version = version, ![r].pc = IF Valid(version) THEN "caller" ELSE "invalid",
                  ![r].began = IF request[r].pc = "none" THEN now ELSE @]

LookupHit(r) ==
  LET hit == cache[At[r]][By[r]]
  IN /\ request[r].pc = "none" /\ hit.expires > now
     /\ request' = Decided(r, hit.version)
     /\ UNCHANGED <<now, day, keys, cache, usage, job, pushed, stranded, spent>>

LookupMiss(r) ==
  /\ request[r].pc = "none" /\ cache[At[r]][By[r]].expires <= now
  /\ request' = [request EXCEPT ![r] = [@ EXCEPT !.pc = "read", !.began = now]]
  /\ UNCHANGED <<now, day, keys, cache, usage, job, pushed, stranded, spent>>

ReadRecord(r) ==
  /\ request[r].pc = "read"
  /\ request' = [request EXCEPT ![r].pc = "remember", ![r].version = record[By[r]]]
  /\ UNCHANGED <<now, day, keys, cache, usage, job, pushed, stranded, spent>>

RememberFromNow(r) ==   \* mutant: the clock is read after the record
  /\ request[r].pc = "remember"
  /\ cache' = [cache EXCEPT ![At[r]][By[r]] = [version |-> request[r].version, expires |-> now + TTL]]
  /\ request' = Decided(r, request[r].version)
  /\ UNCHANGED <<now, day, keys, usage, job, pushed, stranded, spent>>

(* Absent keys are remembered, too.                                        *)
Remember(r) ==
  /\ request[r].pc = "remember"
  /\ cache' = [cache EXCEPT ![At[r]][By[r]] =
                 [version |-> request[r].version, expires |-> request[r].began + TTL]]
  /\ request' = Decided(r, request[r].version)
  /\ UNCHANGED <<now, day, keys, usage, job, pushed, stranded, spent>>

(***************************************************************************)
(* frontend_app.py: _submit, and quota.py: enforce.                        *)
(***************************************************************************)
Gates == {"active", "charge", "used", "create"}   \* past the first gate, without a job yet
Submitting == {"backlog", "enqueue"} \cup Gates

Queued == {r \in Requests : job[r] = "queued"}

Active(c) == {r \in Requests : By[r] = c /\ job[r] \in {"queued", "running"}}

Goes(r, pc) == request' = [request EXCEPT ![r].pc = pc]

BeginSubmitAtOnce(r) ==   \* mutant: submissions of an instance overlap
  /\ request[r].pc = "caller"
  /\ request' = [request EXCEPT ![r] = [pc |-> "backlog", began |-> 0, version |-> 0, day |-> 0]]
  /\ UNCHANGED <<now, day, keys, cache, usage, job, pushed, stranded, spent>>

(* On to the event loop; what the lookup knew is forgotten.                *)
BeginSubmit(r) ==
  /\ request[r].pc = "caller"
  /\ \A q \in Requests : At[q] = At[r] => request[q].pc \notin Submitting
  /\ request' = [request EXCEPT ![r] = [pc |-> "backlog", began |-> 0, version |-> 0, day |-> 0]]
  /\ UNCHANGED <<now, day, keys, cache, usage, job, pushed, stranded, spent>>

CheckBacklogLoosely(r) ==   \* mutant: one more than the limit
  /\ request[r].pc = "backlog"
  /\ Goes(r, IF Cardinality(Queued) > MaxQueued THEN "full" ELSE "active")
  /\ UNCHANGED <<now, day, keys, cache, usage, job, pushed, stranded, spent>>

CheckBacklog(r) ==
  /\ request[r].pc = "backlog"
  /\ Goes(r, IF Cardinality(Queued) >= MaxQueued THEN "full" ELSE "active")
  /\ UNCHANGED <<now, day, keys, cache, usage, job, pushed, stranded, spent>>

(* A limit that is not positive switches its gate off.                     *)
PastConcurrency(r) == IF QuotaOf(By[r]) > 0 THEN "charge" ELSE "create"

CheckActiveElsewhere(r) ==   \* mutant: running jobs are not counted
  /\ request[r].pc = "active"
  /\ Goes(r, IF Cardinality(Active(By[r]) \cap Queued) >= ConcurrentOf(By[r])
             THEN "busy" ELSE PastConcurrency(r))
  /\ UNCHANGED <<now, day, keys, cache, usage, job, pushed, stranded, spent>>

CheckActive(r) ==
  LET limit == ConcurrentOf(By[r])
  IN /\ request[r].pc = "active"
     /\ Goes(r, IF limit > 0 /\ Cardinality(Active(By[r])) >= limit
                THEN "busy" ELSE PastConcurrency(r))
     /\ UNCHANGED <<now, day, keys, cache, usage, job, pushed, stranded, spent>>

(* The counter's document is that of the day of this step, for good.       *)
Charge(r) ==
  /\ request[r].pc = "charge"
  /\ usage' = [usage EXCEPT ![By[r]][day] = @ + 1]
  /\ request' = [request EXCEPT ![r].pc = "used", ![r].day = day]
  /\ UNCHANGED <<now, day, keys, cache, job, pushed, stranded, spent>>

CheckUsedToday(r) ==   \* mutant: the day is asked for again
  /\ request[r].pc = "used"
  /\ Goes(r, IF usage[By[r]][day] > QuotaOf(By[r]) THEN "exhausted" ELSE "create")
  /\ UNCHANGED <<now, day, keys, cache, usage, job, pushed, stranded, spent>>

CheckUsed(r) ==
  /\ request[r].pc = "used"
  /\ Goes(r, IF usage[By[r]][request[r].day] > QuotaOf(By[r]) THEN "exhausted" ELSE "create")
  /\ UNCHANGED <<now, day, keys, cache, usage, job, pushed, stranded, spent>>

Create(r) ==
  /\ request[r].pc = "create"
  /\ job' = [job EXCEPT ![r] = "queued"]
  /\ Goes(r, "enqueue")
  /\ UNCHANGED <<now, day, keys, cache, usage, pushed, stranded, spent>>

EnqueueForgotten(r) ==   \* mutant: the request is accepted without a push
  /\ request[r].pc = "enqueue"
  /\ Goes(r, "accepted")
  /\ UNCHANGED <<now, day, keys, cache, usage, job, pushed, stranded, spent>>

Enqueue(r) ==
  /\ request[r].pc = "enqueue"
  /\ pushed' = pushed \cup {r}
  /\ Goes(r, "accepted")
  /\ UNCHANGED <<now, day, keys, cache, usage, job, stranded, spent>>

(* A call raises, whether or not it took effect: 500.  What earlier calls  *)
(* did stays.                                                              *)
CallRaises(r) ==
  /\ request[r].pc \in Submitting /\ spent.errors < MaxErrors
  /\ spent' = [spent EXCEPT !.errors = @ + 1]
  /\ Goes(r, "failed")
  /\ \/ UNCHANGED <<usage, job, pushed>>
     \/ /\ request[r].pc = "charge"
        /\ usage' = [usage EXCEPT ![By[r]][day] = @ + 1] /\ UNCHANGED <<job, pushed>>
     \/ /\ request[r].pc = "create"
        /\ job' = [job EXCEPT ![r] = "queued"] /\ UNCHANGED <<usage, pushed>>
     \/ /\ request[r].pc = "enqueue"
        /\ pushed' = pushed \cup {r} /\ UNCHANGED <<usage, job>>
  /\ UNCHANGED <<now, day, keys, cache, stranded>>

(***************************************************************************)
(* The workers, as far as the counts see them (CloudJobs), and time.       *)
(***************************************************************************)
Carried(r) == r \in pushed /\ r \notin stranded   \* a push or a worker goes on with the job

StartJob(r) ==
  /\ job[r] = "queued" /\ Carried(r)
  /\ job' = [job EXCEPT ![r] = "running"]
  /\ UNCHANGED <<now, day, keys, cache, request, usage, pushed, stranded, spent>>

FinishJob(r) ==
  /\ job[r] = "running" /\ Carried(r)
  /\ job' = [job EXCEPT ![r] = "done"]
  /\ UNCHANGED <<now, day, keys, cache, request, usage, pushed, stranded, spent>>

(* A worker that shuts down gives its job back, past every gate.           *)
RequeueJob(r) ==
  /\ job[r] = "running" /\ Carried(r) /\ spent.requeues < MaxRequeues
  /\ job' = [job EXCEPT ![r] = "queued"]
  /\ spent' = [spent EXCEPT !.requeues = @ + 1]
  /\ UNCHANGED <<now, day, keys, cache, request, usage, pushed, stranded>>

(* Cloud Tasks drops a push after ten attempts, or a worker that shuts     *)
(* down does not get to the push: the job stays queued.                    *)
LosePush(r) ==
  /\ job[r] = "queued" /\ Carried(r) /\ spent.losses < MaxLosses
  /\ stranded' = stranded \cup {r}
  /\ spent' = [spent EXCEPT !.losses = @ + 1]
  /\ UNCHANGED <<now, day, keys, cache, request, usage, job, pushed>>

(* A worker is killed, or told to stop before it has noted what it runs:   *)
(* the job stays running.                                                  *)
LoseWorker(r) ==
  /\ job[r] = "running" /\ Carried(r) /\ spent.losses < MaxLosses
  /\ stranded' = stranded \cup {r}
  /\ spent' = [spent EXCEPT !.losses = @ + 1]
  /\ UNCHANGED <<now, day, keys, cache, request, usage, job, pushed>>

Tick ==
  /\ now < MaxTime /\ now' = now + 1
  /\ UNCHANGED <<day, keys, cache, request, usage, job, pushed, stranded, spent>>

Midnight ==
  /\ day < MaxDay /\ day' = day + 1
  /\ UNCHANGED <<now, keys, cache, request, usage, job, pushed, stranded, spent>>
-----------------------------------------------------------------------------
Init ==
  /\ now = 0 /\ day = 0
  /\ record = [c \in Callers |-> 1]
  /\ replaced = [c \in Callers |-> [v \in 0..MaxChanges[c] |-> -1]]
  /\ cache = [i \in Instances |-> [c \in Callers |-> [version |-> 0, expires |-> 0]]]
  /\ request = [r \in Requests |-> [pc |-> "none", began |-> 0, version |-> 0, day |-> 0]]
  /\ usage = [c \in Callers |-> [d \in 0..MaxDay |-> 0]]
  /\ job = [r \in Requests |-> "absent"]
  /\ pushed = {} /\ stranded = {}
  /\ spent = [requeues |-> 0, errors |-> 0, losses |-> 0]

Serve(r) ==
  \/ LookupHit(r) \/ LookupMiss(r) \/ ReadRecord(r) \/ Remember(r)
  \/ BeginSubmit(r) \/ CheckBacklog(r) \/ CheckActive(r) \/ Charge(r) \/ CheckUsed(r)
  \/ Create(r) \/ Enqueue(r) \/ CallRaises(r)

Work(r) == StartJob(r) \/ FinishJob(r)

Lose(r) == LosePush(r) \/ LoseWorker(r)

Next ==
  \/ \E r \in Requests : Serve(r) \/ Work(r) \/ RequeueJob(r) \/ Lose(r)
  \/ \E c \in Callers : ChangeKey(c)
  \/ Tick \/ Midnight

Spec == Init /\ [][Next]_vars

(* A submission that has written its job goes on: nothing else runs on its *)
(* event loop, and calls time out.  A push is taken by a worker unless it  *)
(* is dropped before, and a run ends (max_steps requests, each with a      *)
(* timeout) unless its worker is lost: both steps are disabled then.       *)
FairSpec ==
  /\ Spec
  /\ \A r \in Requests : WF_vars(Enqueue(r)) /\ WF_vars(StartJob(r)) /\ WF_vars(FinishJob(r))
-----------------------------------------------------------------------------
PCs == Submitting \cup {"none", "read", "remember", "caller", "invalid",
                        "full", "busy", "exhausted", "accepted", "failed"}

(* The variables hold what the code keeps; an instance makes at most one   *)
(* submission at a time; and no job is there before its request has passed *)
(* the gates.                                                              *)
TypeOK ==
  /\ now \in 0..MaxTime /\ day \in 0..MaxDay
  /\ record \in [Callers -> Nat \ {0}]
  /\ cache \in [Instances -> [Callers -> [version : Nat, expires : Nat]]]
  /\ request \in [Requests -> [pc : PCs, began : 0..now, version : Nat, day : 0..day]]
  /\ usage \in [Callers -> [0..MaxDay -> Nat]]
  /\ job \in [Requests -> {"absent", "queued", "running", "done"}]
  /\ pushed \subseteq Requests /\ stranded \subseteq Requests
  /\ spent \in [requeues : Nat, errors : Nat, losses : Nat]
  /\ \A q, r \in Requests :
       At[q] = At[r] /\ {request[q].pc, request[r].pc} \subseteq Submitting => q = r
  /\ \A r \in Requests :
       job[r] # "absent" => request[r].pc \in {"enqueue", "accepted", "failed"}

Between(pcs) == {r \in Requests : request[r].pc \in pcs}

(* The first gate reads the backlog long before the job adds to it.  The   *)
(* backlog exceeds the limit by at most one job of every other instance    *)
(* and the jobs that workers gave back.                                    *)
BacklogBounded ==
  Cardinality(Queued) + Cardinality(Between(Gates))
    <= MaxQueued + Cardinality(Instances) - 1 + spent.requeues

(* In the same way a caller has at most one job of every other instance    *)
(* more in flight than its record allows, whatever workers give back.      *)
ConcurrencyBounded ==
  \A c \in Callers : ConcurrentOf(c) > 0 =>
    Cardinality(Active(c)) + Cardinality({r \in Between({"charge", "used", "create"}) : By[r] = c})
      <= ConcurrentOf(c) + Cardinality(Instances) - 1

(* The daily quota holds exactly, though the counter is raised and read by *)
(* two calls, and midnight may come between any two steps.                 *)
QuotaKept ==
  \A c \in Callers, d \in 0..MaxDay : QuotaOf(c) > 0 =>
    Cardinality({r \in Requests : By[r] = c /\ job[r] # "absent" /\ request[r].day = d}) <= QuotaOf(c)

(* A change to a key is in effect for every lookup that begins TTL or more *)
(* after it, on every instance: what a lookup decides by had not yet been  *)
(* replaced then.                                                          *)
RevocationInTime ==
  \A r \in Requests :
    LET gone == replaced[By[r]][request[r].version]
    IN request[r].pc \in {"remember", "caller", "invalid"} /\ gone # -1
         => gone >= request[r].began \/ gone + TTL > request[r].began

(* The jobs whose submission failed between the document and the push.     *)
Orphans(c) == {r \in Queued : By[r] = c /\ request[r].pc = "failed" /\ r \notin pushed}

(* Those that were accepted and will stay as they are all the same.        *)
Stuck(c) == {r \in Active(c) : r \in stranded}

(* quota.py tells a caller who has too many jobs in flight to wait for one *)
(* to finish.  That helps, unless one of the jobs is an orphan or is stuck *)
(* because its push or its worker was lost: nobody will finish it, and it  *)
(* counts for good.                                                        *)
WaitingHelps ==
  \A c \in Callers :
    (\E r \in Requests : By[r] = c /\ request[r].pc = "busy")
      ~> (Cardinality(Active(c)) < ConcurrentOf(c) \/ Orphans(c) # {} \/ Stuck(c) # {})
=============================================================================
