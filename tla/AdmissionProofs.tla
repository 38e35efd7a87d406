--------------------------- MODULE AdmissionProofs ---------------------------
(***************************************************************************)
(* For any number of front-end instances, callers and requests, any limits *)
(* and any cache lifetime: what Admission promises of the gates and the    *)
(* keys.                                                                   *)
(***************************************************************************)
EXTENDS Admission, TLAPS, FiniteSetTheorems

(* What a step of a request leaves of every other one.                     *)
Alone(r) == \A q \in Requests \ {r} : request'[q] = request[q]

(* The numbers among the constants.                                        *)
LEMMA Numbers ==
  /\ TTL \in Nat /\ MaxTime \in Nat /\ MaxDay \in Nat /\ MaxQueued \in Nat
  /\ DefaultQuota \in Nat /\ DefaultConcurrent \in Nat
  /\ \A c \in Callers : MaxChanges[c] \in Nat
  /\ \A r \in Requests : At[r] \in Instances /\ By[r] \in Callers
BY AdmissionAssumption

-----------------------------------------------------------------------------
(***************************************************************************)
(* Types.                                                                  *)
(***************************************************************************)
LEMMA TypeInit == Init => TypeOK
<1> SUFFICES ASSUME Init PROVE TypeOK
  OBVIOUS
<1> USE AdmissionAssumption
<1>1. now \in 0..MaxTime /\ day \in 0..MaxDay /\ record \in [Callers -> Nat \ {0}]
  BY DEF Init
<1>2. cache \in [Instances -> [Callers -> [version : Nat, expires : Nat]]]
  BY DEF Init
<1>3. request \in [Requests -> [pc : PCs, began : 0..now, version : Nat, day : 0..day]]
  BY DEF Init, PCs
<1>4. usage \in [Callers -> [0..MaxDay -> Nat]]
  BY DEF Init
<1>5. /\ job \in [Requests -> {"absent", "queued", "running", "done"}]
      /\ pushed \subseteq Requests /\ stranded \subseteq Requests
  BY DEF Init
<1>6. spent \in [requeues : Nat, errors : Nat, losses : Nat]
  BY DEF Init
<1>7. \A q, r \in Requests :
        At[q] = At[r] /\ {request[q].pc, request[r].pc} \subseteq Submitting => q = r
  BY DEF Init, Submitting, Gates
<1>8. \A r \in Requests :
        job[r] # "absent" => request[r].pc \in {"enqueue", "accepted", "failed"}
  BY DEF Init
<1> QED BY <1>1, <1>2, <1>3, <1>4, <1>5, <1>6, <1>7, <1>8 DEF TypeOK

(* A request moves on: nothing but its pc changes.                         *)
LEMMA MoveKeepsTypes ==
  ASSUME TypeOK, NEW r \in Requests, NEW pc \in PCs, Goes(r, pc), UNCHANGED <<now, day>>,
         pc \in Submitting => request[r].pc \in Submitting
  PROVE  /\ request' \in [Requests -> [pc : PCs, began : 0..now, version : Nat, day : 0..day]]'
         /\ request'[r].pc = pc /\ request'[r].day = request[r].day
         /\ request'[r].began = request[r].began /\ request'[r].version = request[r].version
         /\ Alone(r)
         /\ \A q, s \in Requests :
              At[q] = At[s] /\ {request'[q].pc, request'[s].pc} \subseteq Submitting => q = s
<1>1. request \in [Requests -> [pc : PCs, began : 0..now, version : Nat, day : 0..day]]
  BY DEF TypeOK
<1>2. request' = [request EXCEPT ![r].pc = pc]
  BY DEF Goes
<1>3. request'[r].pc = pc /\ request'[r].day = request[r].day
      /\ request'[r].began = request[r].began /\ request'[r].version = request[r].version
  BY <1>1, <1>2
<1>4. Alone(r)
  BY <1>1, <1>2 DEF Alone
<1>5. request' \in [Requests -> [pc : PCs, began : 0..now, version : Nat, day : 0..day]]
  BY <1>1, <1>2
<1>6. \A q, s \in Requests :
        At[q] = At[s] /\ {request'[q].pc, request'[s].pc} \subseteq Submitting => q = s
  <2> SUFFICES ASSUME NEW q \in Requests, NEW s \in Requests, At[q] = At[s],
                      request'[q].pc \in Submitting, request'[s].pc \in Submitting
               PROVE  q = s
    OBVIOUS
  <2>1. request[q].pc \in Submitting /\ request[s].pc \in Submitting
    BY <1>3, <1>4 DEF Alone
  <2> QED BY <2>1 DEF TypeOK
<1> QED BY <1>3, <1>4, <1>5, <1>6

(* The steps of a lookup.                                                  *)
LEMMA LookupKeepsTypes ==
  ASSUME TypeOK, NEW r \in Requests,
         LookupHit(r) \/ LookupMiss(r) \/ ReadRecord(r) \/ Remember(r)
  PROVE  TypeOK'
<1> USE AdmissionAssumption
<1>1. request \in [Requests -> [pc : PCs, began : 0..now, version : Nat, day : 0..day]]
      /\ now \in 0..MaxTime /\ day \in 0..MaxDay
  BY DEF TypeOK
<1>2. At[r] \in Instances /\ By[r] \in Callers
  OBVIOUS
<1>3. cache[At[r]][By[r]] \in [version : Nat, expires : Nat] /\ record[By[r]] \in Nat
  BY <1>2 DEF TypeOK
<1>4. {"caller", "invalid", "read", "remember"} \subseteq PCs \ Submitting
  BY DEF PCs, Submitting, Gates
<1>5. request[r].pc \in {"none", "read", "remember"}
  BY DEF LookupHit, LookupMiss, ReadRecord, Remember
<1>6. job[r] = "absent"
  BY <1>5 DEF TypeOK
<1>7. UNCHANGED <<now, day, record, replaced, usage, job, pushed, stranded, spent>>
  BY DEF LookupHit, LookupMiss, ReadRecord, Remember, keys
<1>8. cache' \in [Instances -> [Callers -> [version : Nat, expires : Nat]]]
  <2>1. CASE Remember(r)
    <3>1. request[r].began + TTL \in Nat /\ request[r].version \in Nat
      BY <1>1
    <3> QED BY <1>2, <2>1, <3>1 DEF Remember, TypeOK
  <2>2. CASE ~Remember(r)
    BY <2>2 DEF LookupHit, LookupMiss, ReadRecord, TypeOK
  <2> QED BY <2>1, <2>2
<1>9. /\ request' \in [Requests -> [pc : PCs, began : 0..now, version : Nat, day : 0..day]]
      /\ request'[r].pc \notin Submitting /\ Alone(r)
  <2>1. CASE LookupHit(r)
    BY <1>1, <1>3, <1>4, <2>1 DEF LookupHit, Decided, Alone
  <2>2. CASE LookupMiss(r)
    <3>1. request' = [request EXCEPT ![r] = [request[r] EXCEPT !.pc = "read", !.began = now]]
      BY <1>1, <2>2 DEF LookupMiss
    <3>2. "read" \in PCs /\ "read" \notin Submitting /\ now \in 0..now
      BY <1>1, <1>4
    <3> QED BY <1>1, <3>1, <3>2 DEF Alone
  <2>3. CASE ReadRecord(r)
    BY <1>1, <1>3, <1>4, <2>3 DEF ReadRecord, Alone
  <2>4. CASE Remember(r)
    BY <1>1, <1>4, <2>4 DEF Remember, Decided, Alone
  <2> QED BY <2>1, <2>2, <2>3, <2>4
<1>10. \A q, s \in Requests :
         At[q] = At[s] /\ {request'[q].pc, request'[s].pc} \subseteq Submitting => q = s
  <2> SUFFICES ASSUME NEW q \in Requests, NEW s \in Requests, At[q] = At[s],
                      request'[q].pc \in Submitting, request'[s].pc \in Submitting
               PROVE  q = s
    OBVIOUS
  <2>1. q # r /\ s # r
    BY <1>9
  <2>2. request[q].pc \in Submitting /\ request[s].pc \in Submitting
    BY <1>9, <2>1 DEF Alone
  <2> QED BY <2>2 DEF TypeOK
<1>11. \A q \in Requests :
         job'[q] # "absent" => request'[q].pc \in {"enqueue", "accepted", "failed"}
  BY <1>6, <1>7, <1>9 DEF TypeOK, Alone
<1> QED BY <1>7, <1>8, <1>9, <1>10, <1>11 DEF TypeOK

(* On to the event loop, if its instance is free.                          *)
LEMMA BeginKeepsTypes ==
  ASSUME TypeOK, NEW r \in Requests, BeginSubmit(r)
  PROVE  TypeOK'
<1> USE AdmissionAssumption
<1>1. request \in [Requests -> [pc : PCs, began : 0..now, version : Nat, day : 0..day]]
      /\ now \in 0..MaxTime /\ day \in 0..MaxDay
  BY DEF TypeOK
<1>2. UNCHANGED <<now, day, record, replaced, cache, usage, job, pushed, stranded, spent>>
  BY DEF BeginSubmit, keys
<1>3. /\ request' \in [Requests -> [pc : PCs, began : 0..now, version : Nat, day : 0..day]]
      /\ Alone(r) /\ job[r] = "absent"
  <2>1. request' = [request EXCEPT ![r] = [pc |-> "backlog", began |-> 0, version |-> 0, day |-> 0]]
    BY DEF BeginSubmit
  <2>2. "backlog" \in PCs
    BY DEF PCs, Submitting
  <2>3. job[r] = "absent"
    BY DEF BeginSubmit, TypeOK
  <2> QED BY <1>1, <2>1, <2>2, <2>3 DEF Alone
<1>4. \A q, s \in Requests :
        At[q] = At[s] /\ {request'[q].pc, request'[s].pc} \subseteq Submitting => q = s
  <2> SUFFICES ASSUME NEW q \in Requests, NEW s \in Requests, At[q] = At[s],
                      request'[q].pc \in Submitting, request'[s].pc \in Submitting
               PROVE  q = s
    OBVIOUS
  <2>1. CASE q # r /\ s # r
    BY <1>3, <2>1 DEF TypeOK, Alone
  <2>2. CASE q = r /\ s # r
    BY <1>3, <2>2 DEF BeginSubmit, Alone
  <2>3. CASE q # r /\ s = r
    BY <1>3, <2>3 DEF BeginSubmit, Alone
  <2> QED BY <2>1, <2>2, <2>3
<1>5. \A q \in Requests :
        job'[q] # "absent" => request'[q].pc \in {"enqueue", "accepted", "failed"}
  BY <1>2, <1>3 DEF TypeOK, Alone
<1> QED BY <1>2, <1>3, <1>4, <1>5 DEF TypeOK

(* The steps of a submission move its request on, and do no more than      *)
(* this to the rest.                                                       *)
Submits(r) ==
  \/ CheckBacklog(r) \/ CheckActive(r) \/ Charge(r) \/ CheckUsed(r)
  \/ Create(r) \/ Enqueue(r) \/ CallRaises(r)

LEMMA SubmissionKeepsTypes ==
  ASSUME TypeOK, NEW r \in Requests, Submits(r)
  PROVE  TypeOK' /\ Alone(r)
<1> USE AdmissionAssumption
<1>1. request \in [Requests -> [pc : PCs, began : 0..now, version : Nat, day : 0..day]]
      /\ usage \in [Callers -> [0..MaxDay -> Nat]] /\ day \in 0..MaxDay
      /\ job \in [Requests -> {"absent", "queued", "running", "done"}]
      /\ By[r] \in Callers
  BY DEF TypeOK
<1>2. UNCHANGED <<now, day, record, replaced, cache>>
  BY DEF Submits, CheckBacklog, CheckActive, Charge, CheckUsed, Create, Enqueue, CallRaises, keys
<1>3. request[r].pc \in Submitting
  BY DEF Submits, CheckBacklog, CheckActive, Charge, CheckUsed, Create, Enqueue, CallRaises,
         Submitting, Gates
<1>4. /\ request' \in [Requests -> [pc : PCs, began : 0..now, version : Nat, day : 0..day]]'
      /\ Alone(r)
      /\ \A q, s \in Requests :
           At[q] = At[s] /\ {request'[q].pc, request'[s].pc} \subseteq Submitting => q = s
  <2>1. CASE Charge(r)
    <3>1. request' = [request EXCEPT ![r] = [request[r] EXCEPT !.pc = "used", !.day = day]]
      BY <1>1, <2>1 DEF Charge
    <3>2. "used" \in PCs /\ day \in 0..day
      BY <1>1 DEF PCs, Submitting, Gates
    <3>3. request' \in [Requests -> [pc : PCs, began : 0..now, version : Nat, day : 0..day]]
          /\ Alone(r)
      BY <1>1, <3>1, <3>2 DEF Alone
    <3>4. ASSUME NEW q \in Requests, NEW s \in Requests, At[q] = At[s],
                 request'[q].pc \in Submitting, request'[s].pc \in Submitting
          PROVE  q = s
      <4>1. request[q].pc \in Submitting /\ request[s].pc \in Submitting
        BY <1>3, <3>3, <3>4 DEF Alone
      <4> QED BY <3>4, <4>1 DEF TypeOK
    <3> QED BY <1>2, <3>3, <3>4
  <2>2. CASE ~Charge(r)
    <3>1. PICK pc \in PCs : Goes(r, pc)
      <4>1. {"full", "active", "busy", "charge", "create", "exhausted", "enqueue", "accepted",
             "failed"} \subseteq PCs
        BY DEF PCs, Submitting, Gates
      <4> QED BY <2>2, <4>1 DEF Submits, CheckBacklog, CheckActive, PastConcurrency, CheckUsed, Create,
                           Enqueue, CallRaises
    <3> QED BY <1>2, <1>3, <3>1, MoveKeepsTypes
  <2> QED BY <2>1, <2>2
<1>5. usage' \in [Callers -> [0..MaxDay -> Nat]]
  <2>1. usage' = usage \/ usage' = [usage EXCEPT ![By[r]][day] = usage[By[r]][day] + 1]
    <3>1. CASE CallRaises(r)
      BY <3>1 DEF CallRaises
    <3>2. CASE Charge(r)
      BY <3>2 DEF Charge
    <3>3. CASE ~CallRaises(r) /\ ~Charge(r)
      BY <3>3 DEF Submits, CheckBacklog, CheckActive, CheckUsed, Create, Enqueue
    <3> QED BY <3>1, <3>2, <3>3
  <2>2. usage[By[r]] \in [0..MaxDay -> Nat] /\ usage[By[r]][day] + 1 \in Nat
    <3>1. usage[By[r]] \in [0..MaxDay -> Nat]
      BY <1>1
    <3> HIDE AdmissionAssumption
    <3>2. usage[By[r]][day] \in Nat
      BY <1>1, <3>1
    <3> QED BY <3>1, <3>2
  <2>3. [usage[By[r]] EXCEPT ![day] = usage[By[r]][day] + 1] \in [0..MaxDay -> Nat]
    BY <2>2
  <2> QED BY <1>1, <2>1, <2>3
<1>6. /\ job' \in [Requests -> {"absent", "queued", "running", "done"}]
      /\ pushed' \subseteq Requests /\ stranded' \subseteq Requests
  BY <1>1 DEF TypeOK, Submits, CheckBacklog, CheckActive, Charge, CheckUsed, Create, Enqueue,
              CallRaises
<1>7. spent' \in [requeues : Nat, errors : Nat, losses : Nat]
  <2>1. spent' = spent \/ spent' = [spent EXCEPT !.errors = spent.errors + 1]
    <3>1. CASE CallRaises(r)
      BY <3>1 DEF CallRaises
    <3>2. CASE ~CallRaises(r)
      BY <3>2 DEF Submits, CheckBacklog, CheckActive, Charge, CheckUsed, Create, Enqueue
    <3> QED BY <3>1, <3>2
  <2>2. spent \in [requeues : Nat, errors : Nat, losses : Nat]
    BY DEF TypeOK
  <2>3. spent.errors + 1 \in Nat
    BY <2>2
  <2> QED BY <2>1, <2>2, <2>3
<1>8. \A q \in Requests :
        job'[q] # "absent" => request'[q].pc \in {"enqueue", "accepted", "failed"}
  <2> SUFFICES ASSUME NEW q \in Requests, job'[q] # "absent"
               PROVE  request'[q].pc \in {"enqueue", "accepted", "failed"}
    OBVIOUS
  <2>1. CASE q # r
    <3>1. job'[q] = job[q]
      BY <1>1, <2>1 DEF Submits, CheckBacklog, CheckActive, Charge, CheckUsed, Create, Enqueue,
                        CallRaises
    <3> QED BY <1>4, <2>1, <3>1 DEF TypeOK, Alone
  <2>2. CASE q = r
    <3>1. request[r].pc \notin {"accepted", "failed"}
      BY <1>3 DEF Submitting, Gates
    <3>2. request[r].pc # "enqueue" => job[r] = "absent"
      BY <3>1 DEF TypeOK
    <3>3. CASE Create(r) \/ Enqueue(r) \/ CallRaises(r)
      BY <1>1, <2>2, <3>3 DEF Create, Enqueue, CallRaises, Goes
    <3>4. CASE CheckBacklog(r) \/ CheckActive(r) \/ Charge(r) \/ CheckUsed(r)
      BY <2>2, <3>2, <3>4 DEF CheckBacklog, CheckActive, Charge, CheckUsed
    <3> QED BY <3>3, <3>4 DEF Submits
  <2> QED BY <2>1, <2>2
<1> QED BY <1>2, <1>4, <1>5, <1>6, <1>7, <1>8 DEF TypeOK

(* The workers, the operator and the clocks.                               *)
LEMMA OthersKeepTypes ==
  ASSUME TypeOK,
         \/ \E r \in Requests : Work(r) \/ RequeueJob(r) \/ Lose(r)
         \/ \E c \in Callers : ChangeKey(c)
         \/ Tick \/ Midnight
         \/ UNCHANGED vars
  PROVE  TypeOK'
<1> USE AdmissionAssumption
<1>1. CASE \E r \in Requests : Work(r) \/ RequeueJob(r) \/ Lose(r)
  <2>1. PICK r \in Requests : Work(r) \/ RequeueJob(r) \/ Lose(r)
    BY <1>1
  <2>2. UNCHANGED <<now, day, record, replaced, cache, request, usage, pushed>>
        /\ stranded' \subseteq Requests
    BY <2>1 DEF TypeOK, Work, StartJob, FinishJob, RequeueJob, Lose, LosePush, LoseWorker, keys
  <2>3. /\ job' \in [Requests -> {"absent", "queued", "running", "done"}]
        /\ \A q \in Requests : job'[q] # "absent" => job[q] # "absent"
    BY <2>1 DEF TypeOK, Work, StartJob, FinishJob, RequeueJob, Lose, LosePush, LoseWorker
  <2>4. spent' \in [requeues : Nat, errors : Nat, losses : Nat]
    <3>1. \/ spent' = spent
          \/ spent' = [spent EXCEPT !.requeues = spent.requeues + 1]
          \/ spent' = [spent EXCEPT !.losses = spent.losses + 1]
      BY <2>1 DEF Work, StartJob, FinishJob, RequeueJob, Lose, LosePush, LoseWorker
    <3>2. spent \in [requeues : Nat, errors : Nat, losses : Nat]
      BY DEF TypeOK
    <3>3. spent.requeues + 1 \in Nat /\ spent.losses + 1 \in Nat
      BY <3>2
    <3> QED BY <3>1, <3>2, <3>3
  <2> QED BY <2>2, <2>3, <2>4 DEF TypeOK
<1>2. CASE \E c \in Callers : ChangeKey(c)
  <2>1. PICK c \in Callers : ChangeKey(c)
    BY <1>2
  <2>2. UNCHANGED <<now, day, cache, request, usage, job, pushed, stranded, spent>>
    BY <2>1 DEF ChangeKey
  <2>3. record' \in [Callers -> Nat \ {0}]
    <3>1. record \in [Callers -> Nat \ {0}]
      BY DEF TypeOK
    <3>2. record[c] + 1 \in Nat \ {0}
      BY <3>1
    <3> QED BY <2>1, <3>1, <3>2 DEF ChangeKey
  <2> QED BY <2>2, <2>3 DEF TypeOK
<1>3. CASE Tick
  <2>1. now' \in 0..MaxTime /\ 0..now \subseteq 0..now'
    BY <1>3 DEF TypeOK, Tick
  <2>2. UNCHANGED <<day, record, replaced, cache, request, usage, job, pushed, stranded, spent>>
    BY <1>3 DEF Tick, keys
  <2>3. request \in [Requests -> [pc : PCs, began : 0..now', version : Nat, day : 0..day]]
    <3>1. request \in [Requests -> [pc : PCs, began : 0..now, version : Nat, day : 0..day]]
      BY DEF TypeOK
    <3> QED BY <2>1, <3>1
  <2> QED BY <2>1, <2>2, <2>3 DEF TypeOK
<1>4. CASE Midnight
  <2>1. day' \in 0..MaxDay /\ 0..day \subseteq 0..day'
    BY <1>4 DEF TypeOK, Midnight
  <2>2. UNCHANGED <<now, record, replaced, cache, request, usage, job, pushed, stranded, spent>>
    BY <1>4 DEF Midnight, keys
  <2>3. request \in [Requests -> [pc : PCs, began : 0..now, version : Nat, day : 0..day']]
    <3>1. request \in [Requests -> [pc : PCs, began : 0..now, version : Nat, day : 0..day]]
      BY DEF TypeOK
    <3> QED BY <2>1, <3>1
  <2> QED BY <2>1, <2>2, <2>3 DEF TypeOK
<1>5. CASE UNCHANGED vars
  BY <1>5 DEF TypeOK, vars, keys
<1> QED BY <1>1, <1>2, <1>3, <1>4, <1>5

(* Every step is one of a request's own, or one of the others.             *)
LEMMA StepCases ==
  ASSUME [Next]_vars
  PROVE  \/ \E r \in Requests : \/ LookupHit(r) \/ LookupMiss(r) \/ ReadRecord(r) \/ Remember(r)
                               \/ BeginSubmit(r) \/ Submits(r) \/ Work(r) \/ RequeueJob(r) \/ Lose(r)
         \/ \E c \in Callers : ChangeKey(c)
         \/ Tick \/ Midnight \/ UNCHANGED vars
BY DEF Next, Serve, Submits

LEMMA TypeStep == TypeOK /\ [Next]_vars => TypeOK'
BY StepCases, LookupKeepsTypes, BeginKeepsTypes, SubmissionKeepsTypes, OthersKeepTypes

-----------------------------------------------------------------------------
(***************************************************************************)
(* Keys.  RevocationInTime is not inductive: a lookup that finds an entry  *)
(* in the cache relies on when the entry was made.                         *)
(***************************************************************************)
(* The versions of a record up to the current one were replaced, each at   *)
(* some time; the current one was not.                                     *)
History ==
  /\ replaced = [c \in Callers |-> replaced[c]]
  /\ \A c \in Callers :
       /\ record[c] <= MaxChanges[c] /\ replaced[c] \in [0..MaxChanges[c] -> Int]
       /\ \A v \in 0..MaxChanges[c] : v >= record[c] => replaced[c][v] = -1

(* A version in the cache was not replaced before its lookup began, TTL    *)
(* before the entry expires.                                               *)
CacheIsFresh ==
  \A i \in Instances, c \in Callers :
    LET e == cache[i][c]
    IN /\ e.version <= record[c] /\ e.expires <= now + TTL
       /\ replaced[c][e.version] # -1 => replaced[c][e.version] + TTL >= e.expires

(* Neither was one that was read just now, nor one a lookup decided by,    *)
(* TTL before.                                                             *)
LookupIsFresh(r) ==
  LET gone == replaced[By[r]][request[r].version]
  IN /\ request[r].pc \in {"remember", "caller", "invalid"} =>
          /\ request[r].version <= record[By[r]]
          /\ gone # -1 => gone >= request[r].began \/ gone + TTL > request[r].began
     /\ request[r].pc = "remember" /\ gone # -1 => gone >= request[r].began

KeysInv == History /\ CacheIsFresh /\ \A r \in Requests : LookupIsFresh(r)

LEMMA KeysInit == Init => KeysInv
<1> SUFFICES ASSUME Init PROVE KeysInv
  OBVIOUS
<1> USE AdmissionAssumption
<1>1. History
  BY DEF Init, History
<1>2. CacheIsFresh
  BY DEF Init, CacheIsFresh
<1>3. \A r \in Requests : LookupIsFresh(r)
  BY DEF Init, LookupIsFresh
<1> QED BY <1>1, <1>2, <1>3 DEF KeysInv

(* A step that leaves records and cache alone, and no request newly        *)
(* decided.                                                                *)
LEMMA KeysUntouched ==
  ASSUME TypeOK, KeysInv, UNCHANGED <<record, replaced, cache>>, now' \in Nat, now <= now',
         \A r \in Requests :
           \/ request'[r].pc \notin {"remember", "caller", "invalid"}
           \/ request'[r] = request[r]
  PROVE  KeysInv'
<1> USE AdmissionAssumption
<1>1. History'
  BY DEF KeysInv, History
<1>2. CacheIsFresh'
  <2> SUFFICES ASSUME NEW i \in Instances, NEW c \in Callers
               PROVE  cache[i][c].expires <= now' + TTL
    BY DEF KeysInv, CacheIsFresh
  <2>1. cache[i][c].expires \in Nat /\ now \in Nat /\ TTL \in Nat
    BY DEF TypeOK
  <2> QED BY <2>1 DEF KeysInv, CacheIsFresh
<1>3. \A r \in Requests : LookupIsFresh(r)'
  <2> SUFFICES ASSUME NEW r \in Requests PROVE LookupIsFresh(r)'
    OBVIOUS
  <2>1. CASE request'[r].pc \notin {"remember", "caller", "invalid"}
    BY <2>1 DEF LookupIsFresh
  <2>2. CASE request'[r] = request[r]
    BY <2>2 DEF LookupIsFresh, KeysInv
  <2> QED BY <2>1, <2>2
<1> QED BY <1>1, <1>2, <1>3 DEF KeysInv

(* The current version was not replaced.                                   *)
LEMMA CurrentIsThere ==
  ASSUME TypeOK, KeysInv, NEW c \in Callers
  PROVE  /\ record[c] \in Nat \ {0} /\ record[c] \in 0..MaxChanges[c]
         /\ replaced[c] \in [0..MaxChanges[c] -> Int] /\ replaced[c][record[c]] = -1
<1>1. record[c] \in Nat \ {0}
  BY DEF TypeOK
<1>2. record[c] <= MaxChanges[c] /\ replaced[c] \in [0..MaxChanges[c] -> Int]
      /\ \A v \in 0..MaxChanges[c] : v >= record[c] => replaced[c][v] = -1
  BY DEF KeysInv, History
<1>3. record[c] \in 0..MaxChanges[c]
  BY <1>1, <1>2, Numbers
<1> QED BY <1>1, <1>2, <1>3

(* The steps of a lookup: a version is current when it is read.            *)
LEMMA LookupKeepsKeys ==
  ASSUME TypeOK, KeysInv, NEW r \in Requests,
         LookupHit(r) \/ LookupMiss(r) \/ ReadRecord(r) \/ Remember(r)
  PROVE  KeysInv'
<1> DEFINE hit == cache[At[r]][By[r]]
<1>1. request \in [Requests -> [pc : PCs, began : 0..now, version : Nat, day : 0..day]]
      /\ now \in Nat /\ TTL \in Nat /\ At[r] \in Instances /\ By[r] \in Callers
  BY Numbers DEF TypeOK
<1>2. cache \in [Instances -> [Callers -> [version : Nat, expires : Nat]]]
      /\ record \in [Callers -> Nat \ {0}]
  BY DEF TypeOK
<1>3. UNCHANGED <<now, record, replaced>>
  BY DEF LookupHit, LookupMiss, ReadRecord, Remember, keys
<1>4. \A c \in Callers : record[c] \in 0..MaxChanges[c] /\ replaced[c][record[c]] = -1
                       /\ replaced[c] \in [0..MaxChanges[c] -> Int]
  BY CurrentIsThere
<1>5. History'
  BY <1>3 DEF KeysInv, History
<1>6. Alone(r)
  BY <1>1 DEF LookupHit, LookupMiss, ReadRecord, Remember, Decided, Alone
<1>7. \A q \in Requests \ {r} : LookupIsFresh(q)'
  BY <1>3, <1>6 DEF KeysInv, LookupIsFresh, Alone
<1>8. CASE LookupHit(r)
  <2>1. /\ request'[r].version = hit.version /\ request'[r].began = now
        /\ request'[r].pc \in {"caller", "invalid"} /\ hit.expires > now
    BY <1>1, <1>8 DEF LookupHit, Decided
  <2>2. hit.version \in Nat /\ hit.expires \in Nat /\ hit.version <= record[By[r]]
    BY <1>1, <1>2 DEF KeysInv, CacheIsFresh
  <2>3. hit.version \in 0..MaxChanges[By[r]]
    <3>1. record[By[r]] \in 0..MaxChanges[By[r]] /\ MaxChanges[By[r]] \in Nat
      BY <1>1, <1>4, Numbers
    <3> HIDE DEF hit
    <3> QED BY <2>2, <3>1
  <2>4. replaced[By[r]][hit.version] \in Int
    BY <1>1, <1>4, <2>3
  <2>5. replaced[By[r]][hit.version] # -1 => replaced[By[r]][hit.version] + TTL >= hit.expires
    BY <1>1 DEF KeysInv, CacheIsFresh
  <2>6. LookupIsFresh(r)'
    BY <1>1, <1>3, <2>1, <2>2, <2>4, <2>5 DEF LookupIsFresh
  <2>7. CacheIsFresh'
    BY <1>3, <1>8 DEF KeysInv, CacheIsFresh, LookupHit
  <2> QED BY <1>5, <1>7, <2>6, <2>7 DEF KeysInv
<1>9. CASE LookupMiss(r)
  <2>1. request'[r].pc = "read"
    BY <1>1, <1>9 DEF LookupMiss
  <2>2. LookupIsFresh(r)'
    BY <2>1 DEF LookupIsFresh
  <2>3. CacheIsFresh'
    BY <1>3, <1>9 DEF KeysInv, CacheIsFresh, LookupMiss
  <2> QED BY <1>5, <1>7, <2>2, <2>3 DEF KeysInv
<1>10. CASE ReadRecord(r)
  <2>1. request'[r].version = record[By[r]]
    BY <1>1, <1>2, <1>10 DEF ReadRecord
  <2>2. LookupIsFresh(r)'
    BY <1>1, <1>2, <1>3, <1>4, <2>1 DEF LookupIsFresh
  <2>3. CacheIsFresh'
    BY <1>3, <1>10 DEF KeysInv, CacheIsFresh, ReadRecord
  <2> QED BY <1>5, <1>7, <2>2, <2>3 DEF KeysInv
<1>11. CASE Remember(r)
  <2>1. /\ request[r].pc = "remember"
        /\ request'[r].version = request[r].version /\ request'[r].began = request[r].began
        /\ request'[r].pc \in {"caller", "invalid"}
    BY <1>1, <1>11 DEF Remember, Decided
  <2>2. request[r].version \in Nat /\ request[r].began \in 0..now
    BY <1>1
  <2>3. LookupIsFresh(r)
    BY DEF KeysInv
  <2>4. LookupIsFresh(r)'
    BY <1>3, <2>1, <2>3 DEF LookupIsFresh
  <2>5. cache' = [cache EXCEPT ![At[r]][By[r]] =
                    [version |-> request[r].version, expires |-> request[r].began + TTL]]
    BY <1>11 DEF Remember
  <2>6. request[r].version \in 0..MaxChanges[By[r]] /\ request[r].version <= record[By[r]]
    <3>1. request[r].version <= record[By[r]]
      BY <2>1, <2>3 DEF LookupIsFresh
    <3>2. record[By[r]] \in 0..MaxChanges[By[r]] /\ MaxChanges[By[r]] \in Nat
      BY <1>1, <1>4, Numbers
    <3> QED BY <2>2, <3>1, <3>2
  <2>7. replaced[By[r]][request[r].version] \in Int
    BY <1>1, <1>4, <2>6
  <2>8. CacheIsFresh'
    <3> SUFFICES ASSUME NEW i \in Instances, NEW c \in Callers
                 PROVE  LET e == cache'[i][c]
                        IN /\ e.version <= record[c] /\ e.expires <= now + TTL
                           /\ replaced[c][e.version] # -1 => replaced[c][e.version] + TTL >= e.expires
      BY <1>3 DEF CacheIsFresh
    <3>1. CASE i = At[r] /\ c = By[r]
      <4>1. cache'[i][c] = [version |-> request[r].version, expires |-> request[r].began + TTL]
        BY <1>1, <1>2, <2>5, <3>1
      <4>2. request[r].began + TTL <= now + TTL
        BY <1>1, <2>2
      <4>3. replaced[c][request[r].version] # -1
              => replaced[c][request[r].version] + TTL >= request[r].began + TTL
        BY <1>1, <2>1, <2>2, <2>3, <2>7, <3>1 DEF LookupIsFresh
      <4> QED BY <2>6, <3>1, <4>1, <4>2, <4>3
    <3>2. CASE ~(i = At[r] /\ c = By[r])
      <4>1. cache'[i][c] = cache[i][c]
        BY <1>1, <1>2, <2>5, <3>2
      <4> QED BY <4>1 DEF KeysInv, CacheIsFresh
    <3> QED BY <3>1, <3>2
  <2> QED BY <1>5, <1>7, <2>4, <2>8 DEF KeysInv
<1> QED BY <1>8, <1>9, <1>10, <1>11

(* A change to a key: whoever looked the old version up began before.      *)
LEMMA ChangeKeepsKeys ==
  ASSUME TypeOK, KeysInv, NEW k \in Callers, ChangeKey(k)
  PROVE  KeysInv'
<1>1. /\ now \in Nat /\ TTL \in Nat /\ record[k] \in Nat \ {0} /\ MaxChanges[k] \in Nat
      /\ record[k] < MaxChanges[k] /\ record \in [Callers -> Nat \ {0}]
      /\ record' = [record EXCEPT ![k] = record[k] + 1]
      /\ UNCHANGED <<now, cache, request>>
  <2>1. now \in Nat /\ record \in [Callers -> Nat \ {0}]
    BY Numbers DEF TypeOK
  <2>2. /\ record[k] < MaxChanges[k] /\ record' = [record EXCEPT ![k] = record[k] + 1]
        /\ UNCHANGED <<now, cache, request>>
    BY DEF ChangeKey
  <2> QED BY <2>1, <2>2, Numbers
<1>2. /\ \A c \in Callers \ {k} : replaced'[c] = replaced[c] /\ record'[c] = record[c]
      /\ replaced' = [c \in Callers |-> replaced'[c]]
      /\ replaced'[k] = [replaced[k] EXCEPT ![record[k]] = now] /\ record'[k] = record[k] + 1
  <2>1. replaced' = [replaced EXCEPT ![k] = [replaced[k] EXCEPT ![record[k]] = now]]
    BY DEF ChangeKey
  <2>2. replaced = [c \in Callers |-> replaced[c]]
    BY DEF KeysInv, History
  <2> QED BY <1>1, <2>1, <2>2
<1>3. replaced[k] \in [0..MaxChanges[k] -> Int]
  BY DEF KeysInv, History
<1>4. replaced'[k] \in [0..MaxChanges[k] -> Int]
      /\ \A v \in 0..MaxChanges[k] :
           replaced'[k][v] = IF v = record[k] THEN now ELSE replaced[k][v]
  <2>1. now \in Int /\ record[k] \in 0..MaxChanges[k]
    BY <1>1
  <2> QED BY <1>2, <1>3, <2>1
<1>5. History'
  <2>1. ASSUME NEW c \in Callers
        PROVE  /\ record'[c] <= MaxChanges[c] /\ replaced'[c] \in [0..MaxChanges[c] -> Int]
               /\ \A v \in 0..MaxChanges[c] : v >= record'[c] => replaced'[c][v] = -1
    <3>1. CASE c = k
      <4>1. ASSUME NEW v \in 0..MaxChanges[k], v >= record[k] + 1
            PROVE  replaced'[k][v] = -1
        <5>1. v # record[k] /\ v >= record[k]
          BY <1>1, <4>1
        <5> QED BY <1>4, <5>1 DEF KeysInv, History
      <4>2. record'[k] <= MaxChanges[k]
        BY <1>1, <1>2
      <4> QED BY <1>2, <1>4, <3>1, <4>1, <4>2
    <3>2. CASE c # k
      <4>1. record'[c] = record[c] /\ replaced'[c] = replaced[c]
        BY <1>2, <3>2
      <4> QED BY <4>1 DEF KeysInv, History
    <3> QED BY <3>1, <3>2
  <2> QED BY <1>2, <2>1 DEF History
<1>6. CacheIsFresh'
  <2> SUFFICES ASSUME NEW i \in Instances, NEW c \in Callers
               PROVE  LET e == cache[i][c]
                      IN /\ e.version <= record'[c] /\ e.expires <= now + TTL
                         /\ replaced'[c][e.version] # -1 => replaced'[c][e.version] + TTL >= e.expires
    BY <1>1 DEF CacheIsFresh
  <2>1. /\ cache[i][c].version <= record[c] /\ cache[i][c].expires <= now + TTL
        /\ replaced[c][cache[i][c].version] # -1
             => replaced[c][cache[i][c].version] + TTL >= cache[i][c].expires
    BY DEF KeysInv, CacheIsFresh
  <2>2. cache[i][c].version \in Nat /\ cache[i][c].expires \in Nat
    <3>1. cache \in [Instances -> [Callers -> [version : Nat, expires : Nat]]]
      BY DEF TypeOK
    <3> QED BY <3>1
  <2>3. CASE c = k
    <3>1. cache[i][k].version \in 0..MaxChanges[k]
      BY <1>1, <2>1, <2>2, <2>3
    <3>2. CASE cache[i][k].version = record[k]
      BY <1>1, <1>2, <1>4, <2>1, <2>2, <2>3, <3>1, <3>2
    <3>3. CASE cache[i][k].version # record[k]
      <4>1. replaced'[k][cache[i][k].version] = replaced[k][cache[i][k].version]
        BY <1>4, <3>1, <3>3
      <4>2. cache[i][k].version <= record'[k]
        BY <1>1, <1>2, <2>1, <2>2, <2>3
      <4> QED BY <2>1, <2>3, <4>1, <4>2
    <3> QED BY <3>2, <3>3
  <2>4. CASE c # k
    BY <1>2, <2>1, <2>4
  <2> QED BY <2>3, <2>4
<1>7. ASSUME NEW r \in Requests PROVE LookupIsFresh(r)'
  <2>1. LookupIsFresh(r)
    BY DEF KeysInv
  <2>2. request[r].version \in Nat /\ request[r].began \in 0..now /\ request'[r] = request[r]
        /\ By[r] \in Callers
    <3>1. request \in [Requests -> [pc : PCs, began : 0..now, version : Nat, day : 0..day]]
      BY DEF TypeOK
    <3> QED BY <1>1, <3>1, Numbers
  <2>3. CASE By[r] # k
    BY <1>2, <2>1, <2>2, <2>3 DEF LookupIsFresh
  <2>4. CASE By[r] = k /\ request[r].pc \in {"remember", "caller", "invalid"}
    <3>1. request[r].version <= record[k] /\ request[r].version \in 0..MaxChanges[k]
      BY <1>1, <2>1, <2>2, <2>4 DEF LookupIsFresh
    <3>2. CASE request[r].version = record[k]
      <4>1. replaced'[k][request[r].version] = now
        BY <1>4, <3>1, <3>2
      <4>2. now >= request[r].began /\ request[r].version <= record[k] + 1
        BY <1>1, <2>2, <3>1
      <4> QED BY <1>2, <2>2, <2>4, <4>1, <4>2 DEF LookupIsFresh
    <3>3. CASE request[r].version # record[k]
      <4>1. replaced'[k][request[r].version] = replaced[k][request[r].version]
        BY <1>4, <3>1, <3>3
      <4>2. request[r].version <= record[k] + 1
        BY <1>1, <2>2, <3>1
      <4> QED BY <1>2, <2>1, <2>2, <2>4, <4>1, <4>2 DEF LookupIsFresh
    <3> QED BY <3>2, <3>3
  <2>5. CASE By[r] = k /\ request[r].pc \notin {"remember", "caller", "invalid"}
    BY <2>2, <2>5 DEF LookupIsFresh
  <2> QED BY <2>3, <2>4, <2>5
<1> QED BY <1>5, <1>6, <1>7 DEF KeysInv

LEMMA KeysStep == TypeOK /\ KeysInv /\ [Next]_vars => KeysInv'
<1> SUFFICES ASSUME TypeOK, KeysInv, [Next]_vars PROVE KeysInv'
  OBVIOUS
<1>1. now \in Nat
  BY DEF TypeOK
<1>2. ASSUME NEW r \in Requests, BeginSubmit(r) \/ Submits(r)
      PROVE  KeysInv'
  <2>1. UNCHANGED <<now, record, replaced, cache>>
    BY <1>2 DEF BeginSubmit, Submits, CheckBacklog, CheckActive, Charge, CheckUsed, Create,
                Enqueue, CallRaises, keys
  <2>2. request \in [Requests -> [pc : PCs, began : 0..now, version : Nat, day : 0..day]]
    BY DEF TypeOK
  <2>3. Alone(r)
    <3>1. CASE BeginSubmit(r)
      BY <2>2, <3>1 DEF BeginSubmit, Alone
    <3>2. CASE Submits(r)
      BY <3>2, SubmissionKeepsTypes
    <3> QED BY <1>2, <3>1, <3>2
  <2>4. request'[r].pc \notin {"remember", "caller", "invalid"}
    <3>1. CASE BeginSubmit(r)
      BY <2>2, <3>1 DEF BeginSubmit
    <3>2. CASE Charge(r)
      BY <2>2, <3>2 DEF Charge
    <3>3. CASE CheckBacklog(r) \/ CheckActive(r) \/ CheckUsed(r)
      BY <2>2, <3>3 DEF CheckBacklog, CheckActive, PastConcurrency, CheckUsed, Goes
    <3>4. CASE Create(r) \/ Enqueue(r) \/ CallRaises(r)
      BY <2>2, <3>4 DEF Create, Enqueue, CallRaises, Goes
    <3> QED BY <1>2, <3>1, <3>2, <3>3, <3>4 DEF Submits
  <2> QED BY <1>1, <2>1, <2>3, <2>4, KeysUntouched DEF Alone
<1>3. ASSUME UNCHANGED <<record, replaced, cache, request>>, now' \in {now, now + 1}
      PROVE  KeysInv'
  BY <1>1, <1>3, KeysUntouched
<1>4. ASSUME NEW r \in Requests, Work(r) \/ RequeueJob(r) \/ Lose(r)
      PROVE  KeysInv'
  BY <1>3, <1>4 DEF Work, StartJob, FinishJob, RequeueJob, Lose, LosePush, LoseWorker, keys
<1>5. ASSUME Tick \/ Midnight \/ UNCHANGED vars
      PROVE  KeysInv'
  BY <1>3, <1>5 DEF Tick, Midnight, vars, keys
<1> QED BY <1>2, <1>4, <1>5, StepCases, LookupKeepsKeys, ChangeKeepsKeys

-----------------------------------------------------------------------------
(***************************************************************************)
(* The daily quota.  A request that got past the last gate had raised the  *)
(* counter before, and so had all that got past it earlier.                *)
(***************************************************************************)
Admitted(c, d) ==
  {r \in Requests : By[r] = c /\ request[r].day = d /\ (request[r].pc = "create" \/ job[r] # "absent")}

Charged(c, d) ==
  Admitted(c, d) \cup {r \in Requests : By[r] = c /\ request[r].day = d /\ request[r].pc = "used"}

QuotaInv ==
  \A c \in Callers, d \in 0..MaxDay : QuotaOf(c) > 0 =>
    Cardinality(Charged(c, d)) <= usage[c][d] /\ Cardinality(Admitted(c, d)) <= QuotaOf(c)

LEMMA Finite ==
  ASSUME NEW S \in SUBSET Requests
  PROVE  IsFiniteSet(S) /\ Cardinality(S) \in Nat
BY AdmissionAssumption, FS_Subset, FS_CardinalityType

LEMMA Smaller ==
  ASSUME NEW S \in SUBSET Requests, NEW T \in SUBSET S
  PROVE  Cardinality(T) <= Cardinality(S)
BY Finite, FS_Subset

(* One request more is at most one more.                                   *)
LEMMA OneMore ==
  ASSUME NEW S \in SUBSET Requests, NEW r \in Requests, NEW T \in SUBSET (S \cup {r})
  PROVE  Cardinality(T) <= Cardinality(S) + 1
<1>1. IsFiniteSet(S) /\ Cardinality(S) \in Nat
  BY Finite
<1>2. IsFiniteSet(S \cup {r}) /\ Cardinality(S \cup {r}) <= Cardinality(S) + 1
  BY <1>1, FS_AddElement
<1>3. Cardinality(T) <= Cardinality(S \cup {r}) /\ Cardinality(T) \in Nat
      /\ Cardinality(S \cup {r}) \in Nat
  BY <1>2, FS_Subset, FS_CardinalityType
<1> QED BY <1>1, <1>2, <1>3

LEMMA QuotaIsInt == ASSUME NEW c \in Callers PROVE QuotaOf(c) \in Int /\ ConcurrentOf(c) \in Int
BY AdmissionAssumption DEF QuotaOf, ConcurrentOf

LEMMA QuotaInit == Init => QuotaInv
<1> SUFFICES ASSUME Init, NEW c \in Callers, NEW d \in 0..MaxDay, QuotaOf(c) > 0
             PROVE  Cardinality(Charged(c, d)) <= usage[c][d] /\ Cardinality(Admitted(c, d)) <= QuotaOf(c)
  BY DEF QuotaInv
<1>1. Admitted(c, d) = {} /\ Charged(c, d) = {} /\ usage[c][d] = 0
  BY DEF Init, Admitted, Charged
<1>2. Cardinality({}) = 0
  BY FS_EmptySet
<1> QED BY <1>1, <1>2, QuotaIsInt

(* The counters are never lowered.                                         *)
LEMMA CountersGrow ==
  ASSUME TypeOK, [Next]_vars, NEW c \in Callers, NEW d \in 0..MaxDay
  PROVE  usage[c][d] \in Nat /\ usage'[c][d] \in Nat /\ usage'[c][d] >= usage[c][d]
<1>1. usage \in [Callers -> [0..MaxDay -> Nat]] /\ day \in 0..MaxDay
  BY DEF TypeOK
<1>2. usage' \in [Callers -> [0..MaxDay -> Nat]]
  BY TypeStep DEF TypeOK
<1>3. usage[c][d] \in Nat /\ usage'[c][d] \in Nat
  BY <1>1, <1>2
<1>4. usage' = usage \/ \E k \in Callers : usage' = [usage EXCEPT ![k][day] = usage[k][day] + 1]
  <2>1. ASSUME NEW r \in Requests, Charge(r) \/ CallRaises(r)
        PROVE  usage' = usage \/ \E k \in Callers : usage' = [usage EXCEPT ![k][day] = usage[k][day] + 1]
    <3>1. By[r] \in Callers
      BY Numbers
    <3>2. usage' = usage \/ usage' = [usage EXCEPT ![By[r]][day] = usage[By[r]][day] + 1]
      <4>1. CASE Charge(r)
        BY <4>1 DEF Charge
      <4>2. CASE CallRaises(r)
        BY <4>2 DEF CallRaises
      <4> QED BY <2>1, <4>1, <4>2
    <3> QED BY <3>1, <3>2
  <2>2. ASSUME NEW r \in Requests,
               \/ LookupHit(r) \/ LookupMiss(r) \/ ReadRecord(r) \/ Remember(r) \/ BeginSubmit(r)
               \/ CheckBacklog(r) \/ CheckActive(r) \/ CheckUsed(r) \/ Create(r) \/ Enqueue(r)
               \/ Work(r) \/ RequeueJob(r) \/ Lose(r)
        PROVE  usage' = usage
    BY <2>2 DEF LookupHit, LookupMiss, ReadRecord, Remember, BeginSubmit, CheckBacklog, CheckActive,
                CheckUsed, Create, Enqueue, Work, StartJob, FinishJob, RequeueJob, Lose, LosePush,
                LoseWorker
  <2>3. ASSUME (\E k \in Callers : ChangeKey(k)) \/ Tick \/ Midnight \/ UNCHANGED vars
        PROVE  usage' = usage
    BY <2>3 DEF ChangeKey, Tick, Midnight, vars
  <2> QED BY <2>1, <2>2, <2>3, StepCases DEF Submits
<1>5. CASE usage' = usage
  BY <1>3, <1>5
<1>6. CASE \E k \in Callers : usage' = [usage EXCEPT ![k][day] = usage[k][day] + 1]
  <2>1. PICK k \in Callers : usage' = [usage EXCEPT ![k][day] = usage[k][day] + 1]
    BY <1>6
  <2>2. CASE k = c /\ d = day
    <3>1. usage'[c][d] = usage[c][d] + 1
      BY <1>1, <2>1, <2>2
    <3> QED BY <1>3, <3>1
  <2>3. CASE ~(k = c /\ d = day)
    <3>1. usage'[c][d] = usage[c][d]
      BY <1>1, <2>1, <2>3
    <3> QED BY <1>3, <3>1
  <2> QED BY <2>2, <2>3
<1> QED BY <1>4, <1>5, <1>6

(* A request that was charged and admitted by this step is only one that   *)
(* was before.                                                             *)
NotNew(q) ==
  \/ request'[q].pc \notin {"used", "create"} /\ job'[q] = "absent"
  \/ /\ request'[q].day = request[q].day
     /\ request'[q].pc = "used" => request[q].pc = "used"
     /\ request'[q].pc = "create" \/ job'[q] # "absent" => request[q].pc = "create" \/ job[q] # "absent"

LEMMA QuotaNothingNew ==
  ASSUME TypeOK, QuotaInv, [Next]_vars, NEW c \in Callers, NEW d \in 0..MaxDay, QuotaOf(c) > 0,
         \A q \in Requests : By[q] = c => NotNew(q)
  PROVE  /\ Cardinality(Charged(c, d)') <= usage'[c][d]
         /\ Cardinality(Admitted(c, d)') <= QuotaOf(c)
<1>1. Charged(c, d)' \subseteq Charged(c, d) /\ Admitted(c, d)' \subseteq Admitted(c, d)
  BY DEF Charged, Admitted, NotNew
<1>2. Charged(c, d) \subseteq Requests /\ Admitted(c, d) \subseteq Requests
  BY DEF Charged, Admitted
<1>3. /\ Cardinality(Charged(c, d)') <= Cardinality(Charged(c, d))
      /\ Cardinality(Admitted(c, d)') <= Cardinality(Admitted(c, d))
  BY <1>1, <1>2, Smaller
<1>4. /\ Cardinality(Charged(c, d)') \in Nat /\ Cardinality(Charged(c, d)) \in Nat
      /\ Cardinality(Admitted(c, d)') \in Nat /\ Cardinality(Admitted(c, d)) \in Nat
  BY <1>1, <1>2, Finite
<1>5. Cardinality(Charged(c, d)) <= usage[c][d] /\ Cardinality(Admitted(c, d)) <= QuotaOf(c)
  BY DEF QuotaInv
<1> QED BY <1>3, <1>4, <1>5, CountersGrow, QuotaIsInt

(* Only Charge and CheckUsed bring a request of a caller with a quota      *)
(* closer to a job.                                                        *)
LEMMA QuotaOtherSteps ==
  ASSUME TypeOK, [Next]_vars, \A r \in Requests : ~Charge(r) /\ ~CheckUsed(r),
         NEW q \in Requests, QuotaOf(By[q]) > 0
  PROVE  NotNew(q)
<1>1. /\ request \in [Requests -> [pc : PCs, began : 0..now, version : Nat, day : 0..day]]
      /\ job \in [Requests -> {"absent", "queued", "running", "done"}]
  BY DEF TypeOK
<1>2. ASSUME NEW r \in Requests, Alone(r), q # r, \/ job' = job
                                                \/ \E s : job' = [job EXCEPT ![r] = s]
      PROVE  NotNew(q)
  BY <1>1, <1>2 DEF Alone, NotNew
<1>3. ASSUME NEW r \in Requests, LookupHit(r) \/ LookupMiss(r) \/ ReadRecord(r) \/ Remember(r)
      PROVE  NotNew(q)
  <2>1. job' = job /\ job[r] = "absent"
    BY <1>3 DEF LookupHit, LookupMiss, ReadRecord, Remember, TypeOK
  <2>2. Alone(r) /\ request'[r].pc \in {"caller", "invalid", "read", "remember"}
    <3>1. CASE LookupHit(r)
      BY <1>1, <3>1 DEF LookupHit, Decided, Alone
    <3>2. CASE LookupMiss(r)
      <4>1. request' = [request EXCEPT ![r] = [request[r] EXCEPT !.pc = "read", !.began = now]]
        BY <1>1, <3>2 DEF LookupMiss
      <4> QED BY <1>1, <4>1 DEF Alone
    <3>3. CASE ReadRecord(r)
      BY <1>1, <3>3 DEF ReadRecord, Alone
    <3>4. CASE Remember(r)
      BY <1>1, <3>4 DEF Remember, Decided, Alone
    <3> QED BY <1>3, <3>1, <3>2, <3>3, <3>4
  <2>3. CASE q = r
    BY <2>1, <2>2, <2>3 DEF NotNew
  <2>4. CASE q # r
    BY <1>2, <2>1, <2>2, <2>4
  <2> QED BY <2>3, <2>4
<1>4. ASSUME NEW r \in Requests, BeginSubmit(r)
      PROVE  NotNew(q)
  <2>1. job' = job /\ job[r] = "absent"
    BY <1>4 DEF BeginSubmit, TypeOK
  <2>2. Alone(r) /\ request'[r].pc = "backlog"
    BY <1>1, <1>4 DEF BeginSubmit, Alone
  <2>3. CASE q = r
    BY <2>1, <2>2, <2>3 DEF NotNew
  <2>4. CASE q # r
    BY <1>2, <2>1, <2>2, <2>4
  <2> QED BY <2>3, <2>4
<1>5. ASSUME NEW r \in Requests, Submits(r)
      PROVE  NotNew(q)
  <2>1. Alone(r)
    BY <1>5, SubmissionKeepsTypes
  <2>2. \/ job' = job
        \/ request[r].pc = "create" /\ job' = [job EXCEPT ![r] = "queued"]
    <3>1. CASE CallRaises(r)
      BY <3>1 DEF CallRaises
    <3>2. CASE ~CallRaises(r)
      BY <1>5, <3>2 DEF Submits, CheckBacklog, CheckActive, Charge, CheckUsed, Create, Enqueue
    <3> QED BY <3>1, <3>2
  <2>3. CASE q # r
    BY <1>2, <2>1, <2>2, <2>3
  <2>4. CASE q = r
    <3>1. request'[r].day = request[r].day /\ request'[r].pc \notin {"used", "create"}
      <4>1. CASE CheckBacklog(r) \/ Create(r) \/ Enqueue(r) \/ CallRaises(r)
        BY <1>1, <4>1 DEF CheckBacklog, Create, Enqueue, CallRaises, Goes
      <4>2. CASE CheckActive(r)
        BY <1>1, <2>4, <4>2 DEF CheckActive, PastConcurrency, Goes
      <4> QED BY <1>5, <4>1, <4>2 DEF Submits
    <3> QED BY <1>1, <2>2, <2>4, <3>1 DEF NotNew
  <2> QED BY <2>3, <2>4
<1>6. ASSUME NEW r \in Requests, Work(r) \/ RequeueJob(r) \/ Lose(r)
      PROVE  NotNew(q)
  <2>1. /\ request' = request /\ job[r] # "absent"
        /\ job' = job \/ \E s : job' = [job EXCEPT ![r] = s]
    BY <1>6 DEF Work, StartJob, FinishJob, RequeueJob, Lose, LosePush, LoseWorker
  <2> QED BY <1>1, <2>1 DEF NotNew
<1>7. ASSUME (\E c \in Callers : ChangeKey(c)) \/ Tick \/ Midnight \/ UNCHANGED vars
      PROVE  NotNew(q)
  BY <1>7 DEF ChangeKey, Tick, Midnight, vars, NotNew
<1> QED BY <1>3, <1>4, <1>5, <1>6, <1>7, StepCases

LEMMA QuotaStep == TypeOK /\ QuotaInv /\ [Next]_vars => QuotaInv'
<1> SUFFICES ASSUME TypeOK, QuotaInv, [Next]_vars,
                    NEW c \in Callers, NEW d \in 0..MaxDay, QuotaOf(c) > 0
             PROVE  /\ Cardinality(Charged(c, d)') <= usage'[c][d]
                    /\ Cardinality(Admitted(c, d)') <= QuotaOf(c)
  BY DEF QuotaInv, QuotaOf
<1>1. /\ request \in [Requests -> [pc : PCs, began : 0..now, version : Nat, day : 0..day]]
      /\ usage \in [Callers -> [0..MaxDay -> Nat]] /\ day \in 0..MaxDay
  BY DEF TypeOK
<1>2. Charged(c, d) \in SUBSET Requests /\ Admitted(c, d) \in SUBSET Charged(c, d)
      /\ Charged(c, d)' \in SUBSET Requests /\ Admitted(c, d)' \in SUBSET Requests
  BY DEF Charged, Admitted
<1>3. /\ Cardinality(Charged(c, d)) \in Nat /\ Cardinality(Admitted(c, d)) \in Nat
      /\ Cardinality(Charged(c, d)') \in Nat /\ Cardinality(Admitted(c, d)') \in Nat
      /\ Cardinality(Admitted(c, d)) <= Cardinality(Charged(c, d))
      /\ QuotaOf(c) \in Int
  BY <1>2, Finite, Smaller, QuotaIsInt
<1>4. Cardinality(Charged(c, d)) <= usage[c][d] /\ Cardinality(Admitted(c, d)) <= QuotaOf(c)
  BY DEF QuotaInv
<1>5. CASE \A r \in Requests : ~Charge(r) /\ ~CheckUsed(r)
  BY <1>5, QuotaOtherSteps, QuotaNothingNew
<1>6. ASSUME NEW r \in Requests, Charge(r)
      PROVE  /\ Cardinality(Charged(c, d)') <= usage'[c][d]
             /\ Cardinality(Admitted(c, d)') <= QuotaOf(c)
  <2>1. /\ Alone(r) /\ request'[r].pc = "used" /\ request'[r].day = day /\ job' = job
        /\ job[r] = "absent"
    <3>1. Alone(r)
      BY <1>6, SubmissionKeepsTypes DEF Submits
    <3>2. job[r] = "absent" /\ job' = job
      BY <1>6 DEF Charge, TypeOK
    <3>3. request' = [request EXCEPT ![r] = [request[r] EXCEPT !.pc = "used", !.day = day]]
      BY <1>1, <1>6 DEF Charge
    <3>4. request'[r] = [request[r] EXCEPT !.pc = "used", !.day = day]
      BY <1>1, <3>3
    <3>5. request'[r].pc = "used" /\ request'[r].day = day
      BY <1>1, <3>4
    <3> QED BY <3>1, <3>2, <3>5
  <2>2. Admitted(c, d)' \subseteq Admitted(c, d)
    BY <2>1 DEF Admitted, Alone
  <2>3. Cardinality(Admitted(c, d)') <= QuotaOf(c)
    <3>1. Cardinality(Admitted(c, d)') <= Cardinality(Admitted(c, d))
      BY <1>2, <2>2, Smaller
    <3> QED BY <1>3, <1>4, <3>1
  <2>4. CASE By[r] = c /\ d = day
    <3>1. Charged(c, d)' \in SUBSET (Charged(c, d) \cup {r})
      BY <2>1 DEF Charged, Admitted, Alone
    <3>2. Cardinality(Charged(c, d)') <= Cardinality(Charged(c, d)) + 1
      BY <1>2, <3>1, OneMore
    <3>3. usage'[c][d] = usage[c][d] + 1 /\ usage[c][d] \in Nat
      BY <1>1, <1>6, <2>4 DEF Charge
    <3> QED BY <1>3, <1>4, <2>3, <3>2, <3>3
  <2>5. CASE ~(By[r] = c /\ d = day)
    <3>1. Charged(c, d)' \subseteq Charged(c, d)
      BY <2>1, <2>5 DEF Charged, Admitted, Alone
    <3>2. Cardinality(Charged(c, d)') <= Cardinality(Charged(c, d))
      BY <1>2, <3>1, Smaller
    <3> QED BY <1>3, <1>4, <2>3, <3>2, CountersGrow
  <2> QED BY <2>4, <2>5
<1>7. ASSUME NEW r \in Requests, CheckUsed(r)
      PROVE  /\ Cardinality(Charged(c, d)') <= usage'[c][d]
             /\ Cardinality(Admitted(c, d)') <= QuotaOf(c)
  <2>1. /\ Alone(r) /\ request[r].pc = "used" /\ request'[r].day = request[r].day
        /\ job' = job /\ usage' = usage /\ job[r] = "absent"
        /\ request'[r].pc = IF usage[By[r]][request[r].day] > QuotaOf(By[r])
                            THEN "exhausted" ELSE "create"
    <3>1. Alone(r)
      BY <1>7, SubmissionKeepsTypes DEF Submits
    <3> QED BY <1>1, <1>7, <3>1 DEF CheckUsed, Goes, TypeOK
  <2>2. Charged(c, d)' \subseteq Charged(c, d)
    BY <2>1 DEF Charged, Admitted, Alone
  <2>3. Cardinality(Charged(c, d)') <= usage'[c][d]
    <3>1. Cardinality(Charged(c, d)') <= Cardinality(Charged(c, d))
      BY <1>2, <2>2, Smaller
    <3> QED BY <1>3, <1>4, <3>1, CountersGrow
  <2>4. CASE By[r] = c /\ request[r].day = d /\ request'[r].pc = "create"
    <3>1. usage[c][d] <= QuotaOf(c)
      <4>1. usage[c][d] \in Nat
        BY CountersGrow
      <4>2. ~(usage[c][d] > QuotaOf(c))
        BY <2>1, <2>4
      <4> QED BY <1>3, <4>1, <4>2
    <3>2. Admitted(c, d)' \subseteq Charged(c, d)
      BY <2>1 DEF Charged, Admitted, Alone
    <3>3. Cardinality(Admitted(c, d)') <= Cardinality(Charged(c, d))
      BY <1>2, <3>2, Smaller
    <3> QED BY <1>3, <1>4, <2>3, <3>1, <3>3, CountersGrow
  <2>5. CASE ~(By[r] = c /\ request[r].day = d /\ request'[r].pc = "create")
    <3>1. Admitted(c, d)' \subseteq Admitted(c, d)
      BY <2>1, <2>5 DEF Admitted, Alone
    <3>2. Cardinality(Admitted(c, d)') <= Cardinality(Admitted(c, d))
      BY <1>2, <3>1, Smaller
    <3> QED BY <1>3, <1>4, <2>3, <3>2
  <2> QED BY <2>4, <2>5
<1> QED BY <1>5, <1>6, <1>7

LEMMA QuotaFollows == TypeOK /\ QuotaInv => QuotaKept
<1> SUFFICES ASSUME TypeOK, QuotaInv, NEW c \in Callers, NEW d \in 0..MaxDay, QuotaOf(c) > 0
             PROVE  Cardinality({r \in Requests : By[r] = c /\ job[r] # "absent" /\ request[r].day = d})
                      <= QuotaOf(c)
  BY DEF QuotaKept
<1> DEFINE jobs == {r \in Requests : By[r] = c /\ job[r] # "absent" /\ request[r].day = d}
<1>1. Admitted(c, d) \in SUBSET Requests /\ jobs \in SUBSET Admitted(c, d)
  BY DEF Admitted
<1> HIDE DEF jobs
<1>2. /\ Cardinality(jobs) <= Cardinality(Admitted(c, d)) /\ Cardinality(jobs) \in Nat
      /\ Cardinality(Admitted(c, d)) \in Nat
  BY <1>1, Smaller, Finite
<1>3. Cardinality(Admitted(c, d)) <= QuotaOf(c)
  BY DEF QuotaInv
<1> QED BY <1>2, <1>3, QuotaIsInt DEF jobs

-----------------------------------------------------------------------------
(***************************************************************************)
(* The two counts.  A gate lets a request pass on what it has just         *)
(* counted; what it has not counted are the requests past it, and there    *)
(* is at most one at each instance.                                        *)
(***************************************************************************)
LEMMA OneAtEachInstance ==
  ASSUME NEW S \in SUBSET Requests, \A q, r \in S : At[q] = At[r] => q = r
  PROVE  Cardinality(S) <= Cardinality(Instances)
<1> DEFINE f == [r \in S |-> At[r]]
<1>1. f \in Injection(S, Instances)
  BY Numbers DEF Injection, IsInjective
<1> QED BY <1>1, FS_Injection, AdmissionAssumption

LEMMA InstanceCount == Cardinality(Instances) \in Nat \ {0}
<1>1. IsFiniteSet(Instances) /\ Instances # {}
  BY AdmissionAssumption
<1> QED BY <1>1, FS_CardinalityType, FS_EmptySet

(* The same requests, counted by what they still have to do and by what    *)
(* became of their jobs.                                                   *)
PastFirst == Queued \cup Between(Gates)

PastSecond(c) ==
  Active(c) \cup {r \in Between({"charge", "used", "create"}) : By[r] = c}

SumsHold ==
  /\ Cardinality(PastFirst) = Cardinality(Queued) + Cardinality(Between(Gates))
  /\ \A c \in Callers :
       Cardinality(PastSecond(c)) =
         Cardinality(Active(c))
           + Cardinality({r \in Between({"charge", "used", "create"}) : By[r] = c})

LEMMA Sums == TypeOK => SumsHold
<1> SUFFICES ASSUME TypeOK PROVE SumsHold
  OBVIOUS
<1>1. ASSUME NEW S \in SUBSET Requests, NEW T \in SUBSET Requests, S \cap T = {}
      PROVE  Cardinality(S \cup T) = Cardinality(S) + Cardinality(T)
  <2>1. /\ IsFiniteSet(S) /\ IsFiniteSet(T) /\ Cardinality(S) \in Nat
        /\ Cardinality(T) \in Nat
    BY Finite
  <2>2. Cardinality(S \cup T) = Cardinality(S) + Cardinality(T) - Cardinality(S \cap T)
    BY <2>1, FS_Union
  <2>3. Cardinality(S \cap T) = 0
    BY <1>1, FS_EmptySet
  <2> QED BY <2>1, <2>2, <2>3
<1>2. \A r \in Between(Gates) : r \in Requests /\ job[r] = "absent"
  BY DEF TypeOK, Between, Gates
<1>3. Cardinality(PastFirst) = Cardinality(Queued) + Cardinality(Between(Gates))
  <2>1. Queued \in SUBSET Requests /\ Between(Gates) \in SUBSET Requests
        /\ Queued \cap Between(Gates) = {}
    BY <1>2 DEF Queued, Between
  <2> QED BY <1>1, <2>1 DEF PastFirst
<1>4. ASSUME NEW c \in Callers
      PROVE  Cardinality(PastSecond(c)) =
               Cardinality(Active(c))
                 + Cardinality({r \in Between({"charge", "used", "create"}) : By[r] = c})
  <2> DEFINE T == {r \in Between({"charge", "used", "create"}) : By[r] = c}
  <2>1. T \subseteq Between(Gates)
    BY DEF Between, Gates
  <2>2. Active(c) \in SUBSET Requests /\ T \in SUBSET Requests /\ Active(c) \cap T = {}
    BY <1>2, <2>1 DEF Active
  <2> HIDE DEF T
  <2>3. Cardinality(Active(c) \cup T) = Cardinality(Active(c)) + Cardinality(T)
    BY <1>1, <2>2
  <2> QED BY <2>3 DEF PastSecond, T
<1> QED BY <1>3, <1>4 DEF SumsHold

LEMMA SumsAfter == TypeOK' => SumsHold'
BY Sums, PTL

(* Past a gate one comes by the gate, and to a queue by being given back.  *)
LEMMA GatesAreTheWay ==
  ASSUME TypeOK, [Next]_vars, NEW q \in Requests
  PROVE  /\ q \in PastFirst' /\ q \notin PastFirst => CheckBacklog(q) \/ RequeueJob(q)
         /\ \A c \in Callers :
              q \in PastSecond(c)' /\ q \notin PastSecond(c) => CheckActive(q)
<1> DEFINE gates == {"charge", "used", "create"}
<1>1. /\ request \in [Requests -> [pc : PCs, began : 0..now, version : Nat, day : 0..day]]
      /\ job \in [Requests -> {"absent", "queued", "running", "done"}]
  BY DEF TypeOK
<1>2. SUFFICES
        \/ CheckBacklog(q) /\ job'[q] = job[q] /\ request[q].pc = "backlog"
             /\ request'[q].pc \in {"full", "active"}
        \/ CheckActive(q) /\ job'[q] = job[q] /\ request[q].pc = "active"
        \/ RequeueJob(q) /\ job[q] = "running" /\ request'[q].pc = request[q].pc
        \/ request'[q].pc = request[q].pc /\ job'[q] = job[q]
        \/ request'[q].pc = request[q].pc /\ job'[q] \in {"running", "done"} /\ job[q] # "absent"
             /\ (job'[q] = "running" => job[q] = "queued")
        \/ request'[q].pc \notin Gates /\ job'[q] = job[q]
        \/ request[q].pc \in gates /\ request'[q].pc \in gates /\ job'[q] = job[q]
        \/ request[q].pc = "create" /\ request'[q].pc \notin Gates /\ job'[q] = "queued"
  BY <1>1, <1>2 DEF PastFirst, PastSecond, Queued, Active, Between, Gates
<1>3. ASSUME NEW r \in Requests, Alone(r), r # q,
             job' = job \/ \E s : job' = [job EXCEPT ![r] = s]
      PROVE  request'[q].pc = request[q].pc /\ job'[q] = job[q]
  BY <1>1, <1>3 DEF Alone
<1>4. CASE \E r \in Requests : LookupHit(r) \/ LookupMiss(r) \/ ReadRecord(r) \/ Remember(r)
                                \/ BeginSubmit(r)
  <2>1. PICK r \in Requests : LookupHit(r) \/ LookupMiss(r) \/ ReadRecord(r) \/ Remember(r)
                              \/ BeginSubmit(r)
    BY <1>4
  <2>2. job' = job
    BY <2>1 DEF LookupHit, LookupMiss, ReadRecord, Remember, BeginSubmit
  <2>3. Alone(r) /\ request'[r].pc \in {"caller", "invalid", "read", "remember", "backlog"}
    <3>1. CASE LookupHit(r)
      BY <1>1, <3>1 DEF LookupHit, Decided, Alone
    <3>2. CASE LookupMiss(r)
      <4>1. request' = [request EXCEPT ![r] = [request[r] EXCEPT !.pc = "read", !.began = now]]
        BY <1>1, <3>2 DEF LookupMiss
      <4> QED BY <1>1, <4>1 DEF Alone
    <3>3. CASE ReadRecord(r)
      BY <1>1, <3>3 DEF ReadRecord, Alone
    <3>4. CASE Remember(r)
      BY <1>1, <3>4 DEF Remember, Decided, Alone
    <3>5. CASE BeginSubmit(r)
      BY <1>1, <3>5 DEF BeginSubmit, Alone
    <3> QED BY <2>1, <3>1, <3>2, <3>3, <3>4, <3>5
  <2>4. CASE q = r
    BY <2>2, <2>3, <2>4 DEF Gates
  <2>5. CASE q # r
    BY <1>3, <2>2, <2>3, <2>5
  <2> QED BY <2>4, <2>5
<1>5. CASE \E r \in Requests : Submits(r)
  <2>1. PICK r \in Requests : Submits(r)
    BY <1>5
  <2>2. Alone(r)
    BY <2>1, SubmissionKeepsTypes
  <2>3. \/ job' = job
        \/ request[r].pc = "create" /\ job' = [job EXCEPT ![r] = "queued"]
    <3>1. CASE CallRaises(r)
      BY <3>1 DEF CallRaises
    <3>2. CASE ~CallRaises(r)
      BY <2>1, <3>2 DEF Submits, CheckBacklog, CheckActive, Charge, CheckUsed, Create, Enqueue
    <3> QED BY <3>1, <3>2
  <2>4. CASE q # r
    BY <1>3, <2>2, <2>3, <2>4
  <2>5. CASE q = r
    <3>1. CASE CheckBacklog(r)
      BY <1>1, <2>5, <3>1 DEF CheckBacklog, Goes
    <3>2. CASE CheckActive(r)
      BY <2>5, <3>2 DEF CheckActive
    <3>3. CASE Charge(r)
      BY <1>1, <2>5, <3>3 DEF Charge
    <3>4. CASE CheckUsed(r)
      BY <1>1, <2>5, <3>4 DEF CheckUsed, Goes, Gates
    <3>5. CASE Create(r) \/ Enqueue(r) \/ CallRaises(r)
      BY <1>1, <2>5, <3>5 DEF Create, Enqueue, CallRaises, Goes, Gates
    <3> QED BY <2>1, <3>1, <3>2, <3>3, <3>4, <3>5 DEF Submits
  <2> QED BY <2>4, <2>5
<1>6. CASE \E r \in Requests : Work(r) \/ RequeueJob(r) \/ Lose(r)
  <2>1. CASE \E r \in Requests : Work(r) \/ RequeueJob(r)
    BY <1>1, <2>1 DEF Work, StartJob, FinishJob, RequeueJob
  <2>2. CASE \E r \in Requests : Lose(r)
    BY <2>2 DEF Lose, LosePush, LoseWorker
  <2> QED BY <1>6, <2>1, <2>2
<1>7. CASE (\E c \in Callers : ChangeKey(c)) \/ Tick \/ Midnight \/ UNCHANGED vars
  BY <1>7 DEF ChangeKey, Tick, Midnight, vars
<1> QED BY <1>4, <1>5, <1>6, <1>7, StepCases

CountsInv == BacklogBounded /\ ConcurrencyBounded

LEMMA CountsInit == Init /\ TypeOK => CountsInv
<1> SUFFICES ASSUME Init, TypeOK PROVE CountsInv
  OBVIOUS
<1>1. PastFirst = {} /\ \A c \in Callers : PastSecond(c) = {}
  BY DEF Init, PastFirst, PastSecond, Queued, Active, Between, Gates
<1>2. Cardinality(PastFirst) = 0 /\ \A c \in Callers : Cardinality(PastSecond(c)) = 0
  BY <1>1, FS_EmptySet
<1>3. spent.requeues = 0
  BY DEF Init
<1>4. BacklogBounded
  BY <1>2, <1>3, Sums, InstanceCount, Numbers DEF SumsHold, BacklogBounded
<1>5. ConcurrencyBounded
  BY <1>2, Sums, InstanceCount, QuotaIsInt DEF SumsHold, ConcurrencyBounded
<1> QED BY <1>4, <1>5 DEF CountsInv

LEMMA BacklogStep == TypeOK /\ BacklogBounded /\ [Next]_vars => BacklogBounded'
<1> SUFFICES ASSUME TypeOK, BacklogBounded, [Next]_vars PROVE BacklogBounded'
  OBVIOUS
<1> DEFINE bound == MaxQueued + Cardinality(Instances) - 1
<1>1. TypeOK'
  BY TypeStep
<1>2. PastFirst \in SUBSET Requests /\ PastFirst' \in SUBSET Requests
  BY DEF PastFirst, Queued, Between
<1>3. /\ Cardinality(PastFirst) \in Nat /\ Cardinality(PastFirst)' \in Nat
      /\ spent.requeues \in Nat /\ spent'.requeues \in Nat /\ bound \in Int
  BY <1>1, <1>2, Finite, InstanceCount, Numbers DEF TypeOK
<1>4. Cardinality(PastFirst) <= bound + spent.requeues
  BY Sums DEF SumsHold, BacklogBounded
<1>5. SUFFICES Cardinality(PastFirst)' <= bound + spent'.requeues
  <2>1. Cardinality(PastFirst)' = Cardinality(Queued)' + Cardinality(Between(Gates))'
    BY <1>1, SumsAfter DEF SumsHold
  <2> QED BY <1>5, <2>1 DEF BacklogBounded
<1> HIDE DEF bound
<1>6. spent'.requeues >= spent.requeues
  <2>1. spent'.requeues = spent.requeues \/ spent'.requeues = spent.requeues + 1
    <3>1. spent \in [requeues : Nat, errors : Nat, losses : Nat]
      BY DEF TypeOK
    <3>2. ASSUME NEW r \in Requests, Submits(r)
          PROVE  spent'.requeues = spent.requeues
      BY <3>1, <3>2 DEF Submits, CheckBacklog, CheckActive, Charge, CheckUsed, Create, Enqueue,
                        CallRaises
    <3>3. ASSUME NEW r \in Requests, LookupHit(r) \/ LookupMiss(r) \/ ReadRecord(r) \/ Remember(r)
                                     \/ BeginSubmit(r) \/ Work(r)
          PROVE  spent' = spent
      BY <3>3 DEF LookupHit, LookupMiss, ReadRecord, Remember, BeginSubmit, Work, StartJob, FinishJob
    <3>4. ASSUME NEW r \in Requests, RequeueJob(r)
          PROVE  spent'.requeues = spent.requeues + 1
      BY <3>1, <3>4 DEF RequeueJob
    <3>5. ASSUME NEW r \in Requests, Lose(r)
          PROVE  spent'.requeues = spent.requeues
      BY <3>1, <3>5 DEF Lose, LosePush, LoseWorker
    <3>6. ASSUME (\E c \in Callers : ChangeKey(c)) \/ Tick \/ Midnight \/ UNCHANGED vars
          PROVE  spent' = spent
      BY <3>6 DEF ChangeKey, Tick, Midnight, vars
    <3> QED BY <3>2, <3>3, <3>4, <3>5, <3>6, StepCases
  <2> QED BY <1>3, <2>1
<1>7. CASE \A q \in Requests : ~CheckBacklog(q) /\ ~RequeueJob(q)
  <2>1. PastFirst' \in SUBSET PastFirst
    BY <1>2, <1>7, GatesAreTheWay
  <2>2. Cardinality(PastFirst)' <= Cardinality(PastFirst)
    BY <1>2, <2>1, Smaller
  <2> QED BY <1>3, <1>4, <1>6, <2>2
<1>8. ASSUME NEW r \in Requests, CheckBacklog(r)
      PROVE  Cardinality(PastFirst)' <= bound + spent'.requeues
  <2>1. request' = [request EXCEPT ![r].pc = IF Cardinality(Queued) >= MaxQueued THEN "full" ELSE "active"]
        /\ job' = job /\ spent' = spent /\ request[r].pc = "backlog"
    BY <1>8 DEF CheckBacklog, Goes
  <2>2. /\ request \in [Requests -> [pc : PCs, began : 0..now, version : Nat, day : 0..day]]
        /\ Queued \in SUBSET Requests /\ Queued' = Queued
    BY <2>1 DEF TypeOK, Queued
  <2>3. CASE Cardinality(Queued) >= MaxQueued
    <3>1. PastFirst' \in SUBSET PastFirst
      BY <2>1, <2>2, <2>3 DEF PastFirst, Between, Gates
    <3>2. Cardinality(PastFirst)' <= Cardinality(PastFirst)
      BY <1>2, <3>1, Smaller
    <3> QED BY <1>3, <1>4, <1>6, <3>2
  <2>4. CASE ~(Cardinality(Queued) >= MaxQueued)
    <3>1. Cardinality(Between(Gates))' <= Cardinality(Instances)
      <4>1. Between(Gates)' \in SUBSET Requests
        BY DEF Between
      <4>2. \A q, s \in Between(Gates)' : At[q] = At[s] => q = s
        BY <1>1 DEF TypeOK, Between, Submitting
      <4> QED BY <4>1, <4>2, OneAtEachInstance
    <3>2. Cardinality(PastFirst)' = Cardinality(Queued)' + Cardinality(Between(Gates))'
      BY <1>1, SumsAfter DEF SumsHold
    <3>3. Cardinality(Queued)' <= MaxQueued - 1 /\ Cardinality(Queued)' \in Nat
      BY <2>2, <2>4, Finite, Numbers
    <3>4. Cardinality(Between(Gates))' \in Nat
      <4>1. Between(Gates)' \in SUBSET Requests
        BY DEF Between
      <4> QED BY <4>1, Finite
    <3> QED BY <1>3, <2>1, <3>1, <3>2, <3>3, <3>4, InstanceCount, Numbers DEF bound
  <2> QED BY <2>3, <2>4
<1>9. ASSUME NEW r \in Requests, RequeueJob(r)
      PROVE  Cardinality(PastFirst)' <= bound + spent'.requeues
  <2>1. spent'.requeues = spent.requeues + 1
    BY <1>9 DEF RequeueJob, TypeOK
  <2>2. PastFirst' \in SUBSET (PastFirst \cup {r})
    BY <1>9 DEF RequeueJob, PastFirst, Queued, Between, TypeOK
  <2>3. Cardinality(PastFirst)' <= Cardinality(PastFirst) + 1
    BY <1>2, <2>2, OneMore
  <2> QED BY <1>3, <1>4, <2>1, <2>3
<1> QED BY <1>7, <1>8, <1>9

LEMMA ConcurrencyStep == TypeOK /\ ConcurrencyBounded /\ [Next]_vars => ConcurrencyBounded'
<1> SUFFICES ASSUME TypeOK, ConcurrencyBounded, [Next]_vars PROVE ConcurrencyBounded'
  OBVIOUS
<1> SUFFICES ASSUME NEW c \in Callers, ConcurrentOf(c) > 0
             PROVE  Cardinality(PastSecond(c))' <= ConcurrentOf(c) + Cardinality(Instances) - 1
  <2> SUFFICES ASSUME NEW c \in Callers, ConcurrentOf(c) > 0
               PROVE  Cardinality(Active(c))'
                        + Cardinality({r \in Between({"charge", "used", "create"}) : By[r] = c})'
                        <= ConcurrentOf(c) + Cardinality(Instances) - 1
    BY DEF ConcurrencyBounded, ConcurrentOf
  <2>1. SumsHold'
    BY TypeStep, SumsAfter
  <2> QED BY <2>1 DEF SumsHold
<1> DEFINE T == {r \in Between({"charge", "used", "create"}) : By[r] = c}
<1>1. TypeOK'
  BY TypeStep
<1>2. PastSecond(c) \in SUBSET Requests /\ PastSecond(c)' \in SUBSET Requests
      /\ T' \in SUBSET Requests /\ Active(c) \in SUBSET Requests
  BY DEF PastSecond, Active, Between
<1>3. /\ Cardinality(PastSecond(c)) \in Nat /\ Cardinality(PastSecond(c))' \in Nat
      /\ Cardinality(T)' \in Nat /\ Cardinality(Active(c)) \in Nat /\ ConcurrentOf(c) \in Int
      /\ Cardinality(Instances) \in Nat \ {0}
  BY <1>2, Finite, QuotaIsInt, InstanceCount
<1>4. Cardinality(PastSecond(c)) <= ConcurrentOf(c) + Cardinality(Instances) - 1
  BY Sums DEF SumsHold, ConcurrencyBounded
<1>5. ASSUME PastSecond(c)' \in SUBSET PastSecond(c)
      PROVE  Cardinality(PastSecond(c))' <= ConcurrentOf(c) + Cardinality(Instances) - 1
  <2>1. Cardinality(PastSecond(c))' <= Cardinality(PastSecond(c))
    BY <1>2, <1>5, Smaller
  <2> QED BY <1>3, <1>4, <2>1
<1>6. CASE \A q \in Requests : ~CheckActive(q)
  <2>1. PastSecond(c)' \in SUBSET PastSecond(c)
    BY <1>2, <1>6, GatesAreTheWay
  <2> QED BY <1>5, <2>1
<1>7. ASSUME NEW r \in Requests, CheckActive(r)
      PROVE  Cardinality(PastSecond(c))' <= ConcurrentOf(c) + Cardinality(Instances) - 1
  <2>1. /\ request[r].pc = "active" /\ job' = job
        /\ request' = [request EXCEPT ![r].pc =
                         IF ConcurrentOf(By[r]) > 0 /\ Cardinality(Active(By[r])) >= ConcurrentOf(By[r])
                         THEN "busy" ELSE PastConcurrency(r)]
    BY <1>7 DEF CheckActive, Goes
  <2>2. /\ request \in [Requests -> [pc : PCs, began : 0..now, version : Nat, day : 0..day]]
        /\ Active(c)' = Active(c)
    BY <2>1 DEF TypeOK, Active
  <2>3. CASE By[r] # c \/ Cardinality(Active(c)) >= ConcurrentOf(c)
    <3>1. PastSecond(c)' \in SUBSET PastSecond(c)
      BY <2>1, <2>2, <2>3 DEF PastSecond, Between
    <3> QED BY <1>5, <3>1
  <2>4. CASE By[r] = c /\ ~(Cardinality(Active(c)) >= ConcurrentOf(c))
    <3>1. Cardinality(T)' <= Cardinality(Instances)
      <4>1. T' \in SUBSET Requests
        BY DEF Between
      <4>2. \A q, s \in T' : At[q] = At[s] => q = s
        <5> SUFFICES ASSUME NEW q \in T', NEW s \in T', At[q] = At[s] PROVE q = s
          OBVIOUS
        <5>1. q \in Requests /\ s \in Requests /\ {request'[q].pc, request'[s].pc} \subseteq Submitting
          BY DEF Between, Submitting, Gates
        <5> QED BY <1>1, <5>1 DEF TypeOK
      <4> QED BY <4>1, <4>2, OneAtEachInstance
    <3>2. Cardinality(PastSecond(c))' = Cardinality(Active(c))' + Cardinality(T)'
      BY <1>1, SumsAfter DEF SumsHold
    <3> HIDE DEF T
    <3> QED BY <1>3, <2>2, <2>4, <3>1, <3>2
  <2> QED BY <2>3, <2>4
<1> QED BY <1>6, <1>7

-----------------------------------------------------------------------------
(* The variables of the front-end hold what its code keeps, an instance is *)
(* in at most one submission, and there is no job whose request is still   *)
(* in the gates: whatever fails, whoever changes a key, and whenever.      *)
THEOREM TypeCorrect == Spec => []TypeOK
BY TypeInit, TypeStep, PTL DEF Spec

(* With any number of instances, each with its cache: no lookup decides by *)
(* a version of a key that was replaced TTL before the lookup began.       *)
THEOREM RevocationEffective == Spec => []RevocationInTime
<1>1. KeysInv => RevocationInTime
  BY DEF KeysInv, LookupIsFresh, RevocationInTime
<1> QED BY <1>1, KeysInit, KeysStep, TypeCorrect, PTL DEF Spec

(* No caller is given more jobs of a day than its quota, for any numbers   *)
(* of requests and instances, whatever calls fail.                         *)
THEOREM QuotaHolds == Spec => []QuotaKept
BY QuotaInit, QuotaStep, QuotaFollows, TypeCorrect, PTL DEF Spec

(* The backlog and what is on its way into it exceed ADMISSION_MAX_QUEUED  *)
(* by at most one submission of every other instance and the jobs that     *)
(* workers gave back.                                                      *)
THEOREM BacklogLimited == Spec => []BacklogBounded
BY CountsInit, BacklogStep, TypeCorrect, PTL DEF Spec, CountsInv

(* A caller's jobs in flight exceed its limit by at most one submission of *)
(* every other instance, whatever workers give back.                       *)
THEOREM ConcurrencyLimited == Spec => []ConcurrencyBounded
BY CountsInit, ConcurrencyStep, TypeCorrect, PTL DEF Spec, CountsInv

=============================================================================
