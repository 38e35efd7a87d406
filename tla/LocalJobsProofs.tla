--------------------------- MODULE LocalJobsProofs ---------------------------
(***************************************************************************)
(* For any number of jobs and lifespans, a job of the local service goes   *)
(* through the stages of JobLifecycle; within the first lifespan, one job  *)
(* runs at a time, in the order of the submissions.                        *)
(***************************************************************************)
EXTENDS LocalJobs, TLAPS, SequenceTheorems

(* A job is queued once, and what is in the queue, in a thread or in an    *)
(* exception that was not looked at yet is at its stage in the store.      *)
Staged ==
  /\ \A i \in DOMAIN queue : status[queue[i]] = "queued"
  /\ \A i, k \in DOMAIN queue : i # k => queue[i] # queue[k]
  /\ \A j \in threads : status[j] = "running"
  /\ outcome = "raised" => awaits \in Jobs \ threads /\ status[awaits] = "running"

LEMMA TakeFacts ==
  ASSUME TypeOK, Staged, Take
  PROVE  /\ Head(queue) \in Jobs /\ status[Head(queue)] = "queued"
         /\ Tail(queue) \in Seq(Jobs)
         /\ \A i \in DOMAIN Tail(queue) : Tail(queue)[i] = queue[i + 1] /\ i + 1 \in DOMAIN queue
         /\ \A i \in DOMAIN Tail(queue) : Tail(queue)[i] # Head(queue)
BY DEF TypeOK, Staged, Take

LEMMA StagedStep ==
  ASSUME TypeOK, Staged, [Next]_vars
  PROVE  TypeOK' /\ Staged'
<1>1. ASSUME NEW j \in Jobs, Submit(j) PROVE TypeOK' /\ Staged'
  <2>1. TypeOK'
    BY <1>1 DEF TypeOK, Submit
  <2>2. Staged'
    BY <1>1 DEF TypeOK, Staged, Submit
  <2> QED BY <2>1, <2>2
<1>2. CASE Take
  <2>1. TypeOK'
    BY <1>2, TakeFacts DEF TypeOK, Take
  <2>2. Staged'
    BY <1>2, TakeFacts DEF TypeOK, Staged, Take
  <2> QED BY <2>1, <2>2
<1>3. ASSUME NEW j \in Jobs, ThreadReturns(j) PROVE TypeOK' /\ Staged'
  BY <1>3 DEF TypeOK, Staged, ThreadReturns
<1>4. ASSUME NEW j \in Jobs, ThreadRaises(j) PROVE TypeOK' /\ Staged'
  BY <1>4 DEF TypeOK, Staged, ThreadRaises
<1>5. CASE Resume
  BY <1>5 DEF TypeOK, Staged, Resume
<1>6. CASE Stop
  BY <1>6 DEF TypeOK, Staged, Stop
<1>7. CASE Start
  BY <1>7, LocalAssumption DEF TypeOK, Staged, Start
<1>8. CASE UNCHANGED vars
  <2>1. TypeOK'
    BY <1>8 DEF TypeOK, vars
  <2>2. Staged'
    BY <1>8 DEF Staged, vars
  <2> QED BY <2>1, <2>2
<1> QED BY <1>1, <1>2, <1>3, <1>4, <1>5, <1>6, <1>7, <1>8 DEF Next

LEMMA InitStaged == Init => TypeOK /\ Staged
<1> SUFFICES ASSUME Init PROVE TypeOK /\ Staged
  OBVIOUS
<1>1. TypeOK
  <2>1. status \in [Jobs -> {"absent", "queued", "running", "done", "failed"}]
    BY DEF Init
  <2>2. result \in [Jobs -> BOOLEAN] /\ lifespan \in 0..MaxLifespans
    BY LocalAssumption DEF Init
  <2>3. /\ serving \in BOOLEAN /\ awaits \in Jobs \cup {NoJob} /\ threads \in SUBSET Jobs
        /\ outcome \in {"none", "returned", "raised"}
    BY DEF Init
  <2>4. queue \in Seq(Jobs) /\ submitted \in Seq(Jobs) /\ started \in Seq(Jobs)
    BY DEF Init
  <2> QED BY <2>1, <2>2, <2>3, <2>4 DEF TypeOK
<1>2. Staged
  BY DEF Init, Staged
<1> QED BY <1>1, <1>2

LEMMA StagedInvariant == Spec => [](TypeOK /\ Staged)
<1>1. Init => TypeOK /\ Staged
  BY InitStaged
<1>2. (TypeOK /\ Staged) /\ [Next]_vars => (TypeOK /\ Staged)'
  BY StagedStep
<1> QED BY <1>1, <1>2, PTL DEF Spec

(* The store and the dispatcher's locals have their types.                 *)
THEOREM TypeCorrect == Spec => []TypeOK
<1>1. TypeOK /\ Staged => TypeOK
  OBVIOUS
<1> QED BY <1>1, StagedInvariant, PTL

LEMMA StepKeepsStages ==
  ASSUME TypeOK, Staged, [Next]_vars
  PROVE  [Lifecycle!Next]_(Lifecycle!vars)
<1> USE DEF Lifecycle!Next, Lifecycle!vars, Lifecycle!Moves
<1>1. ASSUME NEW j \in Jobs, Submit(j) PROVE Lifecycle!Submit(j)
  BY <1>1 DEF Submit, Lifecycle!Submit
<1>2. CASE Take
  <2>1. Lifecycle!Start(Head(queue))
    BY <1>2, TakeFacts DEF Take, Lifecycle!Start
  <2> QED BY <1>2, <2>1, TakeFacts
<1>3. ASSUME NEW j \in Jobs, ThreadReturns(j) PROVE Lifecycle!Finish(j)
  BY <1>3 DEF ThreadReturns, Staged, Lifecycle!Finish
<1>4. ASSUME NEW j \in Jobs, ThreadRaises(j) PROVE UNCHANGED <<status, result>>
  BY <1>4 DEF ThreadRaises
<1>5. CASE Resume
  <2>1. CASE outcome = "raised"
    <3>1. awaits \in Jobs /\ Lifecycle!Fail(awaits)
      BY <1>5, <2>1 DEF Resume, Staged, Lifecycle!Fail
    <3> QED BY <3>1
  <2>2. CASE outcome # "raised"
    BY <1>5, <2>2 DEF Resume
  <2> QED BY <2>1, <2>2
<1>6. CASE Stop \/ Start \/ UNCHANGED vars
  BY <1>6 DEF Stop, Start, vars
<1> QED BY <1>1, <1>2, <1>3, <1>4, <1>5, <1>6 DEF Next

(* However often the service is stopped and started, every job goes        *)
(* through the stages of its lifecycle in their order, each once.          *)
THEOREM StagesKept == Spec => KeepsStages
<1>1. Init => Lifecycle!Init
  BY DEF Init, Lifecycle!Init
<1>2. TypeOK /\ Staged /\ [Next]_vars => [Lifecycle!Next]_(Lifecycle!vars)
  BY StepKeepsStages
<1> QED BY <1>1, <1>2, StagedInvariant, PTL DEF Spec, KeepsStages, Lifecycle!Safe

(***************************************************************************)
(* The first lifespan.                                                     *)
(***************************************************************************)

(* While the service runs, a thread's job is awaited; the queue holds what *)
(* was submitted and not started, which is what the store calls queued.    *)
OneLife ==
  /\ \A j, k \in threads : j = k
  /\ serving => /\ \A j \in threads : awaits = j
                /\ outcome # "none" => threads = {}
                /\ awaits = NoJob => outcome = "none"
  /\ lifespan = 0 => ~serving /\ threads = {} /\ queue = <<>> /\ outcome = "none"
  /\ submitted = started \o queue
  /\ \A j \in Jobs : status[j] = "queued" => InQueue(j)

LEMMA FirstLife ==
  ASSUME TypeOK, [Next]_vars, lifespan' <= 1
  PROVE  lifespan <= 1
BY LocalAssumption DEF TypeOK, Next, vars, Submit, Take, ThreadReturns, ThreadRaises, Resume, Stop, Start

LEMMA OneLifeStep ==
  ASSUME TypeOK, Staged, OneLife, lifespan' <= 1, [Next]_vars
  PROVE  OneLife'
<1>1. ASSUME NEW j \in Jobs, Submit(j) PROVE OneLife'
  <2>1. /\ queue \in Seq(Jobs) /\ started \in Seq(Jobs) /\ submitted = started \o queue
        /\ queue' = Append(queue, j) /\ submitted' = Append(submitted, j) /\ started' = started
    BY <1>1 DEF TypeOK, OneLife, Submit
  <2>2. submitted' = started' \o queue'
    <3>1. (started \o queue) \o <<j>> = started \o (queue \o <<j>>)
      BY <2>1, ConcatAssociative
    <3>2. Append(started \o queue, j) = (started \o queue) \o <<j>>
      BY <2>1, AppendIsConcat
    <3>3. Append(queue, j) = queue \o <<j>>
      BY <2>1, AppendIsConcat
    <3> QED BY <2>1, <3>1, <3>2, <3>3
  <2>3. \A k \in Jobs : status'[k] = "queued" => InQueue(k)'
    <3> SUFFICES ASSUME NEW k \in Jobs, status'[k] = "queued"
                 PROVE  \E i \in DOMAIN queue' : queue'[i] = k
      BY DEF InQueue
    <3>1. CASE k = j
      <4>1. Len(queue) + 1 \in DOMAIN queue' /\ queue'[Len(queue) + 1] = j
        BY <2>1
      <4> QED BY <3>1, <4>1
    <3>2. CASE k # j
      <4>1. status[k] = "queued"
        BY <1>1, <3>2 DEF Submit, TypeOK
      <4>2. PICK i \in DOMAIN queue : queue[i] = k
        BY <4>1 DEF OneLife, InQueue
      <4>3. i \in DOMAIN queue' /\ queue'[i] = k
        BY <2>1, <4>2
      <4> QED BY <4>3
    <3> QED BY <3>1, <3>2
  <2> QED BY <1>1, <2>2, <2>3 DEF OneLife, Submit
<1>2. CASE Take
  <2>1. submitted' = started' \o queue'
    BY <1>2, TakeFacts DEF TypeOK, OneLife, Take
  <2>2. \A k \in Jobs : status'[k] = "queued" => InQueue(k)'
    <3> SUFFICES ASSUME NEW k \in Jobs, status'[k] = "queued"
                 PROVE  \E i \in DOMAIN Tail(queue) : Tail(queue)[i] = k
      BY <1>2 DEF Take, InQueue
    <3>1. k # Head(queue) /\ status[k] = "queued"
      BY <1>2, TakeFacts DEF Take, TypeOK
    <3>2. PICK i \in DOMAIN queue : queue[i] = k
      BY <3>1 DEF OneLife, InQueue
    <3>3. i # 1 /\ i - 1 \in DOMAIN Tail(queue) /\ Tail(queue)[i - 1] = k
      BY <1>2, <3>1, <3>2 DEF Take, TypeOK
    <3> QED BY <3>3
  <2>3. threads = {} /\ Head(queue) # NoJob
    BY <1>2, TakeFacts, LocalAssumption DEF OneLife, Take, TypeOK
  <2>4. serving' /\ lifespan' = lifespan /\ lifespan # 0
    BY <1>2 DEF OneLife, Take
  <2>5. threads' = {Head(queue)} /\ awaits' = Head(queue) /\ outcome' = "none"
    BY <1>2, <2>3 DEF Take
  <2>6. \A k, l \in threads' : k = l
    BY <2>5
  <2>7. \A k \in threads' : awaits' = k
    BY <2>5
  <2> QED BY <2>1, <2>2, <2>4, <2>5, <2>6, <2>7 DEF OneLife
<1>3. ASSUME NEW j \in Jobs, ThreadReturns(j) PROVE OneLife'
  BY <1>3, LocalAssumption DEF OneLife, InQueue, ThreadReturns, TypeOK
<1>4. ASSUME NEW j \in Jobs, ThreadRaises(j) PROVE OneLife'
  BY <1>4, LocalAssumption DEF OneLife, InQueue, ThreadRaises, TypeOK
<1>5. CASE Resume
  BY <1>5 DEF OneLife, InQueue, Resume, TypeOK
<1>6. CASE Stop
  BY <1>6 DEF OneLife, InQueue, Stop
<1>7. CASE Start
  <2>1. lifespan = 0 /\ lifespan' = 1
    BY <1>7 DEF Start, TypeOK
  <2>2. /\ threads' = {} /\ outcome' = "none" /\ queue = <<>>
        /\ queue' = queue /\ status' = status /\ started' = started /\ submitted' = submitted
    BY <1>7, <2>1 DEF OneLife, Start
  <2>3. submitted' = started' \o queue'
    BY <2>2 DEF OneLife
  <2>4. \A k \in Jobs : status'[k] = "queued" => InQueue(k)'
    BY <2>2 DEF OneLife, InQueue
  <2> QED BY <2>1, <2>2, <2>3, <2>4 DEF OneLife
<1>8. CASE UNCHANGED vars
  BY <1>8 DEF OneLife, InQueue, vars
<1> QED BY <1>1, <1>2, <1>3, <1>4, <1>5, <1>6, <1>7, <1>8 DEF Next

FirstLifeInv == TypeOK /\ Staged /\ (lifespan <= 1 => OneLife)

LEMMA OneLifeInvariant == Spec => []FirstLifeInv
<1>1. Init => FirstLifeInv
  <2>1. Init => OneLife
    BY DEF Init, OneLife, InQueue
  <2> QED BY <2>1, InitStaged DEF FirstLifeInv
<1>2. FirstLifeInv /\ [Next]_vars => FirstLifeInv'
  BY StagedStep, FirstLife, OneLifeStep DEF FirstLifeInv
<1> QED BY <1>1, <1>2, PTL DEF Spec

(* Within a lifespan, one encode or decode runs at a time.                 *)
THEOREM RunsOneAtATime == Spec => []OneAtATime
<1>1. FirstLifeInv => OneAtATime
  BY DEF FirstLifeInv, OneLife, OneAtATime
<1> QED BY <1>1, OneLifeInvariant, PTL

(* Within a lifespan, jobs are started in the order of their submission.   *)
THEOREM StartsInOrder == Spec => []InOrder
<1>1. FirstLifeInv => InOrder
  <2> SUFFICES ASSUME TypeOK, OneLife PROVE IsPrefix(started, submitted)
    BY DEF FirstLifeInv, InOrder
  <2>1. Len(started) <= Len(started \o queue)
    BY DEF TypeOK
  <2>2. SubSeq(started, 1, Len(started)) = SubSeq(started \o queue, 1, Len(started))
    BY DEF TypeOK
  <2> QED BY <2>1, <2>2 DEF OneLife, IsPrefix
<1> QED BY <1>1, OneLifeInvariant, PTL

(* What waits in the queue is queued in the store, and the other way round *)
(* as long as no job of an earlier lifespan is left.                       *)
THEOREM QueueAndStoreAgree == Spec => []QueueMatchesStore
<1>1. FirstLifeInv => QueueMatchesStore
  BY DEF FirstLifeInv, TypeOK, Staged, OneLife, QueueMatchesStore, InQueue
<1> QED BY <1>1, OneLifeInvariant, PTL
=============================================================================
