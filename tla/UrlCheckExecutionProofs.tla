---------------------- MODULE UrlCheckExecutionProofs ----------------------
(***************************************************************************)
(* Theorems about UrlCheckExecution, for any number of checks, workers,    *)
(* attempts, retries and faults.                                           *)
(***************************************************************************)
EXTENDS UrlCheckExecution, TLAPS

USE WorkersAssumption, AttemptsAssumption, BoundsAssumption

\* What keeps the attempt numbers and the stall counters in their ranges: a
\* live job has attempts and stalls left, a retried one had another attempt.
CountersInRange ==
  /\ \A j \in JobIds : jobs[j].state \in {"waiting", "active"} =>
       jobs[j].made < MaxAttempts /\ jobs[j].stalls <= MaxStalls
  /\ \A w \in Workers : execs[w].pc = "retry" => execs[w].attempt < MaxAttempts

TypeInv == TypeOK /\ CountersInRange

\* The rows of a new batch and its empty queue are well typed.
LEMMA InitTypeInv == Init => TypeInv
<1> SUFFICES ASSUME Init PROVE TypeInv
  OBVIOUS
<1> USE DEF Init, Idle, NoJob, NoResult
<1>1. rows \in [Checks -> Rows]
  BY DEF Rows, CheckStatus, Generations, Results
<1>2. jobs \in [JobIds -> Jobs]
  BY DEF Jobs
<1>3. adds \subseteq {"request", "reconcile"} \X Checks \X Generations
  BY DEF Generations
<1>4. batch \in BatchStatus /\ creating \in BOOLEAN
      /\ execs \in [Workers -> Execs \cup {Idle}] /\ faults \in [FaultKinds -> Nat]
  BY DEF BatchStatus
<1>5. CountersInRange
  BY DEF CountersInRange
<1> QED BY <1>1, <1>2, <1>3, <1>4, <1>5 DEF TypeInv, TypeOK

\* A slot that is executing holds a whole delivery record of a known job.
LEMMA BusyExec ==
  ASSUME TypeOK, NEW w \in Workers, Busy(w)
  PROVE  /\ execs[w] \in Execs
         /\ execs[w].check \in Checks /\ execs[w].gen \in Generations
         /\ execs[w].attempt \in 1..MaxAttempts
         /\ JobOf(w) \in JobIds
         /\ rows[execs[w].check] \in Rows
<1>1. execs[w] \in Execs
  BY DEF TypeOK, Busy, Idle
<1> QED BY <1>1 DEF Execs, TypeOK, JobIds, JobOf

\* Moving a delivery to its next step keeps the types of the slots.
LEMMA GotoType ==
  ASSUME TypeInv, NEW w \in Workers, Busy(w), NEW pc \in Steps \cup Returns,
         pc = "retry" => execs[w].attempt < MaxAttempts,
         Goto(w, pc)
  PROVE  /\ execs' \in [Workers -> Execs \cup {Idle}]
         /\ \A v \in Workers :
              execs'[v].pc = "retry" => execs'[v].attempt < MaxAttempts
<1>1. execs[w] \in Execs
  BY BusyExec DEF TypeInv
<1>2. [execs[w] EXCEPT !.pc = pc] \in Execs
  BY <1>1 DEF Execs
<1>3. execs' = [execs EXCEPT ![w] = [execs[w] EXCEPT !.pc = pc]]
  BY DEF Goto, TypeInv, TypeOK
<1>4. execs \in [Workers -> Execs \cup {Idle}]
  BY DEF TypeInv, TypeOK
<1> QED BY <1>1, <1>2, <1>3, <1>4 DEF TypeInv, CountersInRange, Execs

\* TypeInv survives a step that leaves the jobs and the row types alone and
\* moves one delivery on.
LEMMA WorkerTypeStep ==
  ASSUME TypeInv, NEW w \in Workers, Busy(w), NEW pc \in Steps \cup Returns,
         pc = "retry" => execs[w].attempt < MaxAttempts,
         Goto(w, pc), rows' \in [Checks -> Rows], batch' \in BatchStatus,
         faults' \in [FaultKinds -> Nat], UNCHANGED <<jobs, adds, creating>>
  PROVE  TypeInv'
<1>1. /\ execs' \in [Workers -> Execs \cup {Idle}]
      /\ \A v \in Workers : execs'[v].pc = "retry" => execs'[v].attempt < MaxAttempts
  BY GotoType
<1> QED BY <1>1 DEF TypeInv, TypeOK, CountersInRange

\* A fault is counted.
LEMMA FaultType ==
  ASSUME TypeOK, NEW kind \in FaultKinds, Fault(kind)
  PROVE  faults' \in [FaultKinds -> Nat]
BY DEF TypeOK, Fault

\* The API's steps.
LEMMA ApiTypeStep ==
  ASSUME TypeInv,
         \/ CreateReturns \/ CreateDies \/ CancelBatch \/ RetryFailedUrls
         \/ \E a \in adds : AddJob(a) \/ AddFails(a)
         \/ \E c \in Checks : ReconcileSelects(c) \/ LeaseExpires(c)
  PROVE  TypeInv'
<1> USE DEF TypeInv, TypeOK, CountersInRange
<1>1. CASE CreateReturns
  BY <1>1 DEF CreateReturns, BatchStatus
<1>2. CASE CreateDies
  BY <1>2, FaultType DEF CreateDies, FaultKinds
<1>3. CASE CancelBatch
  <2>1. rows' \in [Checks -> Rows]
    BY <1>3 DEF CancelBatch, Rows, CheckStatus
  <2> QED BY <1>3, <2>1 DEF CancelBatch, BatchStatus
<1>4. CASE RetryFailedUrls
  <2>1. ASSUME NEW c \in Failed
        PROVE  ResetRow(rows[c]) \in Rows
    <3>1. rows[c] \in Rows /\ rows[c].gen < MaxGeneration
      BY <1>4 DEF RetryFailedUrls, Failed
    <3>2. rows[c].gen + 1 \in Generations
      BY <3>1 DEF Rows, Generations
    <3>3. NoResult \in Results /\ 0 \in 0..MaxAttempts /\ "QUEUED" \in CheckStatus
      BY DEF Results, NoResult, CheckStatus
    <3> HIDE DEF NoResult
    <3> QED BY <3>1, <3>2, <3>3 DEF ResetRow, Rows
  <2>2. rows' \in [Checks -> Rows]
    BY <1>4, <2>1 DEF RetryFailedUrls
  <2>3. adds' \subseteq {"request", "reconcile"} \X Checks \X Generations
    BY <1>4, <2>1 DEF RetryFailedUrls, Rows, Failed
  <2> QED BY <1>4, <2>2, <2>3 DEF RetryFailedUrls, BatchStatus
<1>5. ASSUME NEW a \in adds, AddJob(a)
      PROVE  TypeInv'
  <2>1. <<a[2], a[3]>> \in JobIds
    BY DEF JobIds
  <2>2. AddedJob(<<a[2], a[3]>>) \in Jobs
    BY <2>1 DEF AddedJob, NewJob, NoJob, Jobs
  <2>3. /\ AddedJob(<<a[2], a[3]>>).state \in {"waiting", "active"} =>
              /\ AddedJob(<<a[2], a[3]>>).made < MaxAttempts
              /\ AddedJob(<<a[2], a[3]>>).stalls <= MaxStalls
    BY <2>1 DEF AddedJob, NewJob, NoJob
  <2> HIDE DEF AddedJob
  <2> QED BY <1>5, <2>1, <2>2, <2>3 DEF AddJob
<1>6. ASSUME NEW a \in adds, AddFails(a)
      PROVE  TypeInv'
  BY <1>6, FaultType DEF AddFails, FaultKinds
<1>7. ASSUME NEW c \in Checks, ReconcileSelects(c)
      PROVE  TypeInv'
  BY <1>7 DEF ReconcileSelects, Rows
<1>8. ASSUME NEW c \in Checks, LeaseExpires(c)
      PROVE  TypeInv'
  BY <1>8 DEF LeaseExpires, Rows
<1> QED BY <1>1, <1>2, <1>3, <1>4, <1>5, <1>6, <1>7, <1>8

\* The queue's steps.
LEMMA QueueTypeStep ==
  ASSUME TypeInv, NEW j \in JobIds,
         \/ \E w \in Workers : Deliver(w, j)
         \/ StallAbandoned(j) \/ StallRunning(j) \/ Evict(j)
  PROVE  TypeInv'
<1>1. /\ jobs[j] \in Jobs /\ j[1] \in Checks /\ j[2] \in Generations
      /\ jobs \in [JobIds -> Jobs] /\ execs \in [Workers -> Execs \cup {Idle}]
      /\ jobs[j].state \in {"waiting", "active"} =>
           jobs[j].made < MaxAttempts /\ jobs[j].stalls <= MaxStalls
  BY DEF JobIds, TypeInv, TypeOK, CountersInRange
<1>2. ASSUME NEW job \in Jobs, jobs' = [jobs EXCEPT ![j] = job],
             job.state \in {"waiting", "active"} =>
               job.made < MaxAttempts /\ job.stalls <= MaxStalls,
             UNCHANGED <<batch, rows, adds, creating>>,
             faults' \in [FaultKinds -> Nat],
             execs' \in [Workers -> Execs \cup {Idle}],
             \A w \in Workers : execs'[w].pc = "retry" => execs'[w] = execs[w]
      PROVE  TypeInv'
  BY <1>1, <1>2 DEF TypeInv, TypeOK, CountersInRange
<1>3. ASSUME NEW w \in Workers, Deliver(w, j)
      PROVE  TypeInv'
  <2>1. jobs[j].made + 1 \in 1..MaxAttempts
    <3>1. jobs[j].made \in 0..MaxAttempts
      BY <1>1 DEF Jobs
    <3>2. jobs[j].made < MaxAttempts
      BY <1>1, <1>3 DEF Deliver
    <3> QED BY <3>1, <3>2
  <2>2. [pc |-> "claim", check |-> j[1], gen |-> j[2],
         attempt |-> jobs[j].made + 1, outcome |-> "none", verdict |-> "none"]
        \in Execs
    BY <1>1, <2>1 DEF Execs, Steps
  <2>3. [jobs[j] EXCEPT !.state = "active", !.owner = w] \in Jobs
    BY <1>1 DEF Jobs
  <2>4. jobs' = [jobs EXCEPT ![j] = [jobs[j] EXCEPT !.state = "active", !.owner = w]]
    BY <1>1, <1>3 DEF Deliver
  <2>5. faults' \in [FaultKinds -> Nat]
    BY <1>3 DEF Deliver, TypeInv, TypeOK
  <2>6. [jobs[j] EXCEPT !.state = "active", !.owner = w].made = jobs[j].made
        /\ [jobs[j] EXCEPT !.state = "active", !.owner = w].stalls = jobs[j].stalls
    BY <1>1 DEF Jobs
  <2>7. jobs[j].state = "waiting"
    BY <1>3 DEF Deliver
  <2>8. /\ execs' \in [Workers -> Execs \cup {Idle}]
        /\ \A v \in Workers : execs'[v].pc = "retry" => execs'[v] = execs[v]
    BY <1>1, <1>3, <2>2 DEF Deliver
  <2> QED BY <1>1, <1>2, <1>3, <2>3, <2>4, <2>5, <2>6, <2>7, <2>8 DEF Deliver
<1>4. ASSUME Stall(j), faults' \in [FaultKinds -> Nat]
      PROVE  TypeInv'
  <2>1. jobs[j].stalls \in 0..MaxStalls
    BY <1>1, <1>4 DEF Stall, Jobs
  <2>2. StalledJob(jobs[j]) \in Jobs
    BY <1>1, <2>1 DEF Jobs, StalledJob
  <2>3. StalledJob(jobs[j]).state \in {"waiting", "active"} =>
          /\ StalledJob(jobs[j]).made < MaxAttempts
          /\ StalledJob(jobs[j]).stalls <= MaxStalls
    BY <1>1, <1>4, <2>1 DEF Stall, Jobs, StalledJob
  <2>4. UNCHANGED execs /\ jobs' = [jobs EXCEPT ![j] = StalledJob(jobs[j])]
    BY <1>4 DEF Stall
  <2> QED BY <1>1, <1>2, <1>4, <2>2, <2>3, <2>4 DEF Stall
<1>5. CASE StallAbandoned(j)
  BY <1>4, <1>5 DEF StallAbandoned, TypeInv, TypeOK
<1>6. CASE StallRunning(j)
  BY <1>4, <1>6, FaultType DEF StallRunning, FaultKinds, TypeInv
<1>7. CASE Evict(j)
  <2>1. NoJob \in Jobs /\ NoJob.state = "none"
    BY DEF NoJob, Jobs
  <2> QED BY <1>1, <1>2, <1>7, <2>1, FaultType DEF Evict, FaultKinds, TypeInv
<1> QED BY <1>3, <1>5, <1>6, <1>7

\* The worker's steps.
LEMMA ProceedTypeStep ==
  ASSUME TypeInv, NEW w \in Workers, Proceed(w)
  PROVE  TypeInv'
<1> USE DEF Steps, Returns
<1>0. Busy(w)
  BY DEF Proceed, Claim, MarkBatchRunning, HealthCheck, PersistInterimResult,
         Finalize, Commit, PublishUpdate, Release, Acknowledge, Busy
<1> DEFINE c == execs[w].check
<1>1. /\ execs[w] \in Execs /\ c \in Checks /\ execs[w].attempt \in 1..MaxAttempts
      /\ JobOf(w) \in JobIds /\ rows[c] \in Rows
  BY <1>0, BusyExec DEF TypeInv
<1>2. /\ batch \in BatchStatus /\ rows \in [Checks -> Rows]
      /\ faults \in [FaultKinds -> Nat]
      /\ execs \in [Workers -> Execs \cup {Idle}] /\ jobs \in [JobIds -> Jobs]
  BY DEF TypeInv, TypeOK
<1>3. CASE Claim(w)
  <2>1. rows' \in [Checks -> Rows]
    BY <1>1, <1>2, <1>3, SMTT(30) DEF Claim, Rows, CheckStatus
  <2>2. \E pc \in {"mark", "complete"} : Goto(w, pc)
    BY <1>3 DEF Claim
  <2> QED BY <1>0, <1>2, <1>3, <2>1, <2>2, WorkerTypeStep DEF Claim
<1>4. CASE MarkBatchRunning(w)
  <2>1. batch' \in BatchStatus
    BY <1>2, <1>4 DEF MarkBatchRunning, BatchStatus
  <2> QED BY <1>0, <1>2, <1>4, <2>1, WorkerTypeStep DEF MarkBatchRunning
<1>5. CASE HealthCheck(w)
  <2>1. PICK o \in Outcomes :
          execs' = [execs EXCEPT ![w].pc = "store", ![w].outcome = o]
    BY <1>5 DEF HealthCheck
  <2>2. execs'[w] \in Execs /\ execs'[w].pc = "store"
    BY <1>1, <1>2, <2>1 DEF Execs
  <2>3. \A v \in Workers : v # w => execs'[v] = execs[v]
    BY <1>2, <2>1
  <2> QED BY <1>2, <1>5, <2>1, <2>2, <2>3 DEF HealthCheck, TypeInv, TypeOK, CountersInRange
<1>6. CASE PersistInterimResult(w)
  <2>1. [seen |-> execs[w].outcome, attempt |-> execs[w].attempt] \in Results
    BY <1>1, <1>6 DEF PersistInterimResult, Results, Outcomes, Transient
  <2>2. rows' \in [Checks -> Rows]
    BY <1>1, <1>2, <1>6, <2>1 DEF PersistInterimResult, Rows
  <2> QED BY <1>0, <1>2, <1>6, <2>2, WorkerTypeStep DEF PersistInterimResult
<1>7. CASE Finalize(w)
  <2>1. CASE OwnsRow(w)
    <3> DEFINE v == Aggregate(c, FinalStatus(w))
    <3>1. v \in BatchTerminal \cup {"none"}
      BY DEF Aggregate, BatchTerminal
    <3>2. execs' = [execs EXCEPT ![w].pc = "commit", ![w].verdict = v]
      BY <1>7, <2>1 DEF Finalize
    <3> HIDE DEF v
    <3>3. execs'[w] \in Execs /\ execs'[w].pc = "commit"
      BY <1>1, <1>2, <3>1, <3>2 DEF Execs
    <3>4. \A u \in Workers : u # w => execs'[u] = execs[u]
      BY <1>2, <3>2
    <3> QED BY <1>2, <1>7, <3>2, <3>3, <3>4 DEF Finalize, TypeInv, TypeOK, CountersInRange
  <2>2. CASE ~OwnsRow(w)
    BY <1>0, <1>2, <1>7, <2>2, WorkerTypeStep DEF Finalize
  <2> QED BY <2>1, <2>2
<1>8. CASE Commit(w)
  <2>1. execs[w].outcome \in Outcomes \cup {"none"} /\ rows[c].result \in Results
        /\ rows[c].gen \in Generations /\ rows[c].attempt \in 0..MaxAttempts
    BY <1>1 DEF Execs, Rows
  <2>2. [seen |-> execs[w].outcome, attempt |-> execs[w].attempt] \in Results
    BY <1>1, <2>1 DEF Results
  <2>3. FinalRow(w) \in Rows
    BY <2>1, <2>2 DEF FinalRow, FinalStatus, Row, Rows, CheckStatus
  <2>4. rows' \in [Checks -> Rows]
    BY <1>1, <1>2, <1>8, <2>3 DEF Commit
  <2>5. batch' \in BatchStatus
    BY <1>1, <1>2, <1>8 DEF Commit, BatchAfter, BatchStatus, Execs
  <2> QED BY <1>0, <1>2, <1>8, <2>4, <2>5, WorkerTypeStep DEF Commit
<1>9. CASE PublishUpdate(w)
  BY <1>0, <1>2, <1>9, WorkerTypeStep DEF PublishUpdate
<1>10. CASE Release(w)
  <2>1. PICK pc \in {"complete", "exhaust", "retry"} :
          /\ Goto(w, pc)
          /\ pc = "retry" => ~LastAttempt(w)
    BY <1>10 DEF Release, AfterRelease
  <2>2. pc = "retry" => execs[w].attempt < MaxAttempts
    BY <1>1, <2>1 DEF LastAttempt
  <2> QED BY <1>0, <1>2, <1>10, <2>1, <2>2, WorkerTypeStep DEF Release
<1>11. CASE Acknowledge(w)
  <2> DEFINE j == JobOf(w)
             told == ToldJob(jobs[j], execs[w].pc, execs[w].attempt)
  <2>1. /\ execs[w].pc \in Returns /\ jobs[j] \in Jobs
        /\ execs[w].pc = "retry" => execs[w].attempt < MaxAttempts
    BY <1>1, <1>2, <1>11 DEF Acknowledge, TypeInv, CountersInRange
  <2>2. told \in Jobs
    BY <1>1, <2>1 DEF Jobs, ToldJob
  <2>3. jobs[j].state = "active" =>
          (told.state \in {"waiting", "active"} =>
             told.made < MaxAttempts /\ told.stalls <= MaxStalls)
    BY <1>1, <2>1 DEF Jobs, TypeInv, CountersInRange, ToldJob
  <2>4. jobs' = jobs \/ (jobs[j].state = "active" /\ jobs' = [jobs EXCEPT ![j] = told])
    BY <1>11 DEF Acknowledge
  <2>5. execs' = [execs EXCEPT ![w] = Idle]
    BY <1>11 DEF Acknowledge
  <2> HIDE DEF told
  <2>6. jobs' \in [JobIds -> Jobs]
        /\ \A k \in JobIds : jobs'[k].state \in {"waiting", "active"} =>
             jobs'[k].made < MaxAttempts /\ jobs'[k].stalls <= MaxStalls
    BY <1>1, <1>2, <2>2, <2>3, <2>4 DEF TypeInv, CountersInRange
  <2> QED BY <1>2, <1>11, <2>5, <2>6
          DEF Acknowledge, TypeInv, TypeOK, CountersInRange, Idle
<1> QED BY <1>3, <1>4, <1>5, <1>6, <1>7, <1>8, <1>9, <1>10, <1>11 DEF Proceed

\* Every step keeps TypeInv.
LEMMA NextTypeInv == TypeInv /\ [Next]_vars => TypeInv'
<1> SUFFICES ASSUME TypeInv, [Next]_vars PROVE TypeInv'
  OBVIOUS
<1>1. ASSUME NEW w \in Workers, InfrastructureError(w)
      PROVE  TypeInv'
  <2>1. Busy(w) /\ AfterThrow(w) \in Steps \cup Returns
    BY <1>1 DEF InfrastructureError, Busy, Steps, AfterThrow, Returns
  <2>2. AfterThrow(w) = "retry" => execs[w].attempt < MaxAttempts
    BY <2>1, BusyExec DEF AfterThrow, LastAttempt, TypeInv
  <2>3. faults' \in [FaultKinds -> Nat]
    BY <1>1, FaultType DEF InfrastructureError, FaultKinds, TypeInv
  <2> QED BY <1>1, <2>1, <2>2, <2>3, WorkerTypeStep
          DEF InfrastructureError, TypeInv, TypeOK
<1>2. ASSUME NEW w \in Workers, Crash(w)
      PROVE  TypeInv'
  <2>1. faults' \in [FaultKinds -> Nat]
    BY <1>2, FaultType DEF Crash, FaultKinds, TypeInv
  <2> QED BY <1>2, <2>1 DEF Crash, TypeInv, TypeOK, CountersInRange, Idle
<1>3. CASE UNCHANGED vars
  BY <1>3 DEF vars, TypeInv, TypeOK, CountersInRange
<1> QED BY <1>1, <1>2, <1>3, ApiTypeStep, QueueTypeStep, ProceedTypeStep DEF Next

\* Type correctness: in particular no delivery has an attempt number beyond
\* MaxAttempts and no job more stalls than the queue allows.
THEOREM TypeCorrect == Spec => []TypeOK
<1>1. TypeInv => TypeOK
  BY DEF TypeInv
<1> QED BY <1>1, InitTypeInv, NextTypeInv, PTL DEF Spec

-----------------------------------------------------------------------------
(* The inductive invariant *)

\* Jobs, enqueue calls and deliveries are of generations the row has reached.
GenerationsReached ==
  /\ \A j \in JobIds : jobs[j].state # "none" => j[2] <= rows[j[1]].gen
  /\ \A a \in adds : a[3] <= rows[a[2]].gen
  /\ \A w \in Workers : Busy(w) => execs[w].gen <= rows[execs[w].check].gen

\* A QUEUED row has no attempt yet; only a PROCESSING row has a token or a
\* running lease.
RowsShaped ==
  \A c \in Checks :
    /\ rows[c].status = "QUEUED" => rows[c].attempt = 0
    /\ rows[c].token # NoWorker => rows[c].status = "PROCESSING"
    /\ rows[c].lease = "live" => rows[c].status = "PROCESSING"

\* Steps of a delivery whose claim succeeded.
Claimed == Steps \ {"claim"}

\* A token on the row is that of the claim in force: its holder works for the
\* row's generation and attempt; a finalizer that is committing holds it.
TokensInForce ==
  \A w \in Workers :
    /\ execs[w].pc \in Claimed /\ rows[execs[w].check].token = w
         => /\ rows[execs[w].check].gen = execs[w].gen
            /\ rows[execs[w].check].attempt = execs[w].attempt
    /\ execs[w].pc = "commit" => rows[execs[w].check].token = w

Interim(w) == [seen |-> execs[w].outcome, attempt |-> execs[w].attempt]

\* Between the interim write and the final one the row holds what the last
\* attempt saw, and only the last attempt goes on to finalize a transient one.
InterimRecorded ==
  \A w \in Workers :
    /\ execs[w].pc \in {"store", "commit", "exhaust"} => execs[w].outcome # "none"
    /\ execs[w].pc = "exhaust" =>
         execs[w].outcome \in Transient /\ execs[w].attempt = MaxAttempts
    /\ execs[w].pc = "commit" /\ execs[w].outcome \in Transient =>
         execs[w].attempt = MaxAttempts
    /\ /\ execs[w].pc \in {"commit", "release", "exhaust"}
       /\ execs[w].outcome \in Transient
       /\ rows[execs[w].check].token = w
       => rows[execs[w].check].result = Interim(w)

\* Generation g of a check has been taken, or is superseded.
Taken(c, g) == \/ rows[c].gen > g
               \/ rows[c].gen = g /\ rows[c].status # "QUEUED"

\* A job is done, or about to be, only for a check that has been taken.
DoneIsTaken ==
  /\ \A w \in Workers : execs[w].pc \in Claimed \cup {"complete"} =>
       Taken(execs[w].check, execs[w].gen)
  /\ \A j \in JobIds : jobs[j].state = "completed" => Taken(j[1], j[2])

IInv ==
  /\ TypeInv
  /\ GenerationsReached
  /\ RowsShaped
  /\ TokensInForce
  /\ InterimRecorded
  /\ DoneIsTaken
  /\ ResultIsLastAttempts
  /\ CancelReachesQueuedChecks

\* A new batch has no finished check, no delivery and no cancellation.
LEMMA InitIInv == Init => IInv
<1> SUFFICES ASSUME Init PROVE IInv
  OBVIOUS
<1>1. TypeInv
  BY InitTypeInv
<1>2. \A c \in Checks : /\ rows[c].status = "QUEUED" /\ rows[c].gen = 0
                        /\ rows[c].attempt = 0 /\ rows[c].token = NoWorker
                        /\ rows[c].lease = "none"
  BY DEF Init
<1>3. \A w \in Workers : execs[w].pc = "idle"
  BY DEF Init, Idle
<1>4. \A j \in JobIds : jobs[j].state = "none"
  BY DEF Init, NoJob
<1>5. adds = {"request"} \X Checks \X {0} /\ batch = "PENDING"
  BY DEF Init
<1> QED BY <1>1, <1>2, <1>3, <1>4, <1>5
        DEF IInv, GenerationsReached, RowsShaped, TokensInForce, InterimRecorded,
            DoneIsTaken, ResultIsLastAttempts, CancelReachesQueuedChecks, Busy,
            Claimed, Steps, Queued

\* What the parts of IInv need to know of the types.
LEMMA TypeFacts ==
  ASSUME TypeInv
  PROVE  /\ rows \in [Checks -> Rows] /\ jobs \in [JobIds -> Jobs]
         /\ execs \in [Workers -> Execs \cup {Idle}]
         /\ \A c \in Checks : rows[c].gen \in Nat /\ rows[c].attempt \in Nat
         /\ \A j \in JobIds : j[1] \in Checks /\ j[2] \in Nat
         /\ \A a \in adds : a[2] \in Checks /\ a[3] \in Nat
         /\ \A w \in Workers : execs[w].pc # "idle" =>
              /\ execs[w] \in Execs /\ execs[w].check \in Checks
              /\ execs[w].gen \in Nat /\ execs[w].attempt \in 1..MaxAttempts
              /\ JobOf(w) \in JobIds
<1>1. rows \in [Checks -> Rows] /\ jobs \in [JobIds -> Jobs]
      /\ execs \in [Workers -> Execs \cup {Idle}]
      /\ adds \subseteq {"request", "reconcile"} \X Checks \X Generations
  BY DEF TypeInv, TypeOK
<1>2. \A c \in Checks : rows[c].gen \in Nat /\ rows[c].attempt \in Nat
  BY <1>1 DEF Rows, Generations
<1>3. \A j \in JobIds : j[1] \in Checks /\ j[2] \in Nat
  BY DEF JobIds, Generations
<1>4. \A a \in adds : a[2] \in Checks /\ a[3] \in Nat
  BY <1>1 DEF Generations
<1>5. ASSUME NEW w \in Workers, execs[w].pc # "idle"
      PROVE  /\ execs[w] \in Execs /\ execs[w].check \in Checks
             /\ execs[w].gen \in Nat /\ execs[w].attempt \in 1..MaxAttempts
             /\ JobOf(w) \in JobIds
  BY <1>5, BusyExec DEF Busy, TypeInv, Generations
<1> QED BY <1>1, <1>2, <1>3, <1>4, <1>5

\* Steps that leave rows, deliveries and the fate of the batch alone.
LEMMA QuietStep ==
  ASSUME IInv, TypeInv', UNCHANGED <<rows, execs>>,
         batch' = "CANCELLED" <=> batch = "CANCELLED",
         \A j \in JobIds : jobs'[j].state = jobs[j].state
           \/ /\ jobs'[j].state # "completed"
              /\ jobs'[j].state # "none" => j[2] <= rows[j[1]].gen,
         \A a \in adds' : a \in adds \/ a[3] <= rows[a[2]].gen
  PROVE  IInv'
<1>1. GenerationsReached' /\ RowsShaped' /\ TokensInForce' /\ InterimRecorded'
  BY DEF IInv, GenerationsReached, RowsShaped, TokensInForce, InterimRecorded,
         Busy, Interim
<1>2. DoneIsTaken'
  BY DEF IInv, DoneIsTaken, Taken
<1>3. ResultIsLastAttempts' /\ CancelReachesQueuedChecks'
  BY DEF IInv, ResultIsLastAttempts, CancelReachesQueuedChecks, Queued
<1> QED BY <1>1, <1>2, <1>3 DEF IInv

\* The API's steps and the clock keep IInv.
LEMMA ApiStep ==
  ASSUME IInv, TypeInv',
         \/ CreateReturns \/ CreateDies \/ CancelBatch \/ RetryFailedUrls
         \/ \E a \in adds : AddJob(a) \/ AddFails(a)
         \/ \E c \in Checks : ReconcileSelects(c) \/ LeaseExpires(c)
  PROVE  IInv'
<1>1. /\ rows \in [Checks -> Rows] /\ jobs \in [JobIds -> Jobs]
      /\ \A c \in Checks : rows[c].gen \in Nat /\ rows[c].attempt \in Nat
      /\ \A j \in JobIds : j[1] \in Checks /\ j[2] \in Nat
      /\ \A a \in adds : a[2] \in Checks /\ a[3] \in Nat
      /\ \A w \in Workers : execs[w].pc # "idle" =>
           /\ execs[w].check \in Checks /\ execs[w].gen \in Nat
  BY TypeFacts DEF IInv
<1>2. CASE CreateReturns
  BY <1>2, QuietStep DEF CreateReturns, IInv
<1>3. CASE CreateDies
  BY <1>3, QuietStep DEF CreateDies
<1>4. ASSUME NEW a \in adds, AddJob(a)
      PROVE  IInv'
  <2> DEFINE j == <<a[2], a[3]>>
  <2>1. j \in JobIds /\ a[3] <= rows[a[2]].gen
    BY DEF JobIds, IInv, TypeInv, TypeOK, GenerationsReached
  <2>2. jobs' = [jobs EXCEPT ![j] = AddedJob(j)]
        /\ AddedJob(j).state = IF jobs[j].state = "none" THEN "waiting" ELSE jobs[j].state
    BY <1>4 DEF AddJob, AddedJob, NewJob, NoJob
  <2>3. \A k \in JobIds : jobs'[k].state = jobs[k].state
           \/ /\ jobs'[k].state # "completed"
              /\ jobs'[k].state # "none" => k[2] <= rows[k[1]].gen
    BY <1>1, <2>1, <2>2
  <2>4. UNCHANGED <<rows, execs, batch>> /\ \A b \in adds' : b \in adds
    BY <1>4 DEF AddJob
  <2> QED BY <2>3, <2>4, QuietStep
<1>5. ASSUME NEW a \in adds, AddFails(a)
      PROVE  IInv'
  BY <1>5, QuietStep DEF AddFails
<1>6. ASSUME NEW c \in Checks, ReconcileSelects(c)
      PROVE  IInv'
  <2>1. \A a \in adds' : a \in adds \/ a[3] <= rows[a[2]].gen
    BY <1>1, <1>6 DEF ReconcileSelects
  <2> QED BY <1>6, <2>1, QuietStep DEF ReconcileSelects
<1>7. ASSUME NEW c \in Checks, LeaseExpires(c)
      PROVE  IInv'
  <2>1. /\ UNCHANGED <<jobs, execs, adds, batch>>
        /\ \A d \in Checks :
             /\ rows'[d].status = rows[d].status /\ rows'[d].gen = rows[d].gen
             /\ rows'[d].attempt = rows[d].attempt /\ rows'[d].token = rows[d].token
             /\ rows'[d].result = rows[d].result
             /\ rows'[d].lease = "live" => rows[d].lease = "live"
    BY <1>1, <1>7 DEF LeaseExpires, Rows
  <2>2. GenerationsReached' /\ RowsShaped' /\ TokensInForce'
    BY <1>1, <2>1 DEF IInv, GenerationsReached, RowsShaped, TokensInForce, Busy,
                      Claimed, Steps
  <2>3. InterimRecorded' /\ DoneIsTaken'
    BY <1>1, <2>1 DEF IInv, InterimRecorded, DoneIsTaken, Taken, Interim, Claimed, Steps
  <2>4. ResultIsLastAttempts' /\ CancelReachesQueuedChecks'
    BY <2>1 DEF IInv, ResultIsLastAttempts, CancelReachesQueuedChecks, Queued
  <2> QED BY <2>2, <2>3, <2>4 DEF IInv
<1>8. CASE CancelBatch
  <2>1. /\ UNCHANGED <<jobs, execs, adds>> /\ batch' = "CANCELLED"
        /\ \A d \in Checks :
             /\ rows'[d].status = IF rows[d].status = "QUEUED" THEN "CANCELLED"
                                  ELSE rows[d].status
             /\ rows'[d].gen = rows[d].gen /\ rows'[d].attempt = rows[d].attempt
             /\ rows'[d].token = rows[d].token /\ rows'[d].result = rows[d].result
             /\ rows'[d].lease = rows[d].lease
    BY <1>1, <1>8 DEF CancelBatch, Queued, Rows
  <2>2. GenerationsReached' /\ RowsShaped' /\ TokensInForce'
    BY <1>1, <2>1 DEF IInv, GenerationsReached, RowsShaped, TokensInForce, Busy,
                      Claimed, Steps
  <2>3. InterimRecorded' /\ DoneIsTaken'
    BY <1>1, <2>1 DEF IInv, InterimRecorded, DoneIsTaken, Taken, Interim, Claimed, Steps
  <2>4. ResultIsLastAttempts' /\ CancelReachesQueuedChecks'
    BY <2>1 DEF IInv, ResultIsLastAttempts, CancelReachesQueuedChecks, Queued
  <2> QED BY <2>2, <2>3, <2>4 DEF IInv
<1>9. CASE RetryFailedUrls
  <2>1. /\ UNCHANGED <<jobs, execs>> /\ batch # "CANCELLED" /\ batch' = "RUNNING"
        /\ \A d \in Checks : rows[d].status # "FAILED" => rows'[d] = rows[d]
        /\ \A d \in Checks : rows[d].status = "FAILED" =>
             /\ rows'[d].status = "QUEUED" /\ rows'[d].gen = rows[d].gen + 1
             /\ rows'[d].attempt = 0 /\ rows'[d].token = rows[d].token
             /\ rows'[d].lease = rows[d].lease
    BY <1>1, <1>9, ZenonT(40) DEF RetryFailedUrls, Failed, ResetRow, Rows, MayRetry
  <2>2. \A a \in adds' : a[2] \in Checks /\ a[3] \in Nat /\ a[3] <= rows'[a[2]].gen
    <3>1. adds' = adds \cup {<<"request", c, ResetRow(rows[c]).gen>> : c \in Failed}
      BY <1>9 DEF RetryFailedUrls
    <3>2. \A c \in Failed : c \in Checks /\ ResetRow(rows[c]).gen = rows[c].gen + 1
                            /\ rows'[c].gen = rows[c].gen + 1
      BY <1>1, <2>1 DEF Failed, ResetRow, Rows
    <3>3. \A a \in adds : a[3] <= rows[a[2]].gen
      BY DEF IInv, GenerationsReached
    <3>4. \A c \in Checks : rows[c].gen <= rows'[c].gen
      BY <1>1, <2>1
    <3>5. ASSUME NEW a \in adds
          PROVE  a[2] \in Checks /\ a[3] \in Nat /\ a[3] <= rows'[a[2]].gen
      <4>1. rows[a[2]].gen <= rows'[a[2]].gen /\ rows[a[2]].gen \in Nat
        BY <1>1, <3>4
      <4>2. rows'[a[2]].gen = rows[a[2]].gen \/ rows'[a[2]].gen = rows[a[2]].gen + 1
        BY <1>1, <2>1
      <4> QED BY <1>1, <3>3, <4>1, <4>2
    <3>6. ASSUME NEW c \in Failed
          PROVE  LET a == <<"request", c, ResetRow(rows[c]).gen>>
                 IN  a[2] \in Checks /\ a[3] \in Nat /\ a[3] <= rows'[a[2]].gen
      BY <1>1, <3>2
    <3> QED BY <3>1, <3>5, <3>6
  <2>3. RowsShaped' /\ ResultIsLastAttempts' /\ CancelReachesQueuedChecks'
    BY <1>1, <2>1 DEF IInv, RowsShaped, ResultIsLastAttempts,
                      CancelReachesQueuedChecks, Queued
  <2>4. GenerationsReached'
    BY <1>1, <2>1, <2>2 DEF IInv, GenerationsReached, Busy
  <2>5. TokensInForce' /\ InterimRecorded'
    BY <1>1, <2>1 DEF IInv, RowsShaped, TokensInForce, InterimRecorded, Interim,
                      Claimed, Steps
  <2>6. DoneIsTaken'
    <3>1. ASSUME NEW c \in Checks, NEW g \in Nat, g <= rows[c].gen, Taken(c, g)
          PROVE  Taken(c, g)'
      BY <1>1, <2>1, <3>1 DEF Taken
    <3> QED BY <1>1, <2>1, <3>1
            DEF IInv, DoneIsTaken, GenerationsReached, Busy, Claimed, Steps
  <2> QED BY <2>3, <2>4, <2>5, <2>6 DEF IInv
<1> QED BY <1>2, <1>3, <1>4, <1>5, <1>6, <1>7, <1>8, <1>9

\* The queue's steps keep IInv.
LEMMA QueueStep ==
  ASSUME IInv, TypeInv', NEW j \in JobIds,
         \/ \E w \in Workers : Deliver(w, j)
         \/ StallAbandoned(j) \/ StallRunning(j) \/ Evict(j)
  PROVE  IInv'
<1>1. /\ jobs \in [JobIds -> Jobs] /\ execs \in [Workers -> Execs \cup {Idle}]
      /\ \A k \in JobIds : k[1] \in Checks /\ k[2] \in Nat
      /\ jobs[j].state # "none" => j[2] <= rows[j[1]].gen
  BY TypeFacts DEF IInv, GenerationsReached
<1>2. ASSUME NEW w \in Workers, Deliver(w, j)
      PROVE  IInv'
  <2>1. /\ UNCHANGED <<rows, batch, adds>>
        /\ j[2] <= rows[j[1]].gen
        /\ execs'[w].pc = "claim" /\ execs'[w].check = j[1] /\ execs'[w].gen = j[2]
        /\ \A v \in Workers : v # w => execs'[v] = execs[v]
        /\ \A k \in JobIds : k # j => jobs'[k] = jobs[k]
        /\ jobs'[j].state = "active"
    BY <1>1, <1>2 DEF Deliver, Jobs
  <2>2. GenerationsReached' /\ RowsShaped' /\ TokensInForce'
    BY <1>1, <2>1 DEF IInv, GenerationsReached, RowsShaped, TokensInForce, Busy,
                      Claimed, Steps
  <2>3. InterimRecorded' /\ DoneIsTaken'
    BY <1>1, <2>1 DEF IInv, InterimRecorded, DoneIsTaken, Taken, Interim, Claimed, Steps
  <2>4. ResultIsLastAttempts' /\ CancelReachesQueuedChecks'
    BY <2>1 DEF IInv, ResultIsLastAttempts, CancelReachesQueuedChecks, Queued
  <2> QED BY <2>2, <2>3, <2>4 DEF IInv
<1>3. CASE Stall(j)
  <2>1. \A k \in JobIds : k # j => jobs'[k] = jobs[k]
    BY <1>1, <1>3 DEF Stall
  <2>2. jobs'[j].state \in {"waiting", "failed"} /\ jobs[j].state = "active"
    BY <1>1, <1>3 DEF Stall, StalledJob
  <2> QED BY <1>1, <1>3, <2>1, <2>2, QuietStep DEF Stall
<1>4. CASE Evict(j)
  <2>1. \A k \in JobIds : k # j => jobs'[k] = jobs[k]
    BY <1>1, <1>4 DEF Evict
  <2>2. jobs'[j].state = "none"
    BY <1>1, <1>4 DEF Evict, NoJob
  <2> QED BY <1>1, <1>4, <2>1, <2>2, QuietStep DEF Evict
<1> QED BY <1>2, <1>3, <1>4 DEF StallAbandoned, StallRunning

\* A step that only moves one delivery on.
LEMMA MoveStep ==
  ASSUME IInv, TypeInv', NEW w \in Workers, Busy(w), NEW pc, pc # "idle",
         Goto(w, pc), UNCHANGED <<rows, jobs, adds>>,
         batch' = "CANCELLED" <=> batch = "CANCELLED",
         pc \in Claimed => execs[w].pc \in Claimed,
         pc = "complete" => Taken(execs[w].check, execs[w].gen),
         pc \notin {"store", "commit"},
         pc = "exhaust" => execs[w].pc = "release" /\ execs[w].attempt = MaxAttempts
                           /\ execs[w].outcome \in Transient,
         pc = "release" => execs[w].outcome \notin Transient
  PROVE  IInv'
<1>1. /\ execs \in [Workers -> Execs \cup {Idle}] /\ execs[w] \in Execs
      /\ \A v \in Workers : v # w => execs'[v] = execs[v]
  BY TypeFacts DEF Goto, IInv, Busy
<1>2. /\ execs'[w].pc = pc /\ execs'[w].check = execs[w].check
      /\ execs'[w].gen = execs[w].gen /\ execs'[w].attempt = execs[w].attempt
      /\ execs'[w].outcome = execs[w].outcome
  BY <1>1 DEF Goto, Execs
<1>3. GenerationsReached' /\ RowsShaped'
  BY <1>1, <1>2 DEF IInv, GenerationsReached, RowsShaped, Busy
<1>4. TokensInForce'
  BY <1>1, <1>2 DEF IInv, TokensInForce, Claimed, Steps
<1>5. InterimRecorded'
  BY <1>1, <1>2 DEF IInv, InterimRecorded, Interim, Transient
<1>6. DoneIsTaken'
  BY <1>1, <1>2 DEF IInv, DoneIsTaken, Taken, Claimed, Steps
<1>7. ResultIsLastAttempts' /\ CancelReachesQueuedChecks'
  BY DEF IInv, ResultIsLastAttempts, CancelReachesQueuedChecks, Queued
<1> QED BY <1>3, <1>4, <1>5, <1>6, <1>7 DEF IInv

\* The claim: it takes a row whose generation it is, or whose attempt it passes.
LEMMA ClaimStep ==
  ASSUME IInv, TypeInv', NEW w \in Workers, Claim(w)
  PROVE  IInv'
<1> DEFINE c == execs[w].check
<1>1. /\ rows \in [Checks -> Rows] /\ execs \in [Workers -> Execs \cup {Idle}]
      /\ \A d \in Checks : rows[d].gen \in Nat /\ rows[d].attempt \in Nat
      /\ execs[w] \in Execs /\ c \in Checks /\ execs[w].gen \in Nat
      /\ execs[w].attempt \in 1..MaxAttempts /\ execs[w].pc = "claim" /\ Busy(w)
      /\ execs[w].gen <= rows[c].gen
  BY TypeFacts DEF Claim, IInv, GenerationsReached, Busy
<1>2. \A v \in Workers : execs[v].pc # "idle" =>
        execs[v].check \in Checks /\ execs[v].gen \in Nat
  BY TypeFacts DEF IInv
<1>3. CASE MayClaim(w)
  <2>1. /\ UNCHANGED <<jobs, adds, batch>>
        /\ execs'[w].pc = "mark" /\ execs'[w].check = c
        /\ execs'[w].gen = execs[w].gen /\ execs'[w].attempt = execs[w].attempt
        /\ execs'[w].outcome = execs[w].outcome
        /\ \A v \in Workers : v # w => execs'[v] = execs[v]
    BY <1>1, <1>3 DEF Claim, Goto, Execs
  <2>2. /\ rows'[c].status = "PROCESSING" /\ rows'[c].attempt = execs[w].attempt
        /\ rows'[c].gen = rows[c].gen /\ rows'[c].token = w
        /\ rows'[c].result = rows[c].result
        /\ \A d \in Checks : d # c => rows'[d] = rows[d]
    BY <1>1, <1>3 DEF Claim, Rows
  <2>3. rows[c].gen = execs[w].gen /\ rows[c].status \in {"QUEUED", "PROCESSING"}
    BY <1>3 DEF MayClaim, Row
  <2>4. \A v \in Workers : execs[v].pc = "commit" => execs[v].check # c
    BY <1>1 DEF Claim, Locked
  <2>5. GenerationsReached' /\ RowsShaped'
    <3>1. \A d \in Checks : rows'[d].gen = rows[d].gen
      BY <2>2
    <3>2. (\A j \in JobIds : j[1] \in Checks) /\ (\A a \in adds : a[2] \in Checks)
      BY TypeFacts DEF IInv
    <3>3. GenerationsReached'
      BY <1>1, <1>2, <2>1, <3>1, <3>2 DEF IInv, GenerationsReached, Busy
    <3>4. RowsShaped'
      BY <1>1, <2>2 DEF IInv, RowsShaped
    <3> QED BY <3>3, <3>4
  <2>6. TokensInForce'
    BY <1>1, <1>2, <2>1, <2>2, <2>3, <2>4 DEF IInv, TokensInForce, Claimed, Steps
  <2>7. InterimRecorded'
    BY <1>1, <1>2, <2>1, <2>2, <2>4 DEF IInv, InterimRecorded, Interim
  <2>8. DoneIsTaken'
    BY <1>1, <1>2, <2>1, <2>2, <2>3
       DEF IInv, DoneIsTaken, Taken, Claimed, Steps, JobIds
  <2>9. ResultIsLastAttempts' /\ CancelReachesQueuedChecks'
    BY <1>1, <2>1, <2>2, <2>3
       DEF IInv, ResultIsLastAttempts, CancelReachesQueuedChecks, Queued
  <2> QED BY <2>5, <2>6, <2>7, <2>8, <2>9 DEF IInv
<1>4. CASE ~MayClaim(w)
  <2>1. Taken(c, execs[w].gen)
    BY <1>1, <1>4 DEF IInv, RowsShaped, Taken, MayClaim, Row
  <2> QED BY <1>1, <1>4, <2>1, MoveStep DEF Claim, Claimed, Steps
<1> QED BY <1>3, <1>4

\* The outcome of the request, and the count of a finalizer that owns its row:
\* steps that move a delivery and set its outcome or its verdict.
LEMMA OutcomeStep ==
  ASSUME IInv, TypeInv', NEW w \in Workers, NEW new \in Execs,
         execs' = [execs EXCEPT ![w] = new], execs[w].pc \in Claimed,
         new.check = execs[w].check, new.gen = execs[w].gen,
         new.attempt = execs[w].attempt, new.outcome # "none",
         \/ new.pc = "store"
         \/ /\ new.pc = "commit" /\ new.outcome = execs[w].outcome
            /\ rows[execs[w].check].token = w
            /\ execs[w].pc = "exhaust" \/ new.outcome \notin Transient,
         UNCHANGED <<batch, rows, jobs, adds>>
  PROVE  IInv'
<1>1. /\ execs \in [Workers -> Execs \cup {Idle}] /\ execs[w].pc # "idle"
      /\ execs'[w] = new
      /\ \A v \in Workers : v # w => execs'[v] = execs[v]
  BY TypeFacts DEF IInv, Claimed, Steps
<1>2. GenerationsReached' /\ RowsShaped'
  BY <1>1 DEF IInv, GenerationsReached, RowsShaped, Busy
<1>3. TokensInForce'
  BY <1>1 DEF IInv, TokensInForce, Claimed, Steps
<1>4. InterimRecorded'
  BY <1>1 DEF IInv, InterimRecorded, Interim
<1>5. DoneIsTaken'
  BY <1>1 DEF IInv, DoneIsTaken, Taken, Claimed, Steps
<1>6. ResultIsLastAttempts' /\ CancelReachesQueuedChecks'
  BY DEF IInv, ResultIsLastAttempts, CancelReachesQueuedChecks, Queued
<1> QED BY <1>2, <1>3, <1>4, <1>5, <1>6 DEF IInv

\* The interim write, and the release that follows it.
LEMMA PersistStep ==
  ASSUME IInv, TypeInv', NEW w \in Workers, PersistInterimResult(w)
  PROVE  IInv'
<1> DEFINE c == execs[w].check
<1>1. /\ rows \in [Checks -> Rows] /\ execs \in [Workers -> Execs \cup {Idle}]
      /\ execs[w] \in Execs /\ c \in Checks /\ execs[w].pc = "store"
      /\ execs[w].outcome \in Transient
      /\ \A v \in Workers : execs[v].pc = "commit" => execs[v].check # c
  BY TypeFacts DEF PersistInterimResult, Locked, IInv
<1>2. /\ UNCHANGED <<jobs, adds, batch>>
      /\ execs'[w].pc = "release" /\ execs'[w].check = c
      /\ execs'[w].gen = execs[w].gen /\ execs'[w].attempt = execs[w].attempt
      /\ execs'[w].outcome = execs[w].outcome
      /\ \A v \in Workers : v # w => execs'[v] = execs[v]
  BY <1>1 DEF PersistInterimResult, Goto, Execs
<1>3. \A d \in Checks :
        /\ rows'[d].status = rows[d].status /\ rows'[d].gen = rows[d].gen
        /\ rows'[d].attempt = rows[d].attempt /\ rows'[d].token = rows[d].token
        /\ rows'[d].result = IF d = c /\ OwnsRow(w) THEN Interim(w) ELSE rows[d].result
        /\ rows'[d].lease = rows[d].lease
  BY <1>1 DEF PersistInterimResult, Rows, Interim
<1>4. rows[c].token = w => OwnsRow(w)
  BY <1>1 DEF IInv, TokensInForce, RowsShaped, OwnsRow, Row, Claimed, Steps
<1>5. OwnsRow(w) => rows[c].status = "PROCESSING" /\ rows[c].token = w
  BY DEF OwnsRow, Row
<1>6. \A v \in Workers : execs[v].pc # "idle" => execs[v].check \in Checks
  BY TypeFacts DEF IInv
<1>7. (\A j \in JobIds : j[1] \in Checks) /\ (\A a \in adds : a[2] \in Checks)
  BY TypeFacts DEF IInv
<1>8. GenerationsReached' /\ RowsShaped'
  BY <1>1, <1>2, <1>3, <1>6, <1>7 DEF IInv, GenerationsReached, RowsShaped, Busy
<1>9. TokensInForce'
  BY <1>1, <1>2, <1>3, <1>6 DEF IInv, TokensInForce, Claimed, Steps
<1>10. InterimRecorded'
  BY <1>1, <1>2, <1>3, <1>4, <1>5, <1>6 DEF IInv, InterimRecorded, Interim
<1>11. DoneIsTaken'
  BY <1>1, <1>2, <1>3, <1>6, <1>7 DEF IInv, DoneIsTaken, Taken, Claimed, Steps
<1>12. ResultIsLastAttempts' /\ CancelReachesQueuedChecks'
  BY <1>2, <1>3, <1>5
     DEF IInv, ResultIsLastAttempts, CancelReachesQueuedChecks, Queued
<1> QED BY <1>8, <1>9, <1>10, <1>11, <1>12 DEF IInv

\* The commit of a finalizer, which still holds the token of the row.
LEMMA CommitStep ==
  ASSUME IInv, TypeInv', NEW w \in Workers, Commit(w)
  PROVE  IInv'
<1> DEFINE c == execs[w].check
<1>1. /\ rows \in [Checks -> Rows] /\ execs \in [Workers -> Execs \cup {Idle}]
      /\ execs[w] \in Execs /\ c \in Checks /\ execs[w].pc = "commit"
      /\ execs[w].outcome # "none"
      /\ rows[c].token = w /\ rows[c].status = "PROCESSING"
      /\ rows[c].gen = execs[w].gen /\ rows[c].attempt = execs[w].attempt
      /\ execs[w].outcome \in Transient =>
           execs[w].attempt = MaxAttempts /\ rows[c].result = Interim(w)
  BY TypeFacts DEF Commit, IInv, TokensInForce, InterimRecorded, RowsShaped,
                   Claimed, Steps
<1>2. /\ UNCHANGED <<jobs, adds>> /\ (batch' = "CANCELLED" <=> batch = "CANCELLED")
      /\ execs'[w].pc = "publish" /\ execs'[w].check = c
      /\ execs'[w].gen = execs[w].gen
      /\ \A v \in Workers : v # w => execs'[v] = execs[v]
  BY <1>1 DEF Commit, Goto, Execs, BatchAfter, BatchTerminal
<1>3. /\ rows'[c] = FinalRow(w)
      /\ \A d \in Checks : d # c => rows'[d] = rows[d]
  BY <1>1 DEF Commit
<1>4. /\ rows'[c].status = FinalStatus(w) /\ rows'[c].gen = rows[c].gen
      /\ rows'[c].attempt = rows[c].attempt /\ rows'[c].token = NoWorker
      /\ rows'[c].lease = "none"
      /\ rows'[c].result = IF execs[w].outcome \in Transient
                           THEN rows[c].result ELSE Interim(w)
      /\ FinalStatus(w) \in {"SUCCESS", "FAILED"}
      /\ FinalStatus(w) = "SUCCESS" <=> execs[w].outcome = "ok"
  BY <1>3 DEF FinalRow, FinalStatus, Row, Interim
<1>5. \A v \in Workers : execs[v].pc # "idle" => execs[v].check \in Checks
  BY TypeFacts DEF IInv
<1>6. (\A j \in JobIds : j[1] \in Checks) /\ (\A a \in adds : a[2] \in Checks)
  BY TypeFacts DEF IInv
<1>7. \A d \in Checks : rows'[d].gen = rows[d].gen
  BY <1>3, <1>4
<1>8. GenerationsReached'
  BY <1>1, <1>2, <1>5, <1>6, <1>7 DEF IInv, GenerationsReached, Busy
<1>9. RowsShaped'
  BY <1>3, <1>4 DEF IInv, RowsShaped
<1>10. \A v \in Workers : v # w /\ execs[v].pc = "commit" => execs[v].check # c
  BY <1>1 DEF IInv, TokensInForce
<1>11. TokensInForce' /\ InterimRecorded'
  BY <1>1, <1>2, <1>3, <1>4, <1>5, <1>10
     DEF IInv, TokensInForce, InterimRecorded, Interim, Claimed, Steps
<1>12. DoneIsTaken'
  BY <1>1, <1>2, <1>3, <1>4, <1>5, <1>6, <1>7
     DEF IInv, DoneIsTaken, Taken, Claimed, Steps
<1>13. ResultIsLastAttempts'
  BY <1>1, <1>3, <1>4
     DEF IInv, ResultIsLastAttempts, Interim, Transient, Execs, Outcomes
<1>14. CancelReachesQueuedChecks'
  BY <1>2, <1>3, <1>4 DEF IInv, CancelReachesQueuedChecks, Queued
<1> QED BY <1>8, <1>9, <1>11, <1>12, <1>13, <1>14 DEF IInv

\* The end of a delivery: acknowledged, or lost with its worker.
LEMMA EndStep ==
  ASSUME IInv, TypeInv', NEW w \in Workers, Acknowledge(w) \/ Crash(w)
  PROVE  IInv'
<1>1. /\ jobs \in [JobIds -> Jobs] /\ execs \in [Workers -> Execs \cup {Idle}]
      /\ execs[w].pc # "idle" /\ execs[w].check \in Checks /\ JobOf(w) \in JobIds
  BY TypeFacts DEF Acknowledge, Crash, Busy, Returns, IInv
<1>2. /\ UNCHANGED <<rows, adds, batch>>
      /\ execs'[w].pc = "idle"
      /\ \A v \in Workers : v # w => execs'[v] = execs[v]
  BY <1>1 DEF Acknowledge, Crash, Idle
<1>3. \A j \in JobIds :
        \/ jobs'[j] = jobs[j]
        \/ /\ j = JobOf(w) /\ jobs[j].state = "active"
           /\ jobs'[j].state = "completed" => execs[w].pc = "complete"
  BY <1>1 DEF Acknowledge, Crash, ToldJob
<1>4. GenerationsReached' /\ RowsShaped'
  BY <1>1, <1>2, <1>3 DEF IInv, GenerationsReached, RowsShaped, Busy
<1>5. TokensInForce' /\ InterimRecorded'
  BY <1>1, <1>2 DEF IInv, TokensInForce, InterimRecorded, Interim, Claimed, Steps
<1>6. DoneIsTaken'
  BY <1>1, <1>2, <1>3 DEF IInv, DoneIsTaken, Taken, Claimed, Steps, JobOf
<1>7. ResultIsLastAttempts' /\ CancelReachesQueuedChecks'
  BY <1>2 DEF IInv, ResultIsLastAttempts, CancelReachesQueuedChecks, Queued
<1> QED BY <1>4, <1>5, <1>6, <1>7 DEF IInv

\* The steps of a delivery between its claim and its end.
LEMMA WorkStep ==
  ASSUME IInv, TypeInv', NEW w \in Workers,
         \/ MarkBatchRunning(w) \/ HealthCheck(w) \/ Finalize(w)
         \/ PublishUpdate(w) \/ Release(w) \/ InfrastructureError(w)
  PROVE  IInv'
<1> USE DEF Claimed, Steps
<1>1. /\ execs[w].pc \in Steps /\ Busy(w)
      /\ execs \in [Workers -> Execs \cup {Idle}] /\ execs[w] \in Execs
      /\ execs[w].attempt \in 1..MaxAttempts
      /\ execs[w].pc # "claim" => Taken(execs[w].check, execs[w].gen)
  BY TypeFacts DEF IInv, Busy, MarkBatchRunning, HealthCheck, Finalize,
                   PublishUpdate, Release, InfrastructureError, DoneIsTaken
<1>2. CASE MarkBatchRunning(w)
  BY <1>1, <1>2, MoveStep DEF MarkBatchRunning
<1>3. CASE HealthCheck(w)
  <2>1. PICK o \in Outcomes :
          execs' = [execs EXCEPT ![w].pc = "store", ![w].outcome = o]
    BY <1>3 DEF HealthCheck
  <2> DEFINE new == [execs[w] EXCEPT !.pc = "store", !.outcome = o]
  <2>2. /\ new \in Execs /\ new.check = execs[w].check /\ new.gen = execs[w].gen
        /\ new.attempt = execs[w].attempt /\ new.outcome = o /\ new.pc = "store"
    BY <1>1 DEF Execs
  <2>3. execs' = [execs EXCEPT ![w] = new]
    BY <1>1, <2>1
  <2>4. o # "none"
    BY DEF Outcomes
  <2> HIDE DEF new
  <2> QED BY <1>3, <2>2, <2>3, <2>4, OutcomeStep DEF HealthCheck
<1>4. CASE Finalize(w)
  <2>1. CASE OwnsRow(w)
    <3> DEFINE verdict == Aggregate(execs[w].check, FinalStatus(w))
               new == [execs[w] EXCEPT !.pc = "commit", !.verdict = verdict]
    <3>1. verdict \in BatchTerminal \cup {"none"}
      BY DEF Aggregate, BatchTerminal
    <3>2. execs' = [execs EXCEPT ![w] = new]
      BY <1>1, <1>4, <2>1 DEF Finalize
    <3> HIDE DEF verdict
    <3>3. /\ new \in Execs /\ new.check = execs[w].check /\ new.gen = execs[w].gen
          /\ new.attempt = execs[w].attempt /\ new.pc = "commit"
          /\ new.outcome = execs[w].outcome
      BY <1>1, <3>1 DEF Execs
    <3>4. execs[w].outcome # "none"
      BY <1>4 DEF Finalize, IInv, InterimRecorded
    <3>5. rows[execs[w].check].token = w
      BY <2>1 DEF OwnsRow, Row
    <3>6. execs[w].pc = "exhaust" \/ execs[w].outcome \notin Transient
      BY <1>4 DEF Finalize
    <3>7. execs[w].pc \in Claimed /\ UNCHANGED <<batch, rows, jobs, adds>>
      BY <1>4 DEF Finalize
    <3> HIDE DEF new
    <3> QED BY <3>2, <3>3, <3>4, <3>5, <3>6, <3>7, OutcomeStep
  <2>2. CASE ~OwnsRow(w)
    BY <1>1, <1>4, <2>2, MoveStep DEF Finalize
  <2> QED BY <2>1, <2>2
<1>5. CASE PublishUpdate(w)
  BY <1>1, <1>5, MoveStep DEF PublishUpdate
<1>6. CASE Release(w)
  <2>1. /\ execs[w].pc = "release" /\ Goto(w, AfterRelease(w))
        /\ UNCHANGED <<rows, jobs, adds, batch>>
    BY <1>6 DEF Release
  <2>2. AfterRelease(w) \in {"complete", "exhaust", "retry"}
    BY DEF AfterRelease
  <2>3. AfterRelease(w) = "exhaust" =>
          execs[w].outcome \in Transient /\ execs[w].attempt = MaxAttempts
    BY <1>1 DEF AfterRelease, LastAttempt
  <2> QED BY <1>1, <2>1, <2>2, <2>3, MoveStep
<1>7. CASE InfrastructureError(w)
  <2>1. AfterThrow(w) \in {"fail", "retry"}
    BY DEF AfterThrow
  <2> QED BY <1>1, <1>7, <2>1, MoveStep DEF InfrastructureError
<1> QED BY <1>2, <1>3, <1>4, <1>5, <1>6, <1>7

\* Every step keeps IInv: API, queue, claims, work and the end of a delivery.
LEMMA NextIInv == IInv /\ [Next]_vars => IInv'
<1> SUFFICES ASSUME IInv, [Next]_vars PROVE IInv'
  OBVIOUS
<1>1. TypeInv'
  BY NextTypeInv DEF IInv
<1>2. CASE UNCHANGED vars
  BY <1>1, <1>2, QuietStep DEF vars
<1>3. ASSUME NEW w \in Workers, Proceed(w)
      PROVE  IInv'
  BY <1>1, <1>3, ClaimStep, PersistStep, CommitStep, EndStep, WorkStep DEF Proceed
<1>4. ASSUME NEW w \in Workers, InfrastructureError(w) \/ Crash(w)
      PROVE  IInv'
  BY <1>1, <1>4, EndStep, WorkStep
<1> QED BY <1>1, <1>2, <1>3, <1>4, ApiStep, QueueStep DEF Next

\* IInv is inductive, so it holds in every reachable state.
LEMMA IInvAlways == Spec => []IInv
BY InitIInv, NextIInv, PTL DEF Spec

-----------------------------------------------------------------------------
(* What the system guarantees *)

\* A finished check shows what its last attempt saw, whatever stalls, crashes
\* and late workers happened: persistInterimResult and finalizeExhaustedRetries
\* write under the same claim token.
THEOREM FinishedResults == Spec => []ResultIsLastAttempts
<1>1. IInv => ResultIsLastAttempts
  BY DEF IInv
<1> QED BY <1>1, IInvAlways, PTL

\* Nothing is queued in a CANCELLED batch: cancelBatch flips every QUEUED row
\* and retryFailedUrls, the only way back to QUEUED, refuses the batch.
THEOREM CancelIsComplete == Spec => []CancelReachesQueuedChecks
<1>1. IInv => CancelReachesQueuedChecks
  BY DEF IInv
<1> QED BY <1>1, IInvAlways, PTL

\* The queue marks a job completed only after its check was taken or
\* superseded, so a retained completed job never hides a QUEUED row from the
\* reconciliation pass.
THEOREM CompletedJobsHideNothing == Spec => []QueuedIsNotDone
<1>1. IInv => QueuedIsNotDone
  <2> SUFFICES ASSUME IInv, NEW c \in Queued
               PROVE  jobs[<<c, rows[c].gen>>].state # "completed"
    BY DEF QueuedIsNotDone
  <2>1. c \in Checks /\ rows[c].status = "QUEUED" /\ <<c, rows[c].gen>> \in JobIds
        /\ rows[c].gen \in Nat
    BY TypeFacts DEF Queued, IInv, TypeInv, TypeOK, Rows, JobIds
  <2> QED BY <2>1 DEF IInv, DoneIsTaken, Taken
<1> QED BY <1>1, IInvAlways, PTL

\* The steps that write url_checks rows.
RowWriter(w) == \/ Claim(w) /\ MayClaim(w)
                \/ PersistInterimResult(w) /\ OwnsRow(w)
                \/ Commit(w)

\* Only these write a row or cancel.
LEMMA RowWriters ==
  ASSUME [Next]_vars
  PROVE  \/ UNCHANGED rows /\ (batch' = "CANCELLED" <=> batch = "CANCELLED")
         \/ CancelBatch \/ RetryFailedUrls
         \/ \E c \in Checks : LeaseExpires(c)
         \/ \E w \in Workers : RowWriter(w)
<1>1. ASSUME NEW w \in Workers, Proceed(w)
      PROVE  \/ UNCHANGED rows /\ (batch' = "CANCELLED" <=> batch = "CANCELLED")
             \/ RowWriter(w)
  BY <1>1 DEF Proceed, RowWriter, Claim, MarkBatchRunning, HealthCheck,
              PersistInterimResult, Finalize, PublishUpdate, Release, Acknowledge
<1>2. ASSUME NEW w \in Workers, InfrastructureError(w) \/ Crash(w)
      PROVE  UNCHANGED <<rows, batch>>
  BY <1>2 DEF InfrastructureError, Crash
<1>3. ASSUME NEW j \in JobIds,
             \/ \E w \in Workers : Deliver(w, j)
             \/ StallAbandoned(j) \/ StallRunning(j) \/ Evict(j)
      PROVE  UNCHANGED <<rows, batch>>
  BY <1>3 DEF Deliver, StallAbandoned, StallRunning, Stall, Evict
<1>4. ASSUME NEW a \in adds, AddJob(a) \/ AddFails(a)
      PROVE  UNCHANGED <<rows, batch>>
  BY <1>4 DEF AddJob, AddFails
<1>5. ASSUME NEW c \in Checks, ReconcileSelects(c)
      PROVE  UNCHANGED <<rows, batch>>
  BY <1>5 DEF ReconcileSelects
<1>6. CASE CreateReturns \/ CreateDies
  BY <1>6 DEF CreateReturns, CreateDies
<1>7. CASE UNCHANGED vars
  BY <1>7 DEF vars
<1> QED BY <1>1, <1>2, <1>3, <1>4, <1>5, <1>6, <1>7 DEF Next

\* What a row writer does to the row of its check, which is never finished.
LEMMA RowWritten ==
  ASSUME IInv, NEW w \in Workers, RowWriter(w)
  PROVE  LET c == execs[w].check IN
         /\ c \in Checks /\ rows[c].status \in {"QUEUED", "PROCESSING"}
         /\ \A d \in Checks : d # c => rows'[d] = rows[d]
         /\ rows' \in [Checks -> Rows] => rows'[c].gen = rows[c].gen
         /\ batch' = "CANCELLED" <=> batch = "CANCELLED"
         /\ \/ /\ rows'[c].status = "PROCESSING"
               /\ rows'[c].attempt = execs[w].attempt
               /\ execs[w].attempt \in 1..MaxAttempts
               /\ \/ rows[c].status = "QUEUED" /\ rows[c].attempt < execs[w].attempt
                  \/ rows[c].status = "PROCESSING" /\ rows[c].attempt <= execs[w].attempt
            \/ /\ rows'[c].status = rows[c].status
               /\ rows'[c].attempt = rows[c].attempt
            \/ /\ rows[c].status = "PROCESSING"
               /\ rows'[c].status \in {"SUCCESS", "FAILED"}
               /\ rows'[c].attempt = rows[c].attempt
<1> DEFINE c == execs[w].check
<1>1. /\ rows \in [Checks -> Rows] /\ execs[w].pc # "idle" /\ execs[w] \in Execs
      /\ c \in Checks /\ execs[w].attempt \in 1..MaxAttempts
      /\ rows[c].attempt \in Nat
  BY TypeFacts DEF IInv, RowWriter, Claim, PersistInterimResult, Commit
<1>2. CASE Claim(w) /\ MayClaim(w)
  <2>1. /\ rows' = [rows EXCEPT ![c].status = "PROCESSING", ![c].attempt = execs[w].attempt,
                                ![c].token = w, ![c].lease = "live"]
        /\ UNCHANGED batch
    BY <1>2 DEF Claim
  <2>2. /\ rows'[c].status = "PROCESSING" /\ rows'[c].attempt = execs[w].attempt
        /\ rows'[c].gen = rows[c].gen
        /\ \A d \in Checks : d # c => rows'[d] = rows[d]
    BY <1>1, <2>1 DEF Rows
  <2>3. \/ rows[c].status = "QUEUED" /\ rows[c].attempt < execs[w].attempt
        \/ rows[c].status = "PROCESSING" /\ rows[c].attempt <= execs[w].attempt
    BY <1>1, <1>2 DEF MayClaim, Row
  <2> QED BY <1>1, <2>1, <2>2, <2>3
<1>3. CASE PersistInterimResult(w) /\ OwnsRow(w)
  BY <1>1, <1>3 DEF PersistInterimResult, OwnsRow, Row, Rows
<1>4. CASE Commit(w)
  <2>1. rows[c].token = w /\ rows[c].status = "PROCESSING"
    BY <1>1, <1>4 DEF Commit, IInv, TokensInForce, RowsShaped
  <2>2. batch' = "CANCELLED" <=> batch = "CANCELLED"
    BY <1>1, <1>4 DEF Commit, BatchAfter, BatchTerminal, Execs
  <2>3. /\ rows'[c] = FinalRow(w)
        /\ \A d \in Checks : d # c => rows'[d] = rows[d]
    BY <1>1, <1>4 DEF Commit
  <2>4. /\ FinalRow(w).status \in {"SUCCESS", "FAILED"}
        /\ FinalRow(w).gen = rows[c].gen /\ FinalRow(w).attempt = rows[c].attempt
    BY DEF FinalRow, FinalStatus, Row
  <2> QED BY <1>1, <2>1, <2>2, <2>3, <2>4
<1> QED BY <1>2, <1>3, <1>4 DEF RowWriter

\* The row of every check is written only by the delivery that holds it; a
\* finished row only by retryFailedUrls.
THEOREM FinishedRowsAreFrozen == Spec => FinishedRowsStay
<1>1. ASSUME IInv, [Next]_vars, NEW c \in Checks, Settled(rows[c].status)
      PROVE  \/ rows'[c] = rows[c]
             \/ /\ rows[c].status = "FAILED" /\ rows'[c].status = "QUEUED"
                /\ rows'[c].gen = rows[c].gen + 1
                /\ rows'[c].result = NoResult
  <2>1. /\ rows \in [Checks -> Rows] /\ rows[c] \in Rows
        /\ rows[c].status \notin {"QUEUED", "PROCESSING"}
    BY <1>1, TypeFacts DEF IInv, Settled
  <2>2. CASE CancelBatch
    BY <1>1, <2>1, <2>2 DEF CancelBatch, Queued
  <2>3. CASE RetryFailedUrls
    BY <1>1, <2>1, <2>3 DEF RetryFailedUrls, Failed, ResetRow, Rows
  <2>4. ASSUME NEW d \in Checks, LeaseExpires(d)
        PROVE  rows'[c] = rows[c]
    BY <1>1, <2>1, <2>4 DEF LeaseExpires, IInv, RowsShaped
  <2>5. ASSUME NEW w \in Workers, RowWriter(w)
        PROVE  rows'[c] = rows[c]
    BY <1>1, <2>1, <2>5, RowWritten
  <2> QED BY <1>1, <2>2, <2>3, <2>4, <2>5, RowWriters
<1>2. IInv /\ [Next]_vars =>
        [\A c \in Checks : Settled(rows[c].status) =>
           \/ rows'[c] = rows[c]
           \/ /\ rows[c].status = "FAILED" /\ rows'[c].status = "QUEUED"
              /\ rows'[c].gen = rows[c].gen + 1
              /\ rows'[c].result = NoResult]_rows
  BY <1>1
<1> QED BY <1>2, IInvAlways, PTL DEF Spec, FinishedRowsStay

\* Cancelling is final: a finalizer, a late createBatch and markBatchRunning
\* keep CANCELLED, and retryFailedUrls refuses it.
THEOREM CancelIsFinal == Spec => CancelledIsFinal
<1>1. IInv /\ [Next]_vars => [batch = "CANCELLED" => batch' = "CANCELLED"]_batch
  <2> SUFFICES ASSUME IInv, [Next]_vars, batch = "CANCELLED"
               PROVE  batch' = "CANCELLED"
    OBVIOUS
  <2>1. CASE CancelBatch
    BY <2>1 DEF CancelBatch
  <2>2. ~RetryFailedUrls
    BY DEF RetryFailedUrls, MayRetry
  <2>3. ASSUME NEW c \in Checks, LeaseExpires(c)
        PROVE  batch' = "CANCELLED"
    BY <2>3 DEF LeaseExpires
  <2>4. ASSUME NEW w \in Workers, RowWriter(w)
        PROVE  batch' = "CANCELLED"
    BY <2>4, RowWritten
  <2> QED BY <2>1, <2>2, <2>3, <2>4, RowWriters
<1> QED BY <1>1, IInvAlways, PTL DEF Spec, CancelledIsFinal

-----------------------------------------------------------------------------
(* UrlCheckExecution implements CheckLifecycle *)

\* A new batch is a new batch of CheckLifecycle.
LEMMA LifecycleInit == Init => Lifecycle!Init
BY DEF Init, Lifecycle!Init

\* Every step is a step of CheckLifecycle or leaves its variables alone.
LEMMA LifecycleStep ==
  ASSUME IInv, TypeInv', [Next]_vars
  PROVE  [Lifecycle!Next]_Lifecycle!vars
<1> USE DEF Lifecycle!Next, Lifecycle!vars
<1> DEFINE status == [c \in Checks |-> rows[c].status]
           generation == [c \in Checks |-> rows[c].gen]
           attempt == [c \in Checks |-> rows[c].attempt]
           cancelled == batch = "CANCELLED"
<1>1. rows \in [Checks -> Rows] /\ rows' \in [Checks -> Rows]
  BY DEF IInv, TypeInv, TypeOK
<1>2. CASE UNCHANGED rows /\ (batch' = "CANCELLED" <=> batch = "CANCELLED")
  BY <1>2
<1>3. CASE CancelBatch
  BY <1>1, <1>3 DEF CancelBatch, Queued, Lifecycle!Cancel, Rows
<1>4. CASE RetryFailedUrls
  BY <1>1, <1>4, ZenonT(40) DEF RetryFailedUrls, MayRetry, Failed, ResetRow, Lifecycle!RetryFailed, Rows
<1>5. ASSUME NEW d \in Checks, LeaseExpires(d)
      PROVE  UNCHANGED Lifecycle!vars
  BY <1>1, <1>5 DEF LeaseExpires, Rows
<1>6. ASSUME NEW w \in Workers, RowWriter(w)
      PROVE  [Lifecycle!Next]_Lifecycle!vars
  <2> DEFINE c == execs[w].check
  <2>1. /\ c \in Checks
        /\ \A d \in Checks : d # c => rows'[d] = rows[d]
        /\ rows'[c].gen = rows[c].gen
        /\ batch' = "CANCELLED" <=> batch = "CANCELLED"
    BY <1>1, <1>6, RowWritten
  <2>2. UNCHANGED generation /\ UNCHANGED cancelled
    BY <2>1
  <2>3. CASE /\ rows'[c].status = "PROCESSING"
             /\ rows'[c].attempt = execs[w].attempt
             /\ execs[w].attempt \in 1..MaxAttempts
             /\ \/ rows[c].status = "QUEUED" /\ rows[c].attempt < execs[w].attempt
                \/ rows[c].status = "PROCESSING" /\ rows[c].attempt <= execs[w].attempt
    <3>1. PICK d \in Checks : d = c
      BY <2>1
    <3>2. PICK a \in 1..MaxAttempts : a = execs[w].attempt
      BY <2>3
    <3>3. Lifecycle!Start(d, a)
      BY <1>1, <2>1, <2>2, <2>3, <3>1, <3>2, ZenonT(40) DEF Lifecycle!Start
    <3> QED BY <3>3
  <2>4. CASE rows'[c].status = rows[c].status /\ rows'[c].attempt = rows[c].attempt
    BY <2>1, <2>4
  <2>5. CASE /\ rows[c].status = "PROCESSING"
             /\ rows'[c].status \in {"SUCCESS", "FAILED"}
             /\ rows'[c].attempt = rows[c].attempt
    <3>1. PICK d \in Checks : d = c
      BY <2>1
    <3>2. PICK verdict \in {"SUCCESS", "FAILED"} : verdict = rows'[c].status
      BY <2>5
    <3>3. Lifecycle!Finish(d, verdict)
      BY <1>1, <2>1, <2>2, <2>5, <3>1, <3>2 DEF Lifecycle!Finish
    <3> QED BY <3>3
  <2> QED BY <1>6, <2>3, <2>4, <2>5, RowWritten
<1> QED BY <1>2, <1>3, <1>4, <1>5, <1>6, RowWriters

\* Claims, interim writes, commits, cancellation and retries together take
\* the checks through the documented lifecycle and nothing else.
THEOREM Implementation == Spec => ImplementsLifecycle
<1>1. IInv /\ IInv' /\ [Next]_vars => [Lifecycle!Next]_Lifecycle!vars
  BY LifecycleStep DEF IInv
<1> QED BY <1>1, LifecycleInit, IInvAlways, PTL DEF Spec, ImplementsLifecycle, Lifecycle!Spec

-----------------------------------------------------------------------------
(* One request at a time *)

\* While the queue takes no job from a living worker, a busy worker owns the
\* lock of its job ...
JobIsOwned ==
  \A w \in Workers : Busy(w) =>
    jobs[JobOf(w)].state = "active" /\ jobs[JobOf(w)].owner = w

\* ... and between its claim and its last write it owns the row.
Holds(w) ==
  \/ execs[w].pc \in {"mark", "request", "store", "commit", "exhaust"}
  \/ execs[w].pc = "release" /\ execs[w].outcome \in Transient

ClaimIsHeld == \A w \in Workers : Holds(w) => OwnsRow(w)

OwnInv == IInv /\ (faults["stall"] = 0 => JobIsOwned /\ ClaimIsHeld)

\* A step of a worker that leaves it with the delivery it has.
Moves(w) ==
  \/ Claim(w) \/ MarkBatchRunning(w) \/ HealthCheck(w)
  \/ PersistInterimResult(w) \/ Finalize(w) \/ Commit(w) \/ PublishUpdate(w)
  \/ Release(w) \/ InfrastructureError(w)

\* A step of a worker within its delivery changes no job and nobody else's delivery.
LEMMA MoveParts ==
  ASSUME IInv, NEW w \in Workers, Moves(w)
  PROVE  /\ Busy(w) /\ UNCHANGED jobs
         /\ \A v \in Workers : v # w => execs'[v] = execs[v]
         /\ execs'[w].check = execs[w].check /\ execs'[w].gen = execs[w].gen
         /\ execs'[w].attempt = execs[w].attempt
         /\ execs'[w].pc # "idle"
<1>1. Busy(w) /\ UNCHANGED jobs
  BY DEF Moves, Busy, Claim, MarkBatchRunning, HealthCheck, PersistInterimResult,
         Finalize, Commit, PublishUpdate, Release, InfrastructureError, Steps
<1>2. execs \in [Workers -> Execs \cup {Idle}] /\ execs[w] \in Execs
  BY <1>1, TypeFacts DEF IInv, Busy
<1>3. ASSUME NEW pc, pc # "idle", Goto(w, pc)
      PROVE  /\ \A v \in Workers : v # w => execs'[v] = execs[v]
             /\ execs'[w].check = execs[w].check /\ execs'[w].gen = execs[w].gen
             /\ execs'[w].attempt = execs[w].attempt /\ execs'[w].pc # "idle"
  BY <1>2, <1>3 DEF Goto, Execs
<1>4. CASE Claim(w)
  BY <1>1, <1>3, <1>4 DEF Claim
<1>5. CASE MarkBatchRunning(w)
  BY <1>1, <1>3, <1>5 DEF MarkBatchRunning
<1>6. CASE HealthCheck(w)
  BY <1>1, <1>2, <1>6 DEF HealthCheck, Execs
<1>7. CASE PersistInterimResult(w)
  BY <1>1, <1>3, <1>7 DEF PersistInterimResult
<1>8. CASE Finalize(w)
  <2>1. CASE OwnsRow(w)
    BY <1>1, <1>2, <1>8, <2>1 DEF Finalize, Execs
  <2>2. CASE ~OwnsRow(w)
    BY <1>1, <1>3, <1>8, <2>2 DEF Finalize
  <2> QED BY <2>1, <2>2
<1>9. CASE Commit(w)
  BY <1>1, <1>3, <1>9 DEF Commit
<1>10. CASE PublishUpdate(w)
  BY <1>1, <1>3, <1>10 DEF PublishUpdate
<1>11. CASE Release(w)
  BY <1>1, <1>3, <1>11 DEF Release, AfterRelease
<1>12. CASE InfrastructureError(w)
  BY <1>1, <1>3, <1>12 DEF InfrastructureError, AfterThrow
<1> QED BY <1>4, <1>5, <1>6, <1>7, <1>8, <1>9, <1>10, <1>11, <1>12 DEF Moves

\* What a step may do to a worker: nothing, end its delivery, give it one, or
\* move it on.
LEMMA ExecsMove ==
  ASSUME IInv, [Next]_vars, NEW w \in Workers
  PROVE  \/ execs'[w] = execs[w] /\ ~Acknowledge(w)
         \/ execs'[w] = Idle
         \/ \E j \in JobIds : Deliver(w, j)
         \/ Moves(w)
<1>1. execs \in [Workers -> Execs \cup {Idle}]
  BY TypeFacts DEF IInv
<1>2. CASE UNCHANGED execs
  BY <1>1, <1>2 DEF Acknowledge
<1>3. ASSUME NEW v \in Workers, Moves(v)
      PROVE  execs'[w] = execs[w] \/ Moves(w)
  BY <1>3, MoveParts
<1>4. ASSUME NEW v \in Workers, Acknowledge(v) \/ Crash(v)
      PROVE  execs'[w] = execs[w] \/ execs'[w] = Idle
  BY <1>1, <1>4 DEF Acknowledge, Crash
<1>5. ASSUME NEW v \in Workers, NEW j \in JobIds, Deliver(v, j)
      PROVE  execs'[w] = execs[w] \/ Deliver(w, j)
  BY <1>1, <1>5 DEF Deliver
<1>6. Acknowledge(w) => execs'[w] = Idle
  BY <1>1 DEF Acknowledge
<1>7. \/ UNCHANGED execs
      \/ \E v \in Workers : Moves(v) \/ Acknowledge(v) \/ Crash(v)
      \/ \E v \in Workers : \E j \in JobIds : Deliver(v, j)
  BY DEF Next, Proceed, Moves, vars, CreateReturns, CreateDies, CancelBatch,
         RetryFailedUrls, AddJob, AddFails, ReconcileSelects, LeaseExpires,
         StallAbandoned, StallRunning, Stall, Evict
<1> QED BY <1>2, <1>3, <1>4, <1>5, <1>6, <1>7

\* The job of a worker that stays busy is left alone.
LEMMA JobKept ==
  ASSUME IInv, JobIsOwned, [Next]_vars, NEW w \in Workers, Busy(w), Busy(w)',
         \A j \in JobIds : ~StallRunning(j)
  PROVE  jobs'[JobOf(w)] = jobs[JobOf(w)]
<1>1. /\ jobs \in [JobIds -> Jobs] /\ execs \in [Workers -> Execs \cup {Idle}]
      /\ JobOf(w) \in JobIds
      /\ jobs[JobOf(w)].state = "active" /\ jobs[JobOf(w)].owner = w
  BY TypeFacts DEF IInv, Busy, JobIsOwned
<1>2. ASSUME NEW a \in adds, AddJob(a) PROVE jobs'[JobOf(w)] = jobs[JobOf(w)]
  BY <1>1, <1>2 DEF AddJob, AddedJob
<1>3. ASSUME NEW v \in Workers, NEW j \in JobIds, Deliver(v, j)
      PROVE  jobs'[JobOf(w)] = jobs[JobOf(w)]
  BY <1>1, <1>3 DEF Deliver
<1>4. ASSUME NEW j \in JobIds, StallAbandoned(j)
      PROVE  jobs'[JobOf(w)] = jobs[JobOf(w)]
  <2>1. j # JobOf(w)
    BY <1>1, <1>4 DEF StallAbandoned, Abandoned
  <2> QED BY <1>1, <1>4, <2>1 DEF StallAbandoned, Stall
<1>5. ASSUME NEW j \in JobIds, Evict(j)
      PROVE  jobs'[JobOf(w)] = jobs[JobOf(w)]
  BY <1>1, <1>5 DEF Evict
<1>6. ASSUME NEW v \in Workers, Acknowledge(v)
      PROVE  jobs'[JobOf(w)] = jobs[JobOf(w)]
  <2>1. v # w
    BY <1>1, <1>6 DEF Acknowledge, Busy, Idle
  <2>2. JobOf(v) # JobOf(w)
    BY <1>1, <1>6, <2>1 DEF Acknowledge, Returns, Busy, JobIsOwned
  <2> QED BY <1>1, <1>6, <2>2 DEF Acknowledge
<1>7. ASSUME NEW v \in Workers, Moves(v) \/ Crash(v)
      PROVE  jobs'[JobOf(w)] = jobs[JobOf(w)]
  BY <1>7, MoveParts DEF Crash
<1>8. \/ UNCHANGED jobs
      \/ \E a \in adds : AddJob(a)
      \/ \E v \in Workers : Moves(v) \/ Acknowledge(v) \/ Crash(v)
      \/ \E j \in JobIds : StallAbandoned(j) \/ Evict(j) \/ \E v \in Workers : Deliver(v, j)
  BY DEF Next, Proceed, Moves, vars, CreateReturns, CreateDies, CancelBatch,
         RetryFailedUrls, AddFails, ReconcileSelects, LeaseExpires
<1> QED BY <1>2, <1>3, <1>4, <1>5, <1>6, <1>7, <1>8

\* The row of a worker that holds its claim is taken from it by nobody.
LEMMA RowKept ==
  ASSUME IInv, JobIsOwned, ClaimIsHeld, [Next]_vars,
         NEW w \in Workers, Holds(w), ~Commit(w)
  PROVE  LET c == execs[w].check IN
         /\ rows'[c].status = "PROCESSING" /\ rows'[c].gen = execs[w].gen
         /\ rows'[c].token = w /\ rows'[c].attempt = rows[c].attempt
<1> DEFINE c == execs[w].check
<1>1. /\ rows \in [Checks -> Rows] /\ Busy(w) /\ c \in Checks
      /\ rows[c].status = "PROCESSING" /\ rows[c].gen = execs[w].gen
      /\ rows[c].token = w
  BY TypeFacts DEF IInv, Holds, Busy, ClaimIsHeld, OwnsRow, Row
<1>2. CASE UNCHANGED rows
  BY <1>1, <1>2
<1>3. CASE CancelBatch
  BY <1>1, <1>3 DEF CancelBatch, Queued
<1>4. CASE RetryFailedUrls
  BY <1>1, <1>4 DEF RetryFailedUrls, Failed
<1>5. ASSUME NEW d \in Checks, LeaseExpires(d)
      PROVE  /\ rows'[c].status = rows[c].status /\ rows'[c].gen = rows[c].gen
             /\ rows'[c].token = rows[c].token /\ rows'[c].attempt = rows[c].attempt
  BY <1>1, <1>5 DEF LeaseExpires, Rows
<1>6. ASSUME NEW v \in Workers, RowWriter(v)
      PROVE  /\ rows'[c].status = rows[c].status /\ rows'[c].gen = rows[c].gen
             /\ rows'[c].token = rows[c].token /\ rows'[c].attempt = rows[c].attempt
  <2>1. CASE execs[v].check # c
    BY <1>1, <1>6, <2>1, RowWritten
  <2>2. CASE execs[v].check = c
    <3>1. ASSUME Claim(v), MayClaim(v) PROVE FALSE
      <4>1. v # w /\ Busy(v)
        BY <3>1 DEF Claim, Holds, Busy
      <4>2. JobOf(v) = JobOf(w)
        BY <1>1, <2>2, <3>1 DEF MayClaim, Row, JobOf
      <4> QED BY <1>1, <4>1, <4>2 DEF JobIsOwned
    <3>2. ~Commit(v)
      BY <1>1, <2>2 DEF Commit, IInv, TokensInForce
    <3>3. PersistInterimResult(v) /\ OwnsRow(v)
      BY <1>6, <3>1, <3>2 DEF RowWriter
    <3> QED BY <1>1, <2>2, <3>3 DEF PersistInterimResult, Rows
  <2> QED BY <2>1, <2>2
<1> QED BY <1>1, <1>2, <1>3, <1>4, <1>5, <1>6, RowWriters

\* A worker comes to hold a row by a claim, and lets go of it by its commit.
LEMMA HoldsSince ==
  ASSUME IInv, NEW w \in Workers, Moves(w), Holds(w)'
  PROVE  (Claim(w) /\ MayClaim(w)) \/ (Holds(w) /\ ~Commit(w))
<1>1. execs \in [Workers -> Execs \cup {Idle}] /\ execs[w] \in Execs
  BY MoveParts, TypeFacts DEF IInv, Busy
<1>2. ASSUME NEW pc, Goto(w, pc)
      PROVE  execs'[w].pc = pc /\ execs'[w].outcome = execs[w].outcome
  BY <1>1, <1>2 DEF Goto, Execs
<1> USE DEF Holds
<1>3. CASE Claim(w)
  BY <1>2, <1>3 DEF Claim
<1>4. CASE MarkBatchRunning(w)
  BY <1>4 DEF MarkBatchRunning, Commit
<1>5. CASE HealthCheck(w)
  BY <1>5 DEF HealthCheck, Commit
<1>6. CASE PersistInterimResult(w)
  BY <1>6 DEF PersistInterimResult, Commit
<1>7. CASE Finalize(w)
  BY <1>7 DEF Finalize, Commit
<1>8. CASE Commit(w)
  BY <1>2, <1>8 DEF Commit
<1>9. CASE PublishUpdate(w)
  BY <1>2, <1>9 DEF PublishUpdate
<1>10. CASE Release(w)
  BY <1>2, <1>10 DEF Release, AfterRelease, Commit
<1>11. CASE InfrastructureError(w)
  BY <1>2, <1>11 DEF InfrastructureError, AfterThrow
<1> QED BY <1>3, <1>4, <1>5, <1>6, <1>7, <1>8, <1>9, <1>10, <1>11 DEF Moves

\* A budget of faults is only spent.
LEMMA FaultsGrow ==
  ASSUME TypeInv, [Next]_vars, NEW kind \in FaultKinds
  PROVE  faults[kind] <= faults'[kind] /\ faults[kind] \in Nat /\ faults'[kind] \in Nat
<1>1. faults \in [FaultKinds -> Nat]
  BY DEF TypeInv, TypeOK
<1>2. ASSUME NEW k \in FaultKinds, Fault(k)
      PROVE  faults[kind] <= faults'[kind] /\ faults'[kind] \in Nat
  BY <1>1, <1>2 DEF Fault
<1>3. UNCHANGED faults \/ \E k \in FaultKinds : Fault(k)
  BY DEF Next, Proceed, vars, FaultKinds, CreateReturns, CreateDies, CancelBatch,
         RetryFailedUrls, AddJob, AddFails, ReconcileSelects, LeaseExpires, Deliver,
         StallAbandoned, StallRunning, Evict, Claim, MarkBatchRunning, HealthCheck,
         PersistInterimResult, Finalize, Commit, PublishUpdate, Release, Acknowledge,
         InfrastructureError, Crash
<1> QED BY <1>1, <1>2, <1>3

\* A living worker loses no job without a fault.
LEMMA NoStallRunning ==
  ASSUME TypeInv, NEW j \in JobIds, StallRunning(j)
  PROVE  faults'["stall"] # 0
<1>1. faults \in [FaultKinds -> Nat] /\ "stall" \in FaultKinds
  BY DEF TypeInv, TypeOK, FaultKinds
<1>2. faults'["stall"] = faults["stall"] + 1 /\ faults["stall"] \in Nat
  BY <1>1 DEF StallRunning, Fault
<1> QED BY <1>2

\* Every step keeps jobs and rows with the workers that took them.
LEMMA NextOwnInv == OwnInv /\ [Next]_vars => OwnInv'
<1> SUFFICES ASSUME OwnInv, [Next]_vars PROVE OwnInv'
  OBVIOUS
<1>1. IInv /\ IInv'
  BY NextIInv DEF OwnInv
<1> SUFFICES ASSUME faults'["stall"] = 0 PROVE (JobIsOwned /\ ClaimIsHeld)'
  BY <1>1 DEF OwnInv
<1>2. JobIsOwned /\ ClaimIsHeld
  BY <1>1, FaultsGrow DEF OwnInv, IInv, FaultKinds
<1>3. \A j \in JobIds : ~StallRunning(j)
  BY <1>1, NoStallRunning DEF IInv
<1>4. /\ jobs \in [JobIds -> Jobs] /\ rows \in [Checks -> Rows]
      /\ execs \in [Workers -> Execs \cup {Idle}]
  BY <1>1, TypeFacts DEF IInv
<1>5. ASSUME NEW w \in Workers, Busy(w)'
      PROVE  (jobs[JobOf(w)].state = "active" /\ jobs[JobOf(w)].owner = w)'
  <2>1. CASE Busy(w) /\ (execs'[w] = execs[w] \/ Moves(w))
    <3>1. jobs'[JobOf(w)] = jobs[JobOf(w)]
      BY <1>1, <1>2, <1>3, <1>5, <2>1, JobKept
    <3>2. JobOf(w)' = JobOf(w)
      BY <1>1, <2>1, MoveParts DEF JobOf
    <3> QED BY <1>2, <2>1, <3>1, <3>2 DEF JobIsOwned
  <2>2. ASSUME NEW j \in JobIds, Deliver(w, j)
        PROVE  (jobs[JobOf(w)].state = "active" /\ jobs[JobOf(w)].owner = w)'
    <3>1. JobOf(w)' = j
      BY <1>4, <2>2 DEF Deliver, JobOf, JobIds
    <3> QED BY <1>4, <2>2, <3>1 DEF Deliver, Jobs
  <2> QED BY <1>1, <1>5, <2>1, <2>2, ExecsMove, MoveParts DEF Busy, Idle
<1>6. ASSUME NEW w \in Workers, Holds(w)' PROVE OwnsRow(w)'
  <2>1. CASE Holds(w) /\ ~Commit(w) /\ execs'[w].check = execs[w].check
             /\ execs'[w].gen = execs[w].gen
    BY <1>1, <1>2, <2>1, RowKept DEF OwnsRow, Row
  <2>2. CASE Claim(w) /\ MayClaim(w)
    <3> DEFINE c == execs[w].check
    <3>1. execs'[w].check = c /\ execs'[w].gen = execs[w].gen
      BY <1>1, <2>2, MoveParts DEF Moves
    <3>2. c \in Checks /\ rows[c].gen = execs[w].gen
      BY <1>1, <1>4, <2>2, TypeFacts DEF Claim, MayClaim, Row, Busy, IInv
    <3>3. rows' = [rows EXCEPT ![c].status = "PROCESSING",
                               ![c].attempt = execs[w].attempt,
                               ![c].token = w, ![c].lease = "live"]
      BY <2>2 DEF Claim
    <3>4. rows[c] \in Rows
      BY <1>4, <3>2
    <3> HIDE DEF c
    <3>5. rows'[c].status = "PROCESSING" /\ rows'[c].token = w
          /\ rows'[c].gen = execs[w].gen
      BY <1>4, <3>2, <3>3, <3>4 DEF Rows
    <3> QED BY <3>1, <3>5 DEF OwnsRow, Row
  <2>3. CASE execs'[w] = execs[w]
    <3>1. ~Commit(w)
      BY <1>4, <2>3 DEF Commit, Goto, Execs, Idle
    <3> QED BY <1>6, <2>1, <2>3, <3>1 DEF Holds
  <2>4. ~(execs'[w] = Idle) /\ \A j \in JobIds : ~Deliver(w, j)
    BY <1>4, <1>6 DEF Deliver, Holds, Idle
  <2>5. CASE Moves(w)
    BY <1>1, <1>6, <2>1, <2>2, <2>5, HoldsSince, MoveParts
  <2> QED BY <1>1, <2>3, <2>4, <2>5, ExecsMove
<1> QED BY <1>5, <1>6 DEF JobIsOwned, ClaimIsHeld

\* Nothing is delivered at first.
LEMMA InitOwnInv == Init => OwnInv
BY InitIInv DEF Init, OwnInv, JobIsOwned, ClaimIsHeld, Busy, Holds, Idle

\* Unless the queue takes a job from a living worker, no check is requested twice
\* at once, for any number of workers and whatever else fails: job ids deduplicate
\* enqueue calls, and a claim passes from worker to worker only with its job.
THEOREM OneRequestAtATime == Spec => []NoDuplicateRequest
<1>1. OwnInv => NoDuplicateRequest
  BY DEF OwnInv, ClaimIsHeld, Holds, OwnsRow, Row, NoDuplicateRequest
<1> QED BY <1>1, InitOwnInv, NextOwnInv, PTL DEF Spec

-----------------------------------------------------------------------------
(* Calm runs: unfinished checks keep the job that finishes them *)

\* No error of Postgres or Redis, no job taken from a living worker, and no
\* more crashes than stalls BullMQ forgives.  Outside of it a job can fail
\* without finishing its check.
Calm == /\ faults["error"] = 0 /\ faults["stall"] = 0
        /\ faults["crash"] <= MaxStalls

\* A job stalls once per crash of a worker that held it.
StallsAreCrashes ==
  \A j \in JobIds :
    /\ jobs[j].stalls <= faults["crash"]
    /\ jobs[j].state = "active" /\ Abandoned(j) => jobs[j].stalls < faults["crash"]

NoFail == /\ \A j \in JobIds : jobs[j].state # "failed"
          /\ \A w \in Workers : execs[w].pc # "fail"

\* A delivery runs the attempt its job is at.
AttemptsFollowJobs ==
  \A w \in Workers : Busy(w) => execs[w].attempt = jobs[JobOf(w)].made + 1

\* The job of a check in progress is live, and its next delivery can take the
\* row over: by a higher attempt, or by the same one on an expired lease.
ProcessingHasJob ==
  \A c \in Checks : rows[c].status = "PROCESSING" =>
    LET job == jobs[<<c, rows[c].gen>>] IN
      /\ job.state \in {"waiting", "active"}
      /\ rows[c].attempt <= job.made + 1
      /\ job.state = "waiting" => rows[c].attempt <= job.made \/ rows[c].lease = "expired"
      /\ rows[c].lease \in {"live", "expired"}

InProgress(w) == Row(w).gen = execs[w].gen /\ Row(w).status = "PROCESSING"

\* A delivery that finds its check in progress takes it over ...
ClaimsSucceed ==
  \A w \in Workers : execs[w].pc = "claim" /\ InProgress(w) => MayClaim(w)

\* ... and one that is done has finished it.
Done(w) == \/ execs[w].pc \in {"publish", "complete"}
           \/ execs[w].pc = "release" /\ execs[w].outcome \notin Transient

DoneIsFinished == \A w \in Workers : Done(w) => ~InProgress(w)

AttemptsFit ==
  AttemptsFollowJobs /\ ProcessingHasJob /\ ClaimsSucceed /\ DoneIsFinished

CalmInv ==
  /\ OwnInv
  /\ Calm => StallsAreCrashes /\ NoFail /\ (StallAfterLease => AttemptsFit)

\* What a step may do to a job.
LEMMA JobsMove ==
  ASSUME IInv, [Next]_vars, NEW j \in JobIds
  PROVE  \/ jobs'[j] = jobs[j]
         \/ jobs[j].state = "none" /\ jobs'[j] = NewJob /\ UNCHANGED <<execs, faults>>
         \/ \E w \in Workers : Deliver(w, j)
         \/ StallAbandoned(j) \/ StallRunning(j) \/ Evict(j)
         \/ \E w \in Workers :
              /\ Acknowledge(w) /\ JobOf(w) = j
              /\ jobs[j].state = "active" /\ jobs[j].owner = w
              /\ jobs'[j] = ToldJob(jobs[j], execs[w].pc, execs[w].attempt)
<1>1. jobs \in [JobIds -> Jobs] /\ adds \subseteq {"request", "reconcile"} \X Checks \X Generations
  BY DEF IInv, TypeInv, TypeOK
<1>2. ASSUME NEW a \in adds, AddJob(a)
      PROVE  jobs'[j] = jobs[j] \/ (/\ jobs[j].state = "none" /\ jobs'[j] = NewJob
                                    /\ UNCHANGED <<execs, faults>>)
  BY <1>1, <1>2 DEF AddJob, AddedJob
<1>3. ASSUME NEW i \in JobIds, i # j,
             \/ \E w \in Workers : Deliver(w, i)
             \/ StallAbandoned(i) \/ StallRunning(i) \/ Evict(i)
      PROVE  jobs'[j] = jobs[j]
  BY <1>1, <1>3 DEF Deliver, StallAbandoned, StallRunning, Stall, Evict
<1>4. ASSUME NEW w \in Workers, Acknowledge(w)
      PROVE  \/ jobs'[j] = jobs[j]
             \/ /\ JobOf(w) = j /\ jobs[j].state = "active" /\ jobs[j].owner = w
                /\ jobs'[j] = ToldJob(jobs[j], execs[w].pc, execs[w].attempt)
  <2>1. jobs' = jobs \/ /\ jobs[JobOf(w)].state = "active" /\ jobs[JobOf(w)].owner = w
                        /\ jobs' = [jobs EXCEPT ![JobOf(w)] =
                             ToldJob(jobs[JobOf(w)], execs[w].pc, execs[w].attempt)]
    BY <1>4 DEF Acknowledge
  <2> QED BY <1>1, <2>1
<1>5. ASSUME NEW w \in Workers, Moves(w) \/ Crash(w)
      PROVE  jobs'[j] = jobs[j]
  BY <1>5, MoveParts DEF Crash
<1>6. \/ UNCHANGED jobs
      \/ \E a \in adds : AddJob(a)
      \/ \E w \in Workers : Moves(w) \/ Acknowledge(w) \/ Crash(w)
      \/ \E i \in JobIds : \/ \E w \in Workers : Deliver(w, i)
                           \/ StallAbandoned(i) \/ StallRunning(i) \/ Evict(i)
  BY DEF Next, Proceed, Moves, vars, CreateReturns, CreateDies, CancelBatch,
         RetryFailedUrls, AddFails, ReconcileSelects, LeaseExpires
<1> QED BY <1>2, <1>3, <1>4, <1>5, <1>6

\* A check in progress has been claimed in this step, or was in progress.
LEMMA ProcessingRow ==
  ASSUME IInv, [Next]_vars, NEW c \in Checks, rows'[c].status = "PROCESSING"
  PROVE  \/ \E w \in Workers : Claim(w) /\ MayClaim(w) /\ execs[w].check = c
         \/ /\ rows[c].status = "PROCESSING" /\ rows'[c].gen = rows[c].gen
            /\ rows'[c].attempt = rows[c].attempt
            /\ rows'[c].lease \in {rows[c].lease, "expired"}
<1>1. rows \in [Checks -> Rows] /\ rows[c] \in Rows
  BY TypeFacts DEF IInv
<1>2. CASE CancelBatch
  BY <1>1, <1>2 DEF CancelBatch, Queued
<1>3. CASE RetryFailedUrls
  BY <1>1, <1>3 DEF RetryFailedUrls, Failed, ResetRow, Rows
<1>4. ASSUME NEW d \in Checks, LeaseExpires(d)
      PROVE  /\ rows'[c].status = rows[c].status /\ rows'[c].gen = rows[c].gen
             /\ rows'[c].attempt = rows[c].attempt
             /\ rows'[c].lease \in {rows[c].lease, "expired"}
  BY <1>1, <1>4 DEF LeaseExpires, Rows
<1>5. ASSUME NEW w \in Workers, Commit(w)
      PROVE  rows'[c] = rows[c]
  <2>1. execs[w].check # c
    BY <1>1, <1>5 DEF Commit, FinalRow, FinalStatus
  <2> QED BY <1>1, <1>5, <2>1 DEF Commit
<1>6. ASSUME NEW w \in Workers, PersistInterimResult(w)
      PROVE  /\ rows'[c].status = rows[c].status /\ rows'[c].gen = rows[c].gen
             /\ rows'[c].attempt = rows[c].attempt /\ rows'[c].lease = rows[c].lease
  BY <1>1, <1>6 DEF PersistInterimResult, Rows
<1>7. ASSUME NEW w \in Workers, Claim(w), MayClaim(w), execs[w].check # c
      PROVE  rows'[c] = rows[c]
  BY <1>1, <1>7 DEF Claim
<1> QED BY <1>1, <1>2, <1>3, <1>4, <1>5, <1>6, <1>7, RowWriters DEF RowWriter

\* A claim leaves the row with the attempt and the generation it came with.
LEMMA ClaimedRow ==
  ASSUME IInv, NEW w \in Workers, Claim(w), MayClaim(w)
  PROVE  LET c == execs[w].check IN
         /\ c \in Checks /\ rows'[c].gen = execs[w].gen
         /\ rows'[c].attempt = execs[w].attempt /\ rows'[c].lease = "live"
<1> DEFINE c == execs[w].check
<1>1. c \in Checks /\ rows[c].gen = execs[w].gen /\ rows \in [Checks -> Rows]
  BY TypeFacts DEF IInv, Claim, MayClaim, Row
<1>2. rows' = [rows EXCEPT ![c].status = "PROCESSING", ![c].attempt = execs[w].attempt,
                           ![c].token = w, ![c].lease = "live"]
  BY DEF Claim
<1>3. rows[c] \in Rows
  BY <1>1
<1> HIDE DEF c
<1>4. rows'[c].gen = execs[w].gen /\ rows'[c].attempt = execs[w].attempt
      /\ rows'[c].lease = "live"
  BY <1>1, <1>2, <1>3 DEF Rows
<1> QED BY <1>1, <1>4 DEF c

\* A calm state was calm before, and no error or stall of a living worker
\* led to it.
LEMMA CalmBefore ==
  ASSUME TypeInv, [Next]_vars, Calm'
  PROVE  /\ Calm /\ \A w \in Workers : ~InfrastructureError(w)
         /\ \A j \in JobIds : ~StallRunning(j)
<1>1. faults \in [FaultKinds -> Nat]
  BY DEF TypeInv, TypeOK
<1>2. Calm
  BY <1>1, FaultsGrow DEF Calm, FaultKinds
<1>3. ASSUME NEW kind \in FaultKinds, Fault(kind)
      PROVE  faults'[kind] # 0
  BY <1>1, <1>3 DEF Fault
<1> QED BY <1>2, <1>3 DEF Calm, InfrastructureError, StallRunning, FaultKinds

\* A worker that drops a delivery without an answer has crashed.
LEMMA Crashed ==
  ASSUME IInv, [Next]_vars, NEW w \in Workers, Busy(w), execs'[w] = Idle, ~Acknowledge(w)
  PROVE  Crash(w)
<1>1. execs \in [Workers -> Execs \cup {Idle}] /\ execs'[w] # execs[w]
  BY TypeFacts DEF IInv, Busy, Idle
<1>2. ASSUME NEW v \in Workers, Moves(v)
      PROVE  FALSE
  BY <1>1, <1>2, MoveParts DEF Idle
<1>3. ASSUME NEW v \in Workers, Acknowledge(v) \/ Crash(v)
      PROVE  v = w
  BY <1>1, <1>3 DEF Acknowledge, Crash
<1>4. ASSUME NEW v \in Workers, NEW j \in JobIds, Deliver(v, j)
      PROVE  FALSE
  BY <1>1, <1>4 DEF Deliver, Idle
<1>5. \/ UNCHANGED execs
      \/ \E v \in Workers : Moves(v) \/ Acknowledge(v) \/ Crash(v)
      \/ \E v \in Workers : \E j \in JobIds : Deliver(v, j)
  BY DEF Next, Proceed, Moves, vars, CreateReturns, CreateDies, CancelBatch,
         RetryFailedUrls, AddJob, AddFails, ReconcileSelects, LeaseExpires,
         StallAbandoned, StallRunning, Stall, Evict
<1> QED BY <1>1, <1>2, <1>3, <1>4, <1>5

\* A handler asks for its job to fail only after an error.
LEMMA NoFailStep ==
  ASSUME OwnInv, OwnInv', [Next]_vars, Calm', Calm, StallsAreCrashes, NoFail
  PROVE  NoFail'
<1>1. /\ IInv /\ \A w \in Workers : ~InfrastructureError(w)
      /\ \A j \in JobIds : ~StallRunning(j)
  BY CalmBefore DEF OwnInv, IInv
<1>2. jobs \in [JobIds -> Jobs] /\ execs \in [Workers -> Execs \cup {Idle}]
      /\ faults["crash"] \in Nat
  BY <1>1, TypeFacts DEF IInv, TypeInv, TypeOK, FaultKinds
<1>3. ASSUME NEW w \in Workers, Moves(w)
      PROVE  execs'[w].pc # "fail"
  <2>1. execs[w] \in Execs /\ Busy(w)
    BY <1>1, <1>2, <1>3, MoveParts DEF Busy, Idle
  <2>2. ASSUME NEW pc, pc # "fail", Goto(w, pc)
        PROVE  execs'[w].pc # "fail"
    BY <1>2, <2>1, <2>2 DEF Goto, Execs
  <2>3. CASE HealthCheck(w)
    BY <1>2, <2>1, <2>3 DEF HealthCheck, Execs
  <2>4. CASE Finalize(w)
    <3>1. CASE OwnsRow(w)
      BY <1>2, <2>1, <2>4, <3>1 DEF Finalize, Execs
    <3> QED BY <2>2, <2>4, <3>1 DEF Finalize
  <2>5. CASE Release(w)
    <3>1. AfterRelease(w) # "fail" \/ AfterRelease(w) = "fail"
      OBVIOUS
    <3>2. AfterRelease(w) # "fail"
      BY DEF AfterRelease
    <3> QED BY <2>2, <2>5, <3>2 DEF Release
  <2> QED BY <1>1, <1>3, <2>2, <2>3, <2>4, <2>5
          DEF Moves, Claim, MarkBatchRunning, PersistInterimResult, Commit, PublishUpdate
<1>4. ASSUME NEW w \in Workers
      PROVE  execs'[w].pc # "fail"
  <2>1. ASSUME NEW j \in JobIds, Deliver(w, j)
        PROVE  execs'[w].pc # "fail"
    BY <1>2, <2>1 DEF Deliver
  <2> QED BY <1>1, <1>3, <2>1, ExecsMove DEF NoFail, Idle, OwnInv
<1>5. ASSUME NEW j \in JobIds
      PROVE  jobs'[j].state # "failed"
  <2>1. ASSUME StallAbandoned(j)
        PROVE  jobs'[j].state # "failed"
    <3>1. jobs[j].stalls < MaxStalls
      <4>1. jobs[j].stalls < faults["crash"] /\ jobs[j].stalls \in Nat
        BY <1>2, <2>1 DEF StallAbandoned, Stall, StallsAreCrashes, Jobs
      <4>2. faults["crash"] <= MaxStalls
        BY DEF Calm
      <4> QED BY <1>2, <4>1, <4>2
    <3> QED BY <1>2, <2>1, <3>1 DEF StallAbandoned, Stall, StalledJob
  <2>2. ASSUME NEW w \in Workers, execs[w].pc \in Returns,
               jobs'[j] = ToldJob(jobs[j], execs[w].pc, execs[w].attempt)
        PROVE  jobs'[j].state # "failed"
    BY <2>2 DEF ToldJob, Returns, NoFail
  <2>3. CASE \E w \in Workers : Deliver(w, j)
    BY <1>2, <2>3 DEF Deliver, Jobs
  <2>4. CASE Evict(j)
    BY <1>2, <2>4 DEF Evict, NoJob
  <2>5. NewJob.state # "failed"
    BY DEF NewJob, NoJob
  <2> QED BY <1>1, <2>1, <2>2, <2>3, <2>4, <2>5, JobsMove DEF Acknowledge, NoFail
<1> QED BY <1>4, <1>5 DEF NoFail

\* A job is abandoned in the step in which the worker that holds it crashes.
LEMMA StallsStep ==
  ASSUME OwnInv, OwnInv', [Next]_vars, Calm', Calm, StallsAreCrashes
  PROVE  StallsAreCrashes'
<1>1. /\ IInv /\ JobIsOwned /\ \A w \in Workers : ~InfrastructureError(w)
      /\ \A j \in JobIds : ~StallRunning(j)
  BY CalmBefore DEF OwnInv, IInv, Calm
<1>2. /\ jobs \in [JobIds -> Jobs] /\ execs \in [Workers -> Execs \cup {Idle}]
      /\ faults["crash"] \in Nat /\ faults'["crash"] \in Nat
      /\ faults["crash"] <= faults'["crash"]
  BY <1>1, TypeFacts, FaultsGrow DEF IInv, FaultKinds
<1>3. ASSUME NEW j \in JobIds
      PROVE  jobs[j].stalls \in Nat /\ jobs[j].stalls <= faults'["crash"]
  BY <1>2 DEF StallsAreCrashes, Jobs
<1>4. ASSUME NEW j \in JobIds, jobs'[j] = jobs[j], jobs[j].state = "active",
             Abandoned(j)'
      PROVE  jobs[j].stalls < faults'["crash"]
  <2>1. CASE Abandoned(j)
    BY <1>2, <1>3, <1>4, <2>1 DEF StallsAreCrashes
  <2>2. CASE ~Abandoned(j)
    <3> DEFINE w == jobs[j].owner
    <3>1. w \in Workers /\ Busy(w) /\ JobOf(w) = j
      BY <2>2 DEF Abandoned
    <3>2. ~(execs'[w].pc # "idle" /\ <<execs'[w].check, execs'[w].gen>> = j)
      BY <1>4, <3>1 DEF Abandoned, Busy, JobOf
    <3>3. ~Moves(w) /\ execs'[w] # execs[w] /\ \A i \in JobIds : ~Deliver(w, i)
      BY <1>1, <3>1, <3>2, MoveParts DEF Busy, JobOf, Deliver
    <3>4. execs'[w] = Idle
      BY <1>1, <3>1, <3>3, ExecsMove
    <3>5. ~Acknowledge(w)
      <4>1. jobs[j].owner = w
        OBVIOUS
      <4>2. SUFFICES ASSUME Acknowledge(w) PROVE FALSE
        OBVIOUS
      <4>3. jobs'[j] = ToldJob(jobs[j], execs[w].pc, execs[w].attempt)
        BY <1>2, <1>4, <3>1, <4>2 DEF Acknowledge
      <4>4. ToldJob(jobs[j], execs[w].pc, execs[w].attempt).state # "active"
        BY DEF ToldJob
      <4> QED BY <1>4, <4>3, <4>4
    <3>6. Crash(w)
      BY <1>1, <1>2, <3>1, <3>2, <3>3, <3>4, <3>5, Crashed
    <3>7. faults'["crash"] = faults["crash"] + 1
      BY <1>1, <3>6 DEF Crash, Fault, FaultKinds, IInv, TypeInv, TypeOK
    <3> QED BY <1>2, <1>3, <3>7 DEF StallsAreCrashes
  <2> QED BY <2>1, <2>2
<1>5. ASSUME NEW j \in JobIds
      PROVE  /\ jobs'[j].stalls <= faults'["crash"]
             /\ jobs'[j].state = "active" /\ Abandoned(j)' =>
                  jobs'[j].stalls < faults'["crash"]
  <2>1. CASE jobs'[j] = jobs[j]
    BY <1>3, <1>4, <2>1
  <2>2. CASE jobs'[j] = NewJob
    BY <1>2, <2>2 DEF NewJob, NoJob
  <2>3. ASSUME NEW w \in Workers, Deliver(w, j)
        PROVE  jobs'[j].stalls = jobs[j].stalls /\ ~Abandoned(j)'
    BY <1>2, <2>3 DEF Deliver, Abandoned, Busy, JobOf, Jobs, JobIds
  <2>4. CASE StallAbandoned(j)
    <3>1. jobs'[j].stalls = jobs[j].stalls + 1 /\ jobs'[j].state # "active"
      BY <1>2, <2>4 DEF StallAbandoned, Stall, StalledJob
    <3>2. jobs[j].stalls < faults["crash"]
      BY <2>4 DEF StallAbandoned, Stall, StallsAreCrashes
    <3> QED BY <1>2, <1>3, <3>1, <3>2
  <2>5. CASE Evict(j)
    BY <1>2, <2>5 DEF Evict, NoJob
  <2>6. ASSUME NEW w \in Workers,
               jobs'[j] = ToldJob(jobs[j], execs[w].pc, execs[w].attempt)
        PROVE  jobs'[j].stalls = jobs[j].stalls /\ jobs'[j].state # "active"
    BY <2>6 DEF ToldJob
  <2> QED BY <1>1, <1>3, <2>1, <2>2, <2>3, <2>4, <2>5, <2>6, JobsMove
<1> QED BY <1>5 DEF StallsAreCrashes

\* A busy worker keeps its attempt, and its job the count of attempts made.
LEMMA AttemptsStep ==
  ASSUME OwnInv, OwnInv', [Next]_vars, Calm', Calm, AttemptsFollowJobs
  PROVE  AttemptsFollowJobs'
<1>1. /\ IInv /\ JobIsOwned /\ \A j \in JobIds : ~StallRunning(j)
      /\ jobs \in [JobIds -> Jobs] /\ execs \in [Workers -> Execs \cup {Idle}]
  BY CalmBefore, TypeFacts DEF OwnInv, IInv, Calm
<1>2. ASSUME NEW w \in Workers, Busy(w)'
      PROVE  execs'[w].attempt = jobs'[<<execs'[w].check, execs'[w].gen>>].made + 1
  <2>1. CASE Busy(w) /\ (execs'[w] = execs[w] \/ Moves(w))
    <3>1. jobs'[JobOf(w)] = jobs[JobOf(w)]
      BY <1>1, <1>2, <2>1, JobKept
    <3>2. /\ execs'[w].check = execs[w].check /\ execs'[w].gen = execs[w].gen
          /\ execs'[w].attempt = execs[w].attempt
      BY <1>1, <2>1, MoveParts
    <3> QED BY <2>1, <3>1, <3>2 DEF AttemptsFollowJobs, JobOf
  <2>2. ASSUME NEW j \in JobIds, Deliver(w, j)
        PROVE  execs'[w].attempt = jobs'[<<execs'[w].check, execs'[w].gen>>].made + 1
    <3>1. j = <<j[1], j[2]>>
      BY DEF JobIds
    <3>2. jobs'[j].made = jobs[j].made
      BY <1>1, <2>2 DEF Deliver, Jobs
    <3> QED BY <1>1, <2>2, <3>1, <3>2 DEF Deliver
  <2> QED BY <1>1, <1>2, <2>1, <2>2, ExecsMove, MoveParts DEF Busy, Idle
<1> QED BY <1>2 DEF AttemptsFollowJobs, Busy, JobOf

\* A retry hands the row to an attempt that may take it, a stall waits for the
\* lease to run out.
LEMMA ProcessingStep ==
  ASSUME OwnInv, OwnInv', [Next]_vars, Calm', Calm, StallAfterLease, NoFail, NoFail',
         AttemptsFit
  PROVE  ProcessingHasJob'
<1>1. /\ IInv /\ JobIsOwned /\ \A j \in JobIds : ~StallRunning(j)
      /\ jobs \in [JobIds -> Jobs] /\ execs \in [Workers -> Execs \cup {Idle}]
      /\ rows \in [Checks -> Rows]
  BY CalmBefore, TypeFacts DEF OwnInv, IInv, Calm
<1> SUFFICES ASSUME NEW c \in Checks, rows'[c].status = "PROCESSING"
             PROVE  LET job == jobs'[<<c, rows'[c].gen>>] IN
                    /\ job.state \in {"waiting", "active"}
                    /\ rows'[c].attempt <= job.made + 1
                    /\ job.state = "waiting" =>
                         rows'[c].attempt <= job.made \/ rows'[c].lease = "expired"
                    /\ rows'[c].lease \in {"live", "expired"}
  BY DEF ProcessingHasJob
<1>2. ASSUME NEW w \in Workers, Claim(w), MayClaim(w), execs[w].check = c
      PROVE  /\ jobs'[<<c, rows'[c].gen>>].state = "active"
             /\ rows'[c].attempt = jobs'[<<c, rows'[c].gen>>].made + 1
             /\ rows'[c].lease = "live"
  <2>1. Busy(w) /\ UNCHANGED jobs
    BY <1>1, <1>2, MoveParts DEF Moves
  <2>2. /\ rows'[c].gen = execs[w].gen /\ rows'[c].attempt = execs[w].attempt
        /\ rows'[c].lease = "live"
    BY <1>1, <1>2, ClaimedRow
  <2> QED BY <1>1, <1>2, <2>1, <2>2 DEF JobIsOwned, AttemptsFit, AttemptsFollowJobs, JobOf
<1>3. CASE /\ rows[c].status = "PROCESSING" /\ rows'[c].gen = rows[c].gen
           /\ rows'[c].attempt = rows[c].attempt
           /\ rows'[c].lease \in {rows[c].lease, "expired"}
  <2> DEFINE j == <<c, rows[c].gen>>
  <2>1. /\ j \in JobIds /\ j[1] = c /\ jobs[j] \in Jobs /\ jobs[j].made \in Nat
        /\ rows[c].attempt \in Nat
    BY <1>1, TypeFacts DEF IInv, JobIds, Rows, Jobs
  <2>2. /\ jobs[j].state \in {"waiting", "active"}
        /\ rows[c].attempt <= jobs[j].made + 1
        /\ jobs[j].state = "waiting" =>
             rows[c].attempt <= jobs[j].made \/ rows[c].lease = "expired"
        /\ rows[c].lease \in {"live", "expired"}
    BY <1>3 DEF AttemptsFit, ProcessingHasJob
  <2> HIDE DEF j
  <2>3. SUFFICES /\ jobs'[j].state \in {"waiting", "active"}
                 /\ rows[c].attempt <= jobs'[j].made + 1
                 /\ jobs'[j].state = "waiting" =>
                      rows[c].attempt <= jobs'[j].made \/ rows'[c].lease = "expired"
    BY <1>3, <2>2 DEF j
  <2>4. CASE jobs'[j] = jobs[j]
    BY <1>3, <2>2, <2>4
  <2>5. ASSUME NEW w \in Workers, Deliver(w, j)
        PROVE  jobs'[j].state = "active" /\ jobs'[j].made = jobs[j].made
    BY <1>1, <2>1, <2>5 DEF Deliver, Jobs
  <2>6. ASSUME StallAbandoned(j)
        PROVE  /\ jobs'[j].state = "waiting" /\ jobs'[j].made = jobs[j].made
               /\ rows'[c].lease = "expired"
    <3>1. rows[c].lease = "expired" /\ UNCHANGED rows
      BY <2>1, <2>2, <2>6 DEF StallAbandoned, Stall
    <3>2. jobs'[j] = StalledJob(jobs[j])
      BY <1>1, <2>1, <2>6 DEF StallAbandoned, Stall
    <3>3. StalledJob(jobs[j]).state \in {"waiting", "failed"}
          /\ StalledJob(jobs[j]).made = jobs[j].made
      BY DEF StalledJob
    <3>4. jobs'[j].state # "failed"
      BY <2>1 DEF NoFail
    <3> QED BY <3>1, <3>2, <3>3, <3>4
  <2>7. ~Evict(j)
    BY <2>2 DEF Evict
  <2>8. ASSUME NEW w \in Workers, Acknowledge(w), JobOf(w) = j,
               jobs'[j] = ToldJob(jobs[j], execs[w].pc, execs[w].attempt)
        PROVE  jobs'[j].state = "waiting" /\ rows[c].attempt <= jobs'[j].made
    <3>1. Busy(w) /\ execs[w].pc \in Returns
      BY <2>8 DEF Acknowledge, Returns, Busy
    <3>2. execs[w].attempt = jobs[j].made + 1
      BY <2>8, <3>1 DEF AttemptsFit, AttemptsFollowJobs
    <3>3. execs[w].pc # "fail"
      BY DEF NoFail
    <3>4. execs[w].pc # "complete"
      <4>1. execs[w].check = c /\ execs[w].gen = rows[c].gen
        BY <2>8 DEF JobOf, j
      <4> QED BY <1>3, <4>1 DEF AttemptsFit, DoneIsFinished, Done, InProgress, Row
    <3>5. execs[w].pc = "retry"
      BY <3>1, <3>3, <3>4 DEF Returns
    <3>6. jobs'[j].state = "waiting" /\ jobs'[j].made = execs[w].attempt
      BY <2>8, <3>5 DEF ToldJob
    <3> QED BY <2>2, <3>2, <3>6
  <2>9. jobs[j].state # "none"
    BY <2>2
  <2>10. \/ jobs'[j] = jobs[j]
         \/ \E w \in Workers : Deliver(w, j)
         \/ StallAbandoned(j)
         \/ \E w \in Workers : /\ Acknowledge(w) /\ JobOf(w) = j
                               /\ jobs'[j] = ToldJob(jobs[j], execs[w].pc, execs[w].attempt)
    BY <1>1, <2>1, <2>7, <2>9, JobsMove
  <2>11. CASE \E w \in Workers : Deliver(w, j)
    BY <2>2, <2>5, <2>11
  <2>12. CASE StallAbandoned(j)
    BY <2>2, <2>6, <2>12
  <2>13. CASE \E w \in Workers :
                /\ Acknowledge(w) /\ JobOf(w) = j
                /\ jobs'[j] = ToldJob(jobs[j], execs[w].pc, execs[w].attempt)
    <3>1. PICK w \in Workers :
                /\ Acknowledge(w) /\ JobOf(w) = j
                /\ jobs'[j] = ToldJob(jobs[j], execs[w].pc, execs[w].attempt)
      BY <2>13
    <3>2. jobs'[j].state = "waiting" /\ rows[c].attempt <= jobs'[j].made
      BY <2>8, <3>1
    <3>3. jobs'[j].made = execs[w].attempt /\ execs[w].attempt \in Nat
      <4>1. Busy(w) /\ execs[w].pc \in Returns
        BY <3>1 DEF Acknowledge, Returns, Busy
      <4>2. execs[w].attempt \in Nat
        BY <1>1, <4>1, TypeFacts DEF Busy, IInv
      <4>3. execs[w].pc = "retry"
        BY <3>1, <3>2, <4>1 DEF ToldJob, Returns
      <4> QED BY <3>1, <4>2, <4>3 DEF ToldJob
    <3> QED BY <2>1, <3>2, <3>3
  <2> QED BY <2>4, <2>10, <2>11, <2>12, <2>13
<1>4. CASE \E w \in Workers : Claim(w) /\ MayClaim(w) /\ execs[w].check = c
  <2>1. PICK w \in Workers : Claim(w) /\ MayClaim(w) /\ execs[w].check = c
    BY <1>4
  <2>2. rows'[c].attempt \in Nat
    <3>1. rows'[c].attempt = execs[w].attempt
      BY <1>1, <2>1, ClaimedRow
    <3> QED BY <1>1, <2>1, <3>1, TypeFacts DEF IInv, Claim
  <2>3. /\ jobs'[<<c, rows'[c].gen>>].state = "active" /\ rows'[c].lease = "live"
        /\ rows'[c].attempt = jobs'[<<c, rows'[c].gen>>].made + 1
    BY <1>2, <2>1
  <2> QED BY <2>2, <2>3
<1> QED BY <1>1, <1>3, <1>4, ProcessingRow

\* No step of a delivery leads back to its claim.
LEMMA MovesOn ==
  ASSUME IInv, NEW w \in Workers, Moves(w)
  PROVE  execs'[w].pc # "claim"
<1>1. execs \in [Workers -> Execs \cup {Idle}] /\ execs[w] \in Execs
  BY MoveParts, TypeFacts DEF IInv, Busy
<1>2. ASSUME NEW pc, pc # "claim", Goto(w, pc)
      PROVE  execs'[w].pc # "claim"
  BY <1>1, <1>2 DEF Goto, Execs
<1>3. AfterRelease(w) # "claim" /\ AfterThrow(w) # "claim"
  BY DEF AfterRelease, AfterThrow
<1>4. CASE HealthCheck(w)
  BY <1>1, <1>4 DEF HealthCheck, Execs
<1>5. CASE Finalize(w)
  <2>1. CASE OwnsRow(w)
    BY <1>1, <1>5, <2>1 DEF Finalize, Execs
  <2> QED BY <1>2, <1>5, <2>1 DEF Finalize
<1> QED BY <1>2, <1>3, <1>4, <1>5
        DEF Moves, Claim, MarkBatchRunning, PersistInterimResult, Commit, PublishUpdate,
            Release, InfrastructureError

\* A delivery is done after its claim failed, after its commit, or because it
\* had nothing to commit.
LEMMA DoneSince ==
  ASSUME IInv, NEW w \in Workers, Moves(w), ~Claim(w), ~Commit(w), ~Finalize(w),
         ~InfrastructureError(w), Done(w)'
  PROVE  Done(w)
<1>1. execs \in [Workers -> Execs \cup {Idle}] /\ execs[w] \in Execs
  BY MoveParts, TypeFacts DEF IInv, Busy
<1>2. ASSUME NEW pc, Goto(w, pc)
      PROVE  execs'[w].pc = pc /\ execs'[w].outcome = execs[w].outcome
  BY <1>1, <1>2 DEF Goto, Execs
<1>3. CASE MarkBatchRunning(w)
  BY <1>2, <1>3 DEF MarkBatchRunning, Done
<1>4. CASE HealthCheck(w)
  BY <1>1, <1>4 DEF HealthCheck, Execs, Done
<1>5. CASE PersistInterimResult(w)
  BY <1>2, <1>5 DEF PersistInterimResult, Done
<1>6. CASE PublishUpdate(w)
  BY <1>6 DEF PublishUpdate, Done
<1>7. CASE Release(w)
  BY <1>2, <1>7 DEF Release, AfterRelease, Done
<1> QED BY <1>3, <1>4, <1>5, <1>6, <1>7 DEF Moves

\* Only the holder of a job claims its check.
LEMMA ClaimOfOwnJob ==
  ASSUME IInv, JobIsOwned, [Next]_vars, NEW w \in Workers, Busy(w),
         ~InProgress(w), rows'[execs[w].check].status = "PROCESSING",
         rows'[execs[w].check].gen = execs[w].gen
  PROVE  Claim(w) /\ MayClaim(w)
<1> DEFINE c == execs[w].check
<1>1. c \in Checks
  BY TypeFacts DEF IInv, Busy
<1>2. PICK v \in Workers : Claim(v) /\ MayClaim(v) /\ execs[v].check = c
  BY <1>1, ProcessingRow DEF InProgress, Row
<1>3. Busy(v) /\ execs[v].gen = execs[w].gen
  BY <1>2, ClaimedRow DEF Claim, Busy
<1>4. JobOf(v) = JobOf(w)
  BY <1>2, <1>3 DEF JobOf
<1>5. v = w
  BY <1>3, <1>4 DEF JobIsOwned
<1> QED BY <1>2, <1>5

\* A new delivery can take its check over, and nobody else comes first.
LEMMA ClaimsStep ==
  ASSUME OwnInv, OwnInv', [Next]_vars, Calm', Calm, AttemptsFit
  PROVE  ClaimsSucceed'
<1>1. /\ IInv /\ JobIsOwned /\ \A j \in JobIds : ~StallRunning(j)
      /\ jobs \in [JobIds -> Jobs] /\ execs \in [Workers -> Execs \cup {Idle}]
      /\ rows \in [Checks -> Rows]
  BY CalmBefore, TypeFacts DEF OwnInv, IInv, Calm
<1> SUFFICES ASSUME NEW w \in Workers, execs'[w].pc = "claim", InProgress(w)'
             PROVE  MayClaim(w)'
  BY DEF ClaimsSucceed
<1>2. ASSUME NEW j \in JobIds, Deliver(w, j)
      PROVE  MayClaim(w)'
  <2>1. /\ jobs[j].state = "waiting" /\ execs'[w].check = j[1] /\ execs'[w].gen = j[2]
        /\ execs'[w].attempt = jobs[j].made + 1 /\ UNCHANGED rows
    BY <1>1, <1>2 DEF Deliver
  <2>2. j[1] \in Checks /\ j = <<j[1], j[2]>> /\ rows[j[1]].gen = j[2]
        /\ rows[j[1]].status = "PROCESSING"
    BY <2>1 DEF JobIds, InProgress, Row
  <2>3. /\ rows[j[1]].attempt <= jobs[j].made + 1
        /\ rows[j[1]].attempt <= jobs[j].made \/ rows[j[1]].lease = "expired"
    BY <2>1, <2>2 DEF AttemptsFit, ProcessingHasJob
  <2>4. jobs[j].made \in Nat /\ rows[j[1]].attempt \in Nat
    BY <1>1, <2>2, TypeFacts DEF IInv, Jobs
  <2> QED BY <2>1, <2>2, <2>3, <2>4 DEF MayClaim, Row
<1>3. CASE execs'[w] = execs[w]
  <2>1. /\ Busy(w) /\ execs'[w].check = execs[w].check /\ execs'[w].gen = execs[w].gen
        /\ execs'[w].attempt = execs[w].attempt /\ execs[w].pc = "claim"
    BY <1>3 DEF Busy
  <2>2. ~Claim(w)
    BY <1>1, <2>1, <1>3, TypeFacts DEF Claim, Goto, IInv, Execs
  <2>3. InProgress(w) /\ execs[w].check \in Checks
    BY <1>1, <2>1, <2>2, ClaimOfOwnJob, TypeFacts DEF InProgress, Row, IInv
  <2>4. MayClaim(w)
    BY <2>1, <2>3 DEF AttemptsFit, ClaimsSucceed
  <2>5. ASSUME NEW v \in Workers, Claim(v), MayClaim(v), execs[v].check = execs[w].check
        PROVE  FALSE
    <3>1. Busy(v) /\ execs[v].gen = execs[w].gen
      BY <2>3, <2>5 DEF Claim, MayClaim, Row, Busy, InProgress
    <3>2. JobOf(v) = JobOf(w)
      BY <2>5, <3>1 DEF JobOf
    <3>3. v = w
      BY <1>1, <2>1, <3>1, <3>2 DEF JobIsOwned
    <3> QED BY <2>2, <2>5, <3>3
  <2>6. /\ rows'[execs[w].check].gen = rows[execs[w].check].gen
        /\ rows'[execs[w].check].attempt = rows[execs[w].check].attempt
        /\ rows'[execs[w].check].lease \in {rows[execs[w].check].lease, "expired"}
    BY <1>1, <2>1, <2>3, <2>5, ProcessingRow DEF InProgress, Row
  <2>7. rows'[execs[w].check].status = "PROCESSING" /\ rows[execs[w].check].status = "PROCESSING"
    BY <2>1, <2>3 DEF InProgress, Row
  <2> QED BY <2>1, <2>4, <2>6, <2>7 DEF MayClaim, Row
<1>4. ~Moves(w)
  BY <1>1, MovesOn DEF OwnInv
<1> QED BY <1>1, <1>2, <1>3, <1>4, ExecsMove DEF Idle

\* A delivery comes to its end by its commit, or by finding another outcome.
LEMMA DoneStep ==
  ASSUME OwnInv, OwnInv', [Next]_vars, Calm', Calm, AttemptsFit
  PROVE  DoneIsFinished'
<1>1. /\ IInv /\ JobIsOwned /\ ClaimIsHeld
      /\ \A v \in Workers : ~InfrastructureError(v)
      /\ execs \in [Workers -> Execs \cup {Idle}] /\ rows \in [Checks -> Rows]
  BY CalmBefore, TypeFacts DEF OwnInv, IInv, Calm
<1> SUFFICES ASSUME NEW w \in Workers, Done(w)', InProgress(w)'
             PROVE  FALSE
  BY DEF DoneIsFinished
<1>2. execs'[w] # Idle /\ \A j \in JobIds : ~Deliver(w, j)
  BY <1>1 DEF Deliver, Done, Idle
<1>3. execs'[w] = execs[w] \/ Moves(w)
  BY <1>1, <1>2, ExecsMove
<1>4. /\ Busy(w) /\ execs'[w].check = execs[w].check /\ execs'[w].gen = execs[w].gen
  BY <1>1, <1>3, MoveParts DEF Done, Busy
<1>5. ~(Claim(w) /\ MayClaim(w))
  BY <1>1, TypeFacts DEF Claim, Goto, Done, Execs, IInv
<1>6. InProgress(w)
  BY <1>1, <1>4, <1>5, ClaimOfOwnJob DEF InProgress, Row
<1>7. ~Done(w)
  BY <1>6 DEF AttemptsFit, DoneIsFinished
<1>8. Moves(w)
  BY <1>3, <1>7 DEF Done
<1>9. CASE Claim(w)
  BY <1>5, <1>6, <1>9 DEF AttemptsFit, ClaimsSucceed, Claim
<1>10. CASE Commit(w)
  BY <1>1, <1>4, <1>10, TypeFacts DEF Commit, FinalRow, FinalStatus, InProgress, Row, IInv
<1>11. CASE Finalize(w)
  <2>1. OwnsRow(w)
    BY <1>1, <1>7, <1>11 DEF Finalize, ClaimIsHeld, Holds
  <2>2. execs[w] \in Execs
    BY <1>1, <1>4 DEF Busy, Idle
  <2> QED BY <1>1, <1>11, <2>1, <2>2 DEF Finalize, Done, Execs
<1> QED BY <1>1, <1>7, <1>8, <1>9, <1>10, <1>11, DoneSince DEF OwnInv

\* While no error is thrown, the unfinished runs of unfinished checks are kept
\* alive by every step.
LEMMA NextCalmInv == CalmInv /\ [Next]_vars => CalmInv'
<1> SUFFICES ASSUME CalmInv, [Next]_vars PROVE CalmInv'
  OBVIOUS
<1>1. OwnInv /\ OwnInv'
  BY NextOwnInv DEF CalmInv
<1> SUFFICES ASSUME Calm'
             PROVE  (StallsAreCrashes /\ NoFail /\ (StallAfterLease => AttemptsFit))'
  BY <1>1 DEF CalmInv
<1>2. Calm /\ StallsAreCrashes /\ NoFail /\ (StallAfterLease => AttemptsFit)
  BY <1>1, CalmBefore DEF CalmInv, OwnInv, IInv
<1>3. StallsAreCrashes' /\ NoFail'
  BY <1>1, <1>2, StallsStep, NoFailStep
<1>4. ASSUME StallAfterLease PROVE AttemptsFit'
  BY <1>1, <1>2, <1>3, <1>4, AttemptsStep, ProcessingStep, ClaimsStep, DoneStep
     DEF AttemptsFit
<1> QED BY <1>3, <1>4

\* Nothing has gone wrong at first.
LEMMA InitCalmInv == Init => CalmInv
<1> SUFFICES ASSUME Init PROVE CalmInv
  OBVIOUS
<1>1. OwnInv
  BY InitOwnInv
<1>2. /\ \A w \in Workers : execs[w].pc = "idle"
      /\ \A j \in JobIds : jobs[j].state = "none" /\ jobs[j].stalls = 0
      /\ \A c \in Checks : rows[c].status = "QUEUED"
      /\ faults["crash"] = 0
  BY DEF Init, Idle, NoJob, FaultKinds
<1>3. StallsAreCrashes /\ NoFail
  BY <1>2 DEF StallsAreCrashes, NoFail
<1>4. AttemptsFit
  BY <1>2 DEF AttemptsFit, AttemptsFollowJobs, ProcessingHasJob, ClaimsSucceed,
              DoneIsFinished, Done, Busy
<1> QED BY <1>1, <1>3, <1>4 DEF CalmInv

\* The invariant of calm runs holds in every reachable state.
LEMMA CalmInvAlways == Spec => []CalmInv
BY InitCalmInv, NextCalmInv, PTL DEF Spec

\* While no call of the handler fails for lack of Postgres or Redis, no worker
\* loses a job it runs, and crashes stay within maxStalledCount, a check that
\* waits for work is one that reconciliation repairs or the queue delivers.
THEOREM QueuedIsRepairable == Spec => [](Calm => QueuedIsRecoverable)
<1>1. CalmInv /\ QueuedIsNotDone => (Calm => QueuedIsRecoverable)
  <2> SUFFICES ASSUME CalmInv, QueuedIsNotDone, Calm, NEW c \in Queued
               PROVE  jobs[<<c, rows[c].gen>>].state \in {"none", "waiting", "active"}
    BY DEF QueuedIsRecoverable
  <2>1. jobs \in [JobIds -> Jobs] /\ rows \in [Checks -> Rows] /\ c \in Checks
    BY TypeFacts DEF CalmInv, OwnInv, IInv, Queued
  <2>2. <<c, rows[c].gen>> \in JobIds
    BY <2>1 DEF JobIds, Rows
  <2>3. jobs[<<c, rows[c].gen>>].state \notin {"failed", "completed"}
    BY <2>2 DEF CalmInv, NoFail, QueuedIsNotDone
  <2> QED BY <2>1, <2>2, <2>3 DEF Jobs
<1> QED BY <1>1, CalmInvAlways, CompletedJobsHideNothing, PTL

\* If BullMQ moreover gives up on a worker only after the claim's lease, every
\* check in progress has a job that is running or will run again.
THEOREM ProcessingHasALiveJob ==
  Spec => [](Calm /\ StallAfterLease => ProcessingIsCovered)
<1>1. CalmInv => (Calm /\ StallAfterLease => ProcessingIsCovered)
  BY DEF CalmInv, AttemptsFit, ProcessingHasJob, ProcessingIsCovered
<1> QED BY <1>1, CalmInvAlways, PTL

=============================================================================
