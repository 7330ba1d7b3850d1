------------------------- MODULE UrlCheckExecution -------------------------
(***************************************************************************)
(* The execution of the URL checks of one batch: the Postgres rows, the    *)
(* BullMQ jobs, the worker processes that run processUrlCheckJob, and the  *)
(* API calls that create, cancel, retry and reconcile.                     *)
(*                                                                         *)
(* One action is the code between two awaits, or one database transaction. *)
(* finalizeCheck and finalizeExhaustedRetries take two actions: the row    *)
(* UPDATE with the SELECT of the counts after it (the row is then locked,  *)
(* its new value not yet visible), and the UPDATE of the batch with the    *)
(* COMMIT.  cancelBatch and retryFailedUrls hold the batch row FOR UPDATE  *)
(* and touch only rows no finalizer has locked, so they are one action.    *)
(*                                                                         *)
(* A claim token is a fresh UUID per delivery.  A worker slot runs one     *)
(* delivery at a time and writes only after its own claim succeeded, so    *)
(* the slot's name stands for the token.                                   *)
(***************************************************************************)
EXTENDS Naturals

CONSTANTS
  Checks,          \* url_checks rows of the batch
  Workers,         \* execution slots: worker processes x BullMQ concurrency
  NoWorker,        \* NULL claim token, no lock owner
  MaxAttempts,     \* `attempts` of the job options
  MaxStalls,       \* BullMQ's maxStalledCount
  StallAfterLease, \* BullMQ gives up on a worker only after the claim's lease
  MaxGeneration,   \* bound: retry-failed calls per check
  FaultBudget      \* bound: how often each kind of fault happens

FaultKinds == {"crash", "stall", "error", "enqueue", "evict"}

ASSUME WorkersAssumption == NoWorker \notin Workers
ASSUME AttemptsAssumption == MaxAttempts \in Nat /\ MaxAttempts >= 1
ASSUME BoundsAssumption ==
  /\ MaxStalls \in Nat
  /\ MaxGeneration \in Nat
  /\ StallAfterLease \in BOOLEAN
  /\ FaultBudget \in [FaultKinds -> Nat]

VARIABLES
  batch,     \* batches.status
  rows,      \* check -> its url_checks row
  jobs,      \* <<check, generation>> -> its BullMQ job
  execs,     \* worker slot -> the delivery it is executing
  adds,      \* enqueue calls under way: <<caller, check, generation>>
  creating,  \* the createBatch request has not returned yet
  faults     \* faults so far, by kind

vars == <<batch, rows, jobs, execs, adds, creating, faults>>

-----------------------------------------------------------------------------
(* Types *)

BatchTerminal == {"COMPLETED", "PARTIALLY_FAILED", "FAILED"}
BatchStatus == {"PENDING", "RUNNING", "CANCELLED"} \cup BatchTerminal
CheckStatus == {"QUEUED", "PROCESSING", "SUCCESS", "FAILED", "CANCELLED"}

Generations == 0..MaxGeneration
JobIds == Checks \X Generations          \* jobIdFor

\* performHealthCheck: a response below 500, a 5xx, a retryable network
\* failure, a failure that is never retried.
Outcomes == {"ok", "5xx", "network", "permanent"}
Transient == {"5xx", "network"}

\* What the result columns hold, and the attempt that observed it.
Results == [seen : Outcomes \cup {"none"}, attempt : 0..MaxAttempts]
NoResult == [seen |-> "none", attempt |-> 0]

Rows == [status : CheckStatus, gen : Generations, attempt : 0..MaxAttempts,
         token : Workers \cup {NoWorker}, lease : {"none", "live", "expired"},
         result : Results]

Jobs == [state : {"none", "waiting", "active", "completed", "failed"},
         made : 0..MaxAttempts, stalls : 0..MaxStalls + 1,
         owner : Workers \cup {NoWorker}]
NoJob == [state |-> "none", made |-> 0, stalls |-> 0, owner |-> NoWorker]
NewJob == [NoJob EXCEPT !.state = "waiting"]

\* Where a delivery stands: the next call it makes, or how it returns.
Steps == {"claim", "mark", "request", "store", "commit", "publish", "release",
          "exhaust"}
Returns == {"complete", "retry", "fail"}
Idle == [pc |-> "idle"]
Execs == [pc : Steps \cup Returns, check : Checks, gen : Generations,
          attempt : 1..MaxAttempts, outcome : Outcomes \cup {"none"},
          verdict : BatchTerminal \cup {"none"}]

\* Rows, jobs and deliveries keep to their schemas: no attempt number exceeds
\* MaxAttempts and no counter of the queue leaves its range.
TypeOK ==
  /\ batch \in BatchStatus
  /\ rows \in [Checks -> Rows]
  /\ jobs \in [JobIds -> Jobs]
  /\ execs \in [Workers -> Execs \cup {Idle}]
  /\ adds \subseteq {"request", "reconcile"} \X Checks \X Generations
  /\ creating \in BOOLEAN
  /\ faults \in [FaultKinds -> Nat]

-----------------------------------------------------------------------------
(* Reading the state *)

Busy(w) == execs[w].pc # "idle"
JobOf(w) == <<execs[w].check, execs[w].gen>>
Row(w) == rows[execs[w].check]

\* Mutants of OwnsRow: without the token; without status and token.
OwnsRowUntokened(w) == Row(w).gen = execs[w].gen /\ Row(w).status = "PROCESSING"
OwnsRowByGeneration(w) == Row(w).gen = execs[w].gen

\* WHERE run_generation = $2 AND status = 'PROCESSING'
\*   AND processing_claim_token = $3
OwnsRow(w) == /\ Row(w).gen = execs[w].gen
              /\ Row(w).status = "PROCESSING"
              /\ Row(w).token = w

\* The row was updated in a transaction that is still open.
Locked(c) == \E w \in Workers : execs[w].pc = "commit" /\ execs[w].check = c

Queued == {c \in Checks : rows[c].status = "QUEUED"}
Failed == {c \in Checks : rows[c].status = "FAILED"}

Settled(s) == s \in {"SUCCESS", "FAILED", "CANCELLED"}

\* The batch status recomputeBatchAggregates derives when check c has just
\* been given status s and every other row reads as committed.
Aggregate(c, s) ==
  LET seen == [rows EXCEPT ![c].status = s]
      Has(t) == \E d \in Checks : seen[d].status = t
  IN  IF \E d \in Checks : ~Settled(seen[d].status) THEN "none"
      ELSE IF ~Has("FAILED") THEN "COMPLETED"
      ELSE IF ~Has("SUCCESS") THEN "FAILED"
      ELSE "PARTIALLY_FAILED"

Fault(kind) ==
  /\ faults[kind] < FaultBudget[kind]
  /\ faults' = [faults EXCEPT ![kind] = @ + 1]

-----------------------------------------------------------------------------
(* The API: createBatch, cancelBatch, retryFailedUrls, reconcile *)

\* The create transaction has committed and its enqueue calls are under way.
Init ==
  /\ batch = "PENDING"
  /\ rows = [c \in Checks |->
               [status |-> "QUEUED", gen |-> 0, attempt |-> 0,
                token |-> NoWorker, lease |-> "none", result |-> NoResult]]
  /\ jobs = [j \in JobIds |-> NoJob]
  /\ execs = [w \in Workers |-> Idle]
  /\ adds = {"request"} \X Checks \X {0}
  /\ creating = TRUE
  /\ faults = [kind \in FaultKinds |-> 0]

\* Mutant of AddedJob: the queue does not look for the job id.
AddedJobAgain(j) == NewJob

\* urlCheckQueue.add: a job id that exists makes it a no-op.
AddedJob(j) == IF jobs[j].state = "none" THEN NewJob ELSE jobs[j]

AddJob(a) ==
  LET j == <<a[2], a[3]>> IN
    /\ a \in adds
    /\ adds' = adds \ {a}
    /\ jobs' = [jobs EXCEPT ![j] = AddedJob(j)]
    /\ UNCHANGED <<batch, rows, execs, creating, faults>>

\* The enqueue call fails, or the API process dies before it is made; a
\* failed call makes createBatch throw.
AddFails(a) ==
  /\ a \in adds
  /\ Fault("enqueue")
  /\ adds' = adds \ {a}
  /\ creating' = (creating /\ (a[1] = "reconcile" \/ a[3] > 0))
  /\ UNCHANGED <<batch, rows, jobs, execs>>

\* createBatch once every enqueue call has returned.
CreateReturns ==
  /\ creating
  /\ \A a \in adds : ~(a[1] = "request" /\ a[3] = 0)
  /\ creating' = FALSE
  /\ batch' = IF batch = "PENDING" THEN "RUNNING" ELSE batch
  /\ UNCHANGED <<rows, jobs, execs, adds, faults>>

\* The API process dies before createBatch sets RUNNING.
CreateDies ==
  /\ creating
  /\ Fault("enqueue")
  /\ creating' = FALSE
  /\ UNCHANGED <<batch, rows, jobs, execs, adds>>

CancelBatch ==
  /\ batch \notin BatchTerminal \cup {"CANCELLED"}
  /\ batch' = "CANCELLED"
  /\ rows' = [c \in Checks |-> IF c \in Queued
                               THEN [rows[c] EXCEPT !.status = "CANCELLED"]
                               ELSE rows[c]]
  /\ UNCHANGED <<jobs, execs, adds, creating, faults>>

\* Mutants of ResetRow: the attempt is kept; the generation is kept.
ResetRowSameAttempt(r) ==
  [r EXCEPT !.status = "QUEUED", !.gen = @ + 1, !.result = NoResult]
ResetRowSameGeneration(r) ==
  [r EXCEPT !.status = "QUEUED", !.attempt = 0, !.result = NoResult]

ResetRow(r) == [r EXCEPT !.status = "QUEUED", !.attempt = 0, !.gen = @ + 1,
                         !.result = NoResult]

\* Mutant of MayRetry: a cancelled batch is not refused.
MayRetryAlways == TRUE

MayRetry == batch # "CANCELLED"

RetryFailedUrls ==
  /\ MayRetry
  /\ Failed # {}
  /\ \A c \in Failed : rows[c].gen < MaxGeneration
  /\ rows' = [c \in Checks |-> IF c \in Failed THEN ResetRow(rows[c]) ELSE rows[c]]
  /\ batch' = "RUNNING"
  /\ adds' = adds \cup {<<"request", c, ResetRow(rows[c]).gen>> : c \in Failed}
  /\ UNCHANGED <<jobs, execs, creating, faults>>

\* A pass of reconcileStuckUrlChecks reads a stale QUEUED row and getJob finds
\* no job for it; its add comes later.  (Jobs are retained for an hour or
\* more, so none disappears between the two reads of one pass.)
ReconcileSelects(c) ==
  /\ c \in Queued
  /\ jobs[<<c, rows[c].gen>>].state = "none"
  /\ adds' = adds \cup {<<"reconcile", c, rows[c].gen>>}
  /\ UNCHANGED <<batch, rows, jobs, execs, creating, faults>>

-----------------------------------------------------------------------------
(* The queue *)

\* A free slot takes a waiting job: attempt = job.attemptsMade + 1.
Deliver(w, j) ==
  /\ ~Busy(w)
  /\ jobs[j].state = "waiting"
  /\ jobs' = [jobs EXCEPT ![j].state = "active", ![j].owner = w]
  /\ execs' = [execs EXCEPT ![w] =
                 [pc |-> "claim", check |-> j[1], gen |-> j[2],
                  attempt |-> jobs[j].made + 1,
                  outcome |-> "none", verdict |-> "none"]]
  /\ UNCHANGED <<batch, rows, adds, creating, faults>>

\* A job whose handler returned, threw with attempts left, or threw without.
ToldJob(job, pc, attempt) ==
  [state |-> CASE pc = "complete" -> "completed"
               [] pc = "retry"    -> "waiting"
               [] OTHER           -> "failed",
   made |-> IF pc = "retry" THEN attempt ELSE job.made,
   stalls |-> job.stalls, owner |-> NoWorker]

\* The handler returned or threw.  The queue listens only to the lock owner,
\* and counts an attempt only when the handler threw.
Acknowledge(w) ==
  LET j == JobOf(w)
      e == execs[w]
  IN  /\ e.pc \in Returns
      /\ execs' = [execs EXCEPT ![w] = Idle]
      /\ jobs' = IF jobs[j].state = "active" /\ jobs[j].owner = w
                 THEN [jobs EXCEPT ![j] = ToldJob(jobs[j], e.pc, e.attempt)]
                 ELSE jobs
      /\ UNCHANGED <<batch, rows, adds, creating, faults>>

StalledJob(job) ==
  [state |-> IF job.stalls < MaxStalls THEN "waiting" ELSE "failed",
   made |-> job.made, stalls |-> job.stalls + 1, owner |-> NoWorker]

\* The stalled-job check: the owner's lock ran out.  attemptsMade stays.
Stall(j) ==
  /\ jobs[j].state = "active"
  /\ StallAfterLease => rows[j[1]].lease # "live"
  /\ jobs' = [jobs EXCEPT ![j] = StalledJob(jobs[j])]
  /\ UNCHANGED <<batch, rows, execs, adds, creating>>

Abandoned(j) == LET w == jobs[j].owner IN w \in Workers => ~(Busy(w) /\ JobOf(w) = j)

\* The lock ran out because the worker died ...
StallAbandoned(j) ==
  /\ Abandoned(j)
  /\ Stall(j)
  /\ UNCHANGED faults

\* ... or because a living worker could not renew it.
StallRunning(j) ==
  /\ ~Abandoned(j)
  /\ Fault("stall")
  /\ Stall(j)

\* removeOnComplete and removeOnFail.
Evict(j) ==
  /\ jobs[j].state \in {"completed", "failed"}
  /\ Fault("evict")
  /\ jobs' = [jobs EXCEPT ![j] = NoJob]
  /\ UNCHANGED <<batch, rows, execs, adds, creating>>

\* processing_lease_until passes.
LeaseExpires(c) ==
  /\ rows[c].lease = "live"
  /\ rows' = [rows EXCEPT ![c].lease = "expired"]
  /\ UNCHANGED <<batch, jobs, execs, adds, creating, faults>>

-----------------------------------------------------------------------------
(* The worker: processUrlCheckJob and the handler around it *)

Goto(w, pc) == execs' = [execs EXCEPT ![w].pc = pc]

\* Mutant of LastAttempt: one attempt too many.
LastAttemptLate(w) == execs[w].attempt > MaxAttempts

\* job.attemptsMade + 1 >= job.opts.attempts
LastAttempt(w) == execs[w].attempt >= MaxAttempts

\* How a handler that throws without a claim token leaves the job.
AfterThrow(w) == IF LastAttempt(w) THEN "fail" ELSE "retry"

\* Mutants of MayClaim: only a QUEUED row; any attempt once the lease expired.
MayClaimQueued(w) ==
  /\ Row(w).gen = execs[w].gen
  /\ Row(w).status = "QUEUED" /\ Row(w).attempt < execs[w].attempt
MayClaimExpired(w) ==
  LET r == Row(w)
      a == execs[w].attempt
  IN  /\ r.gen = execs[w].gen
      /\ \/ r.status \in {"QUEUED", "PROCESSING"} /\ r.attempt < a
         \/ r.status = "PROCESSING" /\ r.lease = "expired"

MayClaim(w) ==
  LET r == Row(w)
      a == execs[w].attempt
  IN  /\ r.gen = execs[w].gen
      /\ \/ r.status = "QUEUED" /\ r.attempt < a
         \/ r.status = "PROCESSING" /\ r.attempt < a
         \/ r.status = "PROCESSING" /\ r.attempt = a /\ r.lease = "expired"

Claim(w) ==
  LET c == execs[w].check IN
    /\ execs[w].pc = "claim"
    /\ ~Locked(c)
    /\ IF MayClaim(w)
       THEN /\ rows' = [rows EXCEPT ![c].status = "PROCESSING",
                                    ![c].attempt = execs[w].attempt,
                                    ![c].token = w, ![c].lease = "live"]
            /\ Goto(w, "mark")
       ELSE Goto(w, "complete") /\ UNCHANGED rows
    /\ UNCHANGED <<batch, jobs, adds, creating, faults>>

MarkBatchRunning(w) ==
  /\ execs[w].pc = "mark"
  /\ batch' = IF batch = "PENDING" THEN "RUNNING" ELSE batch
  /\ Goto(w, "request")
  /\ UNCHANGED <<rows, jobs, adds, creating, faults>>

\* A slot, a token, then the request.
HealthCheck(w) ==
  /\ execs[w].pc = "request"
  /\ \E o \in Outcomes :
       execs' = [execs EXCEPT ![w].pc = "store", ![w].outcome = o]
  /\ UNCHANGED <<batch, rows, jobs, adds, creating, faults>>

\* A transient failure is recorded on the row, which stays PROCESSING.
PersistInterimResult(w) ==
  LET c == execs[w].check IN
    /\ execs[w].pc = "store" /\ execs[w].outcome \in Transient
    /\ ~Locked(c)
    /\ rows' = IF OwnsRow(w)
               THEN [rows EXCEPT ![c].result =
                       [seen |-> execs[w].outcome, attempt |-> execs[w].attempt]]
               ELSE rows
    /\ Goto(w, "release")
    /\ UNCHANGED <<batch, jobs, adds, creating, faults>>

\* The first half of finalizeCheck and of finalizeExhaustedRetries: update
\* the row if it is still ours, and count.
FinalStatus(w) == IF execs[w].outcome = "ok" THEN "SUCCESS" ELSE "FAILED"

Finalize(w) ==
  LET c == execs[w].check IN
    /\ \/ execs[w].pc = "store" /\ execs[w].outcome \notin Transient
       \/ execs[w].pc = "exhaust"
    /\ ~Locked(c)
    /\ IF OwnsRow(w)
       THEN execs' = [execs EXCEPT ![w].pc = "commit",
                                   ![w].verdict = Aggregate(c, FinalStatus(w))]
       ELSE Goto(w, "publish")
    /\ UNCHANGED <<batch, rows, jobs, adds, creating, faults>>

\* Mutant of BatchAfter: the CASE that keeps CANCELLED is missing.
BatchAfterAnyway(verdict) == IF verdict = "none" THEN batch ELSE verdict

BatchAfter(verdict) ==
  IF batch = "CANCELLED" \/ verdict = "none" THEN batch ELSE verdict

\* Exhausted retries keep the result columns of the last interim write.
FinalRow(w) ==
  [status |-> FinalStatus(w), gen |-> Row(w).gen, attempt |-> Row(w).attempt,
   token |-> NoWorker, lease |-> "none",
   result |-> IF execs[w].outcome \in Transient THEN Row(w).result
              ELSE [seen |-> execs[w].outcome, attempt |-> execs[w].attempt]]

\* The second half: the batch row, then COMMIT.
Commit(w) ==
  LET c == execs[w].check
      e == execs[w]
  IN  /\ e.pc = "commit"
      /\ rows' = [rows EXCEPT ![c] = FinalRow(w)]
      /\ batch' = BatchAfter(e.verdict)
      /\ Goto(w, "publish")
      /\ UNCHANGED <<jobs, adds, creating, faults>>

\* The SSE events and the cache invalidation, which end both finalizers.
PublishUpdate(w) ==
  /\ execs[w].pc = "publish"
  /\ Goto(w, IF execs[w].outcome \in Transient THEN "complete" ELSE "release")
  /\ UNCHANGED <<batch, rows, jobs, adds, creating, faults>>

\* Mutant of AfterRelease: the handler does not finalize exhausted retries.
AfterReleaseUnfinalized(w) ==
  IF execs[w].outcome \notin Transient THEN "complete" ELSE AfterThrow(w)

\* What the handler does when processUrlCheckJob returns or throws.
AfterRelease(w) == IF execs[w].outcome \notin Transient THEN "complete"
                   ELSE IF LastAttempt(w) THEN "exhaust" ELSE "retry"

\* release() in the finally block of withSlot.
Release(w) ==
  /\ execs[w].pc = "release"
  /\ Goto(w, AfterRelease(w))
  /\ UNCHANGED <<batch, rows, jobs, adds, creating, faults>>

\* Postgres or Redis fails a call of the handler: an error without a token
\* (a failing release() replaces the one that had it); an open transaction
\* rolls back.
InfrastructureError(w) ==
  /\ execs[w].pc \in Steps
  /\ Fault("error")
  /\ Goto(w, AfterThrow(w))
  /\ UNCHANGED <<batch, rows, jobs, adds, creating>>

\* The process dies: nothing is returned, an open transaction rolls back.
Crash(w) ==
  /\ Busy(w)
  /\ Fault("crash")
  /\ execs' = [execs EXCEPT ![w] = Idle]
  /\ UNCHANGED <<batch, rows, jobs, adds, creating>>

-----------------------------------------------------------------------------
Proceed(w) ==
  \/ Claim(w) \/ MarkBatchRunning(w) \/ HealthCheck(w)
  \/ PersistInterimResult(w) \/ Finalize(w) \/ Commit(w) \/ PublishUpdate(w) \/ Release(w)
  \/ Acknowledge(w)

Next ==
  \/ CreateReturns \/ CreateDies \/ CancelBatch \/ RetryFailedUrls
  \/ \E a \in adds : AddJob(a) \/ AddFails(a)
  \/ \E c \in Checks : ReconcileSelects(c) \/ LeaseExpires(c)
  \/ \E j \in JobIds :
       \/ \E w \in Workers : Deliver(w, j)
       \/ StallAbandoned(j) \/ StallRunning(j) \/ Evict(j)
  \/ \E w \in Workers : Proceed(w) \/ InfrastructureError(w) \/ Crash(w)

Spec == Init /\ [][Next]_vars

\* What the deployment keeps doing: live workers proceed, the queue delivers
\* and checks for stalled jobs, leases run out, every API instance runs the
\* reconciliation every 10 s.  Nothing makes a user cancel or retry, and no
\* fault has to happen.
Fairness ==
  /\ \A w \in Workers : WF_vars(Proceed(w))
  /\ \A c \in Checks : /\ WF_vars(LeaseExpires(c))
                       /\ WF_vars(ReconcileSelects(c))
  /\ \A j \in JobIds :
       /\ WF_vars(\E w \in Workers : Deliver(w, j))
       /\ WF_vars(StallAbandoned(j))
       /\ \A who \in {"request", "reconcile"} : WF_vars(AddJob(<<who, j[1], j[2]>>))

FairSpec == Spec /\ Fairness

-----------------------------------------------------------------------------
(* Properties *)

\* cancelBatch leaves no check waiting for work, whatever enqueue calls,
\* retries and reconciliation passes are under way, and a CANCELLED check
\* exists only in a CANCELLED batch (batchService.ts, cancelBatch).
CancelReachesQueuedChecks ==
  /\ batch = "CANCELLED" => Queued = {}
  /\ (\E c \in Checks : rows[c].status = "CANCELLED") => batch = "CANCELLED"

\* A finalizer that counted before the cancellation and commits after it does
\* not overwrite it, nor do a late createBatch, markBatchRunning or retry
\* (the CASE in recomputeBatchAggregates).
CancelledIsFinal == [][batch = "CANCELLED" => batch' = "CANCELLED"]_batch

\* The result columns of a finished check are those of its last attempt in
\* its current generation: a success or a permanent failure as that attempt
\* saw it; otherwise the transient failure of attempt number MaxAttempts
\* (persistInterimResult and finalizeExhaustedRetries together).
ResultIsLastAttempts ==
  \A c \in Checks :
    LET r == rows[c] IN
      /\ r.status = "SUCCESS" => r.result = [seen |-> "ok", attempt |-> r.attempt]
      /\ r.status = "FAILED" =>
           /\ r.result.attempt = r.attempt
           /\ \/ r.result.seen = "permanent"
              \/ r.result.seen \in Transient /\ r.attempt = MaxAttempts

\* A finished row is never written again, by a superseded delivery, a late
\* interim result or a cancellation; only retryFailedUrls reopens a FAILED
\* one, in the next generation and with its result columns cleared.
FinishedRowsStay ==
  [][\A c \in Checks : Settled(rows[c].status) =>
       \/ rows'[c] = rows[c]
       \/ /\ rows[c].status = "FAILED" /\ rows'[c].status = "QUEUED"
          /\ rows'[c].gen = rows[c].gen + 1
          /\ rows'[c].result = NoResult]_rows

\* The queue never counts as done a job whose check has not been taken:
\* reconciliation would skip that row as long as the job is retained
\* (the claim's attempt guard, the reset in retryFailedUrls, jobIdFor).
QueuedIsNotDone ==
  \A c \in Queued : jobs[<<c, rows[c].gen>>].state # "completed"

\* Two requests for one check are never out at once, unless the queue took a
\* job away from a worker that was still running it (job ids deduplicate the
\* enqueue calls of the request and of every reconciliation pass).
NoDuplicateRequest ==
  faults["stall"] = 0 =>
    \A v, w \in Workers :
      /\ {execs[v].pc, execs[w].pc} \subseteq {"mark", "request"}
      /\ execs[v].check = execs[w].check
      => v = w

\* A check being processed has a job that will bring it back to a worker if
\* this one dies (README, "Queue reconciliation").
ProcessingIsCovered ==
  \A c \in Checks :
    rows[c].status = "PROCESSING" =>
      jobs[<<c, rows[c].gen>>].state \in {"waiting", "active"}

\* A check that waits for work has no job, which reconciliation repairs, or a
\* live one (reconcileStuckUrlChecks).
QueuedIsRecoverable ==
  \A c \in Queued :
    jobs[<<c, rows[c].gen>>].state \in {"none", "waiting", "active"}

\* Every check that waits or is being processed is eventually finished or
\* cancelled, through lost enqueue calls and a worker crash.
ChecksSettle ==
  \A c \in Checks : ~Settled(rows[c].status) ~> Settled(rows[c].status)

\* When the last check is finished, so is the batch (README, "State
\* machines": the terminal status is derived at every terminal check).
BatchFollowsChecks ==
  /\ \A c \in Checks : Settled(rows[c].status)
  /\ \A c \in Checks : ~Locked(c)
  => batch \notin {"PENDING", "RUNNING"}

\* The rows go through the documented lifecycle of a check and no other.
Lifecycle ==
  INSTANCE CheckLifecycle WITH
    status <- [c \in Checks |-> rows[c].status],
    generation <- [c \in Checks |-> rows[c].gen],
    attempt <- [c \in Checks |-> rows[c].attempt],
    cancelled <- (batch = "CANCELLED")

\* Rows, retries, cancellation and claims together implement CheckLifecycle.
ImplementsLifecycle == Lifecycle!Spec

=============================================================================
