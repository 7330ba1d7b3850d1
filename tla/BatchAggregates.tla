-------------------------- MODULE BatchAggregates --------------------------
(***************************************************************************)
(* The row of one batch: its status and its counters, which every          *)
(* finalizer recomputes from the url_checks rows inside its transaction.   *)
(*                                                                         *)
(* A finalizer is named by its check, whose row it holds locked.  It takes *)
(* two steps: its own row UPDATE with the SELECT of the counts, which sees *)
(* the committed rows and its own; and the UPDATE of the batch with the    *)
(* COMMIT.  Other transactions commit in between.                          *)
(*                                                                         *)
(* The counters are kept as what they were counted from: `counted` is the  *)
(* snapshot behind completed_urls, successful_urls and failed_urls.        *)
(* `overlap` is history: it remembers whether two finalizers were ever     *)
(* open at once.                                                           *)
(***************************************************************************)
EXTENDS Naturals, FiniteSets

CONSTANTS
  Checks,     \* url_checks rows of the batch
  MaxRetries  \* bound: retry-failed calls

\* createBatch refuses a submission without a valid URL.
ASSUME ChecksAssumption == IsFiniteSet(Checks) /\ Checks # {}
ASSUME BoundsAssumption == MaxRetries \in Nat

VARIABLES
  status,   \* check -> its committed status
  batch,    \* batches.status
  counted,  \* the snapshot the batch's counters were counted from
  open,     \* finalizers that have counted and not committed
  seen,     \* check -> the snapshot its open finalizer counted
  retries,  \* retry-failed calls so far
  overlap   \* two finalizers have been open at once

vars == <<status, batch, counted, open, seen, retries, overlap>>

CheckStatus == {"QUEUED", "PROCESSING", "SUCCESS", "FAILED", "CANCELLED"}
Terminal == {"COMPLETED", "PARTIALLY_FAILED", "FAILED"}
BatchStatus == {"PENDING", "RUNNING", "CANCELLED"} \cup Terminal
Snapshots == [Checks -> CheckStatus]

\* The status columns keep to their enum types (an undecided finalizer leaves
\* the batch as it was), and whatever was counted is a snapshot of all checks.
TypeOK ==
  /\ status \in Snapshots
  /\ batch \in BatchStatus
  /\ counted \in Snapshots
  /\ open \subseteq Checks
  /\ seen \in [Checks -> Snapshots]
  /\ retries \in 0..MaxRetries
  /\ overlap \in BOOLEAN

-----------------------------------------------------------------------------
(* The aggregate *)

Settled(s) == s \in {"SUCCESS", "FAILED", "CANCELLED"}
With(view, s) == {c \in Checks : view[c] = s}

\* completed_urls, as the SELECT counts it.
Completed(view) == Cardinality({c \in Checks : Settled(view[c])})

AllSettled(view) == \A c \in Checks : Settled(view[c])

\* Mutant of Verdict: a finalizer that finds no failure does not wait for
\* the checks that are still running.
VerdictEager(view) ==
  IF With(view, "FAILED") \cup With(view, "QUEUED") = {} THEN "COMPLETED"
  ELSE IF ~AllSettled(view) THEN "none"
  ELSE IF With(view, "SUCCESS") = {} THEN "FAILED" ELSE "PARTIALLY_FAILED"

Verdict(view) ==
  IF ~AllSettled(view) THEN "none"
  ELSE IF With(view, "FAILED") = {} THEN "COMPLETED"
  ELSE IF With(view, "SUCCESS") = {} THEN "FAILED" ELSE "PARTIALLY_FAILED"

\* Mutant of BatchAfter: a verdict that is NULL is written, too.
BatchAfterNull(view) == IF batch = "CANCELLED" THEN batch ELSE Verdict(view)

\* The CASE in the UPDATE of the batch.
BatchAfter(view) ==
  IF batch = "CANCELLED" \/ Verdict(view) = "none" THEN batch ELSE Verdict(view)

-----------------------------------------------------------------------------
Unwritten == [c \in Checks |-> "QUEUED"]

Init ==
  /\ status = Unwritten
  /\ batch = "PENDING"
  /\ counted = Unwritten
  /\ open = {}
  /\ seen = [c \in Checks |-> Unwritten]
  /\ retries = 0 /\ overlap = FALSE

Claim(c) ==
  /\ status[c] = "QUEUED"
  /\ status' = [status EXCEPT ![c] = "PROCESSING"]
  /\ UNCHANGED <<batch, counted, open, seen, retries, overlap>>

\* Mutant of MarkRunning: the WHERE clause does not look at the status.
MarkRunningAlways ==
  /\ batch' = "RUNNING"
  /\ UNCHANGED <<status, counted, open, seen, retries, overlap>>

\* The end of createBatch, or a worker after its claim.
MarkRunning ==
  /\ batch = "PENDING"
  /\ batch' = "RUNNING"
  /\ UNCHANGED <<status, counted, open, seen, retries, overlap>>

\* BEGIN, the conditional UPDATE of the check, the SELECT of the counts.  The
\* same delivery has run markBatchRunning before.
Count(c, verdict) ==
  /\ status[c] = "PROCESSING"
  /\ batch # "PENDING"
  /\ c \notin open
  /\ overlap' = (overlap \/ open # {})
  /\ open' = open \cup {c}
  /\ seen' = [seen EXCEPT ![c] = [status EXCEPT ![c] = verdict]]
  /\ UNCHANGED <<status, batch, counted, retries>>

Close(c) ==
  /\ open' = open \ {c}
  /\ seen' = [seen EXCEPT ![c] = Unwritten]

\* The UPDATE of the batch and the COMMIT.
Commit(c) ==
  /\ c \in open
  /\ status' = [status EXCEPT ![c] = seen[c][c]]
  /\ batch' = BatchAfter(seen[c])
  /\ counted' = seen[c]
  /\ Close(c)
  /\ UNCHANGED <<retries, overlap>>

\* Mutant of Rollback: the batch is updated on another connection of the
\* pool, outside the transaction.
RollbackRowOnly(c) ==
  /\ c \in open
  /\ batch' = BatchAfter(seen[c])
  /\ counted' = seen[c]
  /\ Close(c)
  /\ UNCHANGED <<status, retries, overlap>>

\* A query fails or the worker dies: the check stays PROCESSING.
Rollback(c) ==
  /\ c \in open
  /\ Close(c)
  /\ UNCHANGED <<status, batch, counted, retries, overlap>>

CancelBatch ==
  /\ batch \in {"PENDING", "RUNNING"}
  /\ batch' = "CANCELLED"
  /\ status' = [c \in Checks |->
                  IF status[c] = "QUEUED" THEN "CANCELLED" ELSE status[c]]
  /\ UNCHANGED <<counted, open, seen, retries, overlap>>

\* Mutant of MayRetry: a batch without failed checks is set RUNNING, too.
MayRetryNothing == batch # "CANCELLED"

\* Otherwise the call reports the batch as it is, or refuses.
MayRetry == batch # "CANCELLED" /\ With(status, "FAILED") # {}

RetryFailedUrls ==
  /\ retries < MaxRetries
  /\ MayRetry
  /\ retries' = retries + 1
  /\ batch' = "RUNNING"
  /\ status' = [c \in Checks |->
                  IF status[c] = "FAILED" THEN "QUEUED" ELSE status[c]]
  /\ UNCHANGED <<counted, open, seen, overlap>>

Next ==
  \/ MarkRunning \/ CancelBatch \/ RetryFailedUrls
  \/ \E c \in Checks :
       \/ Claim(c) \/ Commit(c) \/ Rollback(c)
       \/ \E verdict \in {"SUCCESS", "FAILED"} : Count(c, verdict)

Spec == Init /\ [][Next]_vars

-----------------------------------------------------------------------------
(* Properties *)

\* As long as nothing is retried, a finished batch's status and counters are
\* those of its checks, although finalizers overlap and each misses the
\* others' rows: the one that finds every check settled found no other open
\* (recomputeBatchAggregates).
FinishedBatchIsExact ==
  retries = 0 /\ batch \in Terminal =>
    counted = status /\ batch = Verdict(status)

\* successful_urls never counts a check that did not succeed, whatever was
\* rolled back, cancelled or retried since (recomputeBatchAggregates runs
\* on the client of the row's transaction).
SuccessesAreReal == With(counted, "SUCCESS") \subseteq With(status, "SUCCESS")

\* As long as finalizers do not overlap, a batch whose checks are settled is
\* finished or cancelled once no finalizer is open, through rollbacks and
\* retries (README, "State machines": recomputed every time a check reaches a
\* terminal state).
BatchFollowsChecks ==
  ~overlap /\ AllSettled(status) /\ open = {} =>
    batch \in Terminal \cup {"CANCELLED"}

\* A finished batch is reopened only together with a failed check of it, and
\* a cancelled one never (the comment in retryFailedUrls on stuck batches).
ReopenedWithItsChecks ==
  [][/\ batch \in Terminal \cup {"CANCELLED"}
     /\ batch' \in {"PENDING", "RUNNING"}
     => /\ batch # "CANCELLED"
        /\ \E c \in Checks : status[c] = "FAILED" /\ status'[c] = "QUEUED"]_vars

\* completedUrls is the number of settled checks (types.ts, BatchSummary).  It is
\* not: cancellation and retry do not count (README, Divergences).
CompletedCountsSettled == open = {} => Completed(counted) = Completed(status)

=============================================================================
