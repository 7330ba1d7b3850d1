----------------------- MODULE BatchAggregatesProofs -----------------------
(***************************************************************************)
(* What BatchAggregates guarantees for every number of checks: counters    *)
(* never claim a success that is not there; until the first retry a        *)
(* finished batch is exact, however finalizers overlap; and until the      *)
(* first overlap the batch finishes with its checks.                       *)
(***************************************************************************)
EXTENDS BatchAggregates, TLAPS

\* The verdict is a batch status or none, and is one only if all is settled.
LEMMA VerdictType ==
  ASSUME NEW view \in Snapshots
  PROVE  /\ Verdict(view) \in Terminal \cup {"none"}
         /\ Verdict(view) \in Terminal <=> AllSettled(view)
BY DEF Verdict, Terminal

\* A batch status after a commit: unchanged, or the verdict of the snapshot.
LEMMA BatchAfterType ==
  ASSUME TypeOK, NEW view \in Snapshots
  PROVE  /\ BatchAfter(view) \in BatchStatus
         /\ \/ BatchAfter(view) = batch
            \/ BatchAfter(view) = Verdict(view) /\ AllSettled(view)
         /\ AllSettled(view) => BatchAfter(view) \in Terminal \cup {"CANCELLED"}
BY VerdictType DEF BatchAfter, TypeOK, BatchStatus, Terminal

\* The initial state is well typed.
LEMMA InitType == Init => TypeOK
<1> SUFFICES ASSUME Init PROVE TypeOK
  OBVIOUS
<1>1. Unwritten \in Snapshots
  BY DEF Unwritten, Snapshots, CheckStatus
<1>2. retries \in 0..MaxRetries
  BY BoundsAssumption DEF Init
<1>3. overlap \in BOOLEAN
  BY DEF Init
<1> QED BY <1>1, <1>2, <1>3 DEF Init, TypeOK, BatchStatus

\* Closing a finalizer keeps the types of the transactions.
LEMMA CloseType ==
  ASSUME TypeOK, NEW c \in Checks, Close(c)
  PROVE  open' \subseteq Checks /\ seen' \in [Checks -> Snapshots]
BY DEF TypeOK, Close, Unwritten, Snapshots, CheckStatus

\* Every step keeps the types.
LEMMA NextType == TypeOK /\ [Next]_vars => TypeOK'
<1> SUFFICES ASSUME TypeOK, [Next]_vars PROVE TypeOK'
  OBVIOUS
<1>1. CASE UNCHANGED vars
  BY <1>1 DEF vars, TypeOK
<1>2. CASE MarkRunning
  BY <1>2 DEF MarkRunning, TypeOK, BatchStatus
<1>3. CASE CancelBatch
  BY <1>3 DEF CancelBatch, TypeOK, BatchStatus, Snapshots, CheckStatus
<1>4. CASE RetryFailedUrls
  BY <1>4, BoundsAssumption
     DEF RetryFailedUrls, TypeOK, BatchStatus, Snapshots, CheckStatus
<1>5. ASSUME NEW c \in Checks, Claim(c) PROVE TypeOK'
  BY <1>5 DEF Claim, TypeOK, Snapshots, CheckStatus
<1>6. ASSUME NEW c \in Checks, Commit(c) PROVE TypeOK'
  <2>1. seen[c] \in Snapshots /\ seen[c][c] \in CheckStatus
    BY DEF TypeOK, Snapshots
  <2>2. status' \in Snapshots
    BY <1>6, <2>1 DEF Commit, TypeOK, Snapshots
  <2>3. batch' \in BatchStatus
    BY <1>6, <2>1, BatchAfterType DEF Commit
  <2> QED BY <1>6, <2>1, <2>2, <2>3, CloseType DEF Commit, TypeOK
<1>7. ASSUME NEW c \in Checks, Rollback(c) PROVE TypeOK'
  BY <1>7, CloseType DEF Rollback, TypeOK
<1>8. ASSUME NEW c \in Checks, NEW verdict \in {"SUCCESS", "FAILED"},
             Count(c, verdict)
      PROVE  TypeOK'
  BY <1>8 DEF Count, TypeOK, Snapshots, CheckStatus
<1> QED BY <1>1, <1>2, <1>3, <1>4, <1>5, <1>6, <1>7, <1>8 DEF Next

\* Type correctness.
THEOREM TypeCorrect == Spec => []TypeOK
BY InitType, NextType, PTL DEF Spec

-----------------------------------------------------------------------------
(* Successes never go away *)

\* An open finalizer's check is PROCESSING, so nobody else moves it; its
\* snapshot marks it as the finalizer's verdict says.
OpenIsProcessing ==
  \A c \in open : status[c] = "PROCESSING" /\ seen[c][c] \in {"SUCCESS", "FAILED"}

\* The successes in an open snapshot are real but for the finalizer's own.
SeenSuccesses ==
  \A c \in open : \A d \in Checks :
    seen[c][d] = "SUCCESS" => d = c \/ status[d] = "SUCCESS"

SInv == TypeOK /\ OpenIsProcessing /\ SeenSuccesses /\ SuccessesAreReal

\* No check of a new batch has succeeded.
LEMMA InitSInv == Init => SInv
BY InitType DEF Init, SInv, OpenIsProcessing, SeenSuccesses, SuccessesAreReal,
   With, Unwritten

\* Every step keeps the successes where they are counted.
LEMMA NextSInv == SInv /\ [Next]_vars => SInv'
<1> SUFFICES ASSUME SInv, [Next]_vars PROVE SInv'
  OBVIOUS
<1> USE DEF SInv
<1>0. TypeOK'
  BY NextType
<1>1. CASE UNCHANGED vars
  BY <1>0, <1>1 DEF vars, OpenIsProcessing, SeenSuccesses, SuccessesAreReal, With
<1>2. CASE MarkRunning
  BY <1>0, <1>2
     DEF MarkRunning, OpenIsProcessing, SeenSuccesses, SuccessesAreReal, With
<1>3. CASE CancelBatch
  BY <1>0, <1>3
     DEF CancelBatch, TypeOK, OpenIsProcessing, SeenSuccesses, SuccessesAreReal, With
<1>4. CASE RetryFailedUrls
  BY <1>0, <1>4 DEF RetryFailedUrls, TypeOK, OpenIsProcessing, SeenSuccesses,
                    SuccessesAreReal, With
<1>5. ASSUME NEW c \in Checks, Claim(c) PROVE SInv'
  BY <1>0, <1>5
     DEF Claim, TypeOK, Snapshots, OpenIsProcessing, SeenSuccesses, SuccessesAreReal, With
<1>6. ASSUME NEW c \in Checks, Commit(c) PROVE SInv'
  <2>1. \A d \in Checks : status'[d] = IF d = c THEN seen[c][c] ELSE status[d]
    BY <1>6 DEF Commit, TypeOK, Snapshots
  <2>2. \A e \in open' : e \in open /\ e # c /\ seen'[e] = seen[e]
    BY <1>6 DEF Commit, Close, TypeOK
  <2>3. OpenIsProcessing'
    BY <2>1, <2>2 DEF OpenIsProcessing, TypeOK
  <2>4. SeenSuccesses'
    BY <1>6, <2>1, <2>2 DEF Commit, OpenIsProcessing, SeenSuccesses, TypeOK
  <2>5. SuccessesAreReal'
    BY <1>6, <2>1 DEF Commit, SeenSuccesses, SuccessesAreReal, With
  <2> QED BY <1>0, <2>3, <2>4, <2>5
<1>7. ASSUME NEW c \in Checks, Rollback(c) PROVE SInv'
  BY <1>0, <1>7 DEF Rollback, Close, TypeOK, OpenIsProcessing, SeenSuccesses,
                    SuccessesAreReal, With
<1>8. ASSUME NEW c \in Checks, NEW verdict \in {"SUCCESS", "FAILED"},
             Count(c, verdict)
      PROVE  SInv'
  BY <1>0, <1>8 DEF Count, TypeOK, Snapshots, OpenIsProcessing, SeenSuccesses,
                    SuccessesAreReal, With
<1> QED BY <1>1, <1>2, <1>3, <1>4, <1>5, <1>6, <1>7, <1>8 DEF Next

\* successful_urls never counts a success that is not there: the row and the
\* counters are written in one transaction, and nothing reopens a success.
THEOREM SuccessesStay == Spec => []SuccessesAreReal
<1>1. SInv => SuccessesAreReal
  BY DEF SInv
<1> QED BY <1>1, InitSInv, NextSInv, PTL DEF Spec

-----------------------------------------------------------------------------
(* Until the first retry a finished batch is exact *)

\* Nothing settled is ever unsettled, so every snapshot agrees with the rows
\* it saw settled, and the counted one was taken when they were.
SnapshotsAgree ==
  /\ \A c \in open : \A d \in Checks :
       Settled(seen[c][d]) => d = c \/ status[d] = seen[c][d]
  /\ \A d \in Checks : Settled(counted[d]) => status[d] = counted[d]

FinishedIsSettled ==
  batch \in Terminal => AllSettled(counted) /\ batch = Verdict(counted)

Exact == TypeOK /\ OpenIsProcessing /\ SnapshotsAgree /\ FinishedIsSettled

\* A new batch is not finished and has settled nothing.
LEMMA InitExact == Init => Exact
BY InitType DEF Init, Exact, OpenIsProcessing, SnapshotsAgree, FinishedIsSettled,
   Unwritten, Settled, Terminal

\* A finished batch is exact and has no open finalizer.
LEMMA ExactWhenFinished ==
  ASSUME Exact
  PROVE  /\ batch \in Terminal => counted = status /\ batch = Verdict(status)
         /\ batch \in Terminal => open = {}
<1> SUFFICES ASSUME batch \in Terminal
             PROVE  counted = status /\ batch = Verdict(status) /\ open = {}
  OBVIOUS
<1>1. \A d \in Checks : status[d] = counted[d] /\ Settled(status[d])
  BY DEF Exact, FinishedIsSettled, SnapshotsAgree, AllSettled
<1>2. counted = status
  BY <1>1 DEF Exact, TypeOK, Snapshots
<1>3. open = {}
  BY <1>1 DEF Exact, TypeOK, OpenIsProcessing, Settled
<1> QED BY <1>2, <1>3 DEF Exact, FinishedIsSettled

\* Every step but a retry keeps Exact.
LEMMA ExactStep ==
  ASSUME Exact, [Next]_vars, ~RetryFailedUrls
  PROVE  Exact'
<1>0. TypeOK /\ TypeOK'
  BY NextType DEF Exact
<1>1. CASE UNCHANGED vars
  BY <1>0, <1>1 DEF vars, Exact, OpenIsProcessing, SnapshotsAgree, FinishedIsSettled,
                    AllSettled, Verdict, With
<1>2. CASE MarkRunning
  BY <1>0, <1>2
     DEF MarkRunning, Exact, OpenIsProcessing, SnapshotsAgree, FinishedIsSettled, Terminal
<1>3. CASE CancelBatch
  BY <1>0, <1>3 DEF CancelBatch, Exact, TypeOK, OpenIsProcessing, SnapshotsAgree,
                    FinishedIsSettled, Settled, Terminal
<1>5. ASSUME NEW c \in Checks, Claim(c) PROVE Exact'
  <2>1. OpenIsProcessing' /\ SnapshotsAgree'
    BY <1>5 DEF Claim, Exact, TypeOK, Snapshots, OpenIsProcessing, SnapshotsAgree, Settled
  <2>2. FinishedIsSettled'
    BY <1>5 DEF Claim, Exact, FinishedIsSettled, AllSettled, Verdict, With
  <2> QED BY <1>0, <2>1, <2>2 DEF Exact
<1>6. ASSUME NEW c \in Checks, Commit(c) PROVE Exact'
  <2>1. \A d \in Checks : status'[d] = IF d = c THEN seen[c][c] ELSE status[d]
    BY <1>0, <1>6 DEF Commit, TypeOK, Snapshots
  <2>2. \A e \in open' : e \in open /\ e # c /\ seen'[e] = seen[e]
    BY <1>0, <1>6 DEF Commit, Close, TypeOK
  <2>3. OpenIsProcessing'
    BY <1>0, <2>1, <2>2 DEF Exact, OpenIsProcessing, TypeOK
  <2>4. \A e \in open' : seen[e][c] = "PROCESSING" \/ ~Settled(seen[e][c])
    BY <1>0, <1>6, <2>2
       DEF Commit, Exact, OpenIsProcessing, SnapshotsAgree, Settled, TypeOK
  <2>5. SnapshotsAgree'
    BY <1>6, <2>1, <2>2, <2>4 DEF Commit, Exact, SnapshotsAgree, Settled
  <2>6. batch \notin Terminal
    BY <1>6, ExactWhenFinished DEF Commit
  <2>7. seen[c] \in Snapshots
    BY <1>0 DEF TypeOK
  <2>8. FinishedIsSettled'
    BY <1>0, <1>6, <2>6, <2>7, BatchAfterType
       DEF Commit, FinishedIsSettled, AllSettled, Verdict, With
  <2> QED BY <1>0, <2>3, <2>5, <2>8 DEF Exact
<1>7. ASSUME NEW c \in Checks, Rollback(c) PROVE Exact'
  BY <1>0, <1>7 DEF Rollback, Close, Exact, TypeOK, OpenIsProcessing, SnapshotsAgree,
                    FinishedIsSettled, AllSettled, Verdict, With
<1>8. ASSUME NEW c \in Checks, NEW verdict \in {"SUCCESS", "FAILED"},
             Count(c, verdict)
      PROVE  Exact'
  <2>1. \A e \in open' : e = c \/ (e \in open /\ seen'[e] = seen[e])
    BY <1>0, <1>8 DEF Count, TypeOK
  <2>2. \A d \in Checks : seen'[c][d] = IF d = c THEN verdict ELSE status[d]
    BY <1>0, <1>8 DEF Count, TypeOK, Snapshots
  <2>3. OpenIsProcessing' /\ SnapshotsAgree'
    BY <1>0, <1>8, <2>1, <2>2 DEF Count, Exact, OpenIsProcessing, SnapshotsAgree, TypeOK
  <2>4. FinishedIsSettled'
    BY <1>8 DEF Count, Exact, FinishedIsSettled, AllSettled, Verdict, With
  <2> QED BY <1>0, <2>3, <2>4 DEF Exact
<1> QED BY <1>1, <1>2, <1>3, <1>5, <1>6, <1>7, <1>8 DEF Next

EInv == TypeOK /\ (retries = 0 => Exact)

\* Every step keeps EInv: a retry ends the period it speaks of.
LEMMA NextEInv == EInv /\ [Next]_vars => EInv'
<1> SUFFICES ASSUME EInv, [Next]_vars PROVE EInv'
  OBVIOUS
<1>1. TypeOK /\ TypeOK'
  BY NextType DEF EInv
<1>2. ASSUME retries' = 0 PROVE retries = 0 /\ ~RetryFailedUrls
  <2>1. retries \in Nat /\ ~RetryFailedUrls
    BY <1>1, <1>2, BoundsAssumption DEF TypeOK, RetryFailedUrls
  <2>2. retries' = retries
    BY <2>1 DEF Next, vars, MarkRunning, CancelBatch, Claim, Commit, Rollback, Count
  <2> QED BY <1>2, <2>1, <2>2
<1> QED BY <1>1, <1>2, ExactStep DEF EInv

\* As long as nothing is retried, a finished batch is exact: the finalizer that
\* finds every check settled is the last one open.
THEOREM FinishedIsExact == Spec => []FinishedBatchIsExact
<1>1. EInv => FinishedBatchIsExact
  BY ExactWhenFinished DEF EInv, FinishedBatchIsExact
<1>2. Init => EInv
  BY InitType, InitExact DEF EInv
<1> QED BY <1>1, <1>2, NextEInv, PTL DEF Spec

-----------------------------------------------------------------------------
(* Until the first overlap the batch finishes with its checks *)

\* What settled since a lone finalizer counted was settled by a cancellation.
LoneSnapshot ==
  \A c \in open : \A d \in Checks :
    Settled(status[d]) /\ batch # "CANCELLED" => Settled(seen[c][d])

Alone == \A c, d \in open : c = d

SettledIsFinished ==
  AllSettled(status) /\ open = {} => batch \in Terminal \cup {"CANCELLED"}

Lone == TypeOK /\ OpenIsProcessing /\ Alone /\ LoneSnapshot /\ SettledIsFinished

\* A new batch has a check that waits.
LEMMA InitLone == Init => Lone
BY InitType, ChecksAssumption
   DEF Init, Lone, OpenIsProcessing, Alone, LoneSnapshot, SettledIsFinished,
       AllSettled, Settled, Unwritten

\* Every step that makes no finalizers overlap keeps Lone.
LEMMA LoneStep ==
  ASSUME Lone, [Next]_vars, ~overlap'
  PROVE  Lone'
<1>0. TypeOK /\ TypeOK'
  BY NextType DEF Lone
<1>1. CASE UNCHANGED vars
  BY <1>0, <1>1 DEF vars, Lone, OpenIsProcessing, Alone, LoneSnapshot,
                    SettledIsFinished, AllSettled
<1>2. CASE MarkRunning
  BY <1>0, <1>2 DEF MarkRunning, Lone, OpenIsProcessing, Alone, LoneSnapshot,
                    SettledIsFinished, AllSettled, Terminal
<1>3. CASE CancelBatch
  BY <1>0, <1>3 DEF CancelBatch, Lone, TypeOK, OpenIsProcessing, Alone, LoneSnapshot,
                    SettledIsFinished
<1>4. CASE RetryFailedUrls
  <2>1. \E d \in Checks : status'[d] = "QUEUED"
    BY <1>4 DEF RetryFailedUrls, MayRetry, With
  <2>2. \A d \in Checks : Settled(status'[d]) => Settled(status[d])
    BY <1>4 DEF RetryFailedUrls, Settled
  <2>3. SettledIsFinished'
    BY <2>1 DEF SettledIsFinished, AllSettled, Settled
  <2> QED BY <1>0, <1>4, <2>2, <2>3 DEF RetryFailedUrls, MayRetry, Lone, TypeOK,
             OpenIsProcessing, Alone, LoneSnapshot
<1>5. ASSUME NEW c \in Checks, Claim(c) PROVE Lone'
  <2>1. status'[c] = "PROCESSING" /\ \A d \in Checks \ {c} : status'[d] = status[d]
    BY <1>0, <1>5 DEF Claim, TypeOK, Snapshots
  <2>2. OpenIsProcessing' /\ Alone' /\ LoneSnapshot'
    BY <1>0, <1>5, <2>1
       DEF Claim, Lone, TypeOK, OpenIsProcessing, Alone, LoneSnapshot, Settled
  <2>3. SettledIsFinished'
    BY <2>1 DEF SettledIsFinished, AllSettled, Settled
  <2> QED BY <1>0, <2>2, <2>3 DEF Lone
<1>6. ASSUME NEW c \in Checks, Commit(c) PROVE Lone'
  <2>1. open' = {}
    BY <1>6 DEF Commit, Close, Lone, Alone
  <2>2. \A d \in Checks : status'[d] = IF d = c THEN seen[c][c] ELSE status[d]
    BY <1>0, <1>6 DEF Commit, TypeOK, Snapshots
  <2>3. seen[c] \in Snapshots
    BY <1>0 DEF TypeOK
  <2>4. CASE batch = "CANCELLED"
    BY <1>0, <1>6, <2>1, <2>4
       DEF Commit, BatchAfter, Lone, OpenIsProcessing, Alone, LoneSnapshot,
           SettledIsFinished
  <2>5. CASE batch # "CANCELLED"
    <3>1. AllSettled(status)' => AllSettled(seen[c])
      BY <1>6, <2>2, <2>5 DEF Commit, Lone, LoneSnapshot, AllSettled
    <3>2. SettledIsFinished'
      BY <1>0, <1>6, <2>3, <3>1, BatchAfterType
         DEF Commit, SettledIsFinished, Terminal
    <3> QED BY <1>0, <2>1, <3>2 DEF Lone, OpenIsProcessing, Alone, LoneSnapshot
  <2> QED BY <2>4, <2>5
<1>7. ASSUME NEW c \in Checks, Rollback(c) PROVE Lone'
  <2>1. open' = {} /\ status[c] = "PROCESSING" /\ status' = status
    BY <1>7 DEF Rollback, Close, Lone, Alone, OpenIsProcessing
  <2>2. SettledIsFinished'
    BY <2>1 DEF SettledIsFinished, AllSettled, Settled
  <2> QED BY <1>0, <2>1, <2>2 DEF Lone, OpenIsProcessing, Alone, LoneSnapshot
<1>8. ASSUME NEW c \in Checks, NEW verdict \in {"SUCCESS", "FAILED"},
             Count(c, verdict)
      PROVE  Lone'
  <2>1. open' = {c}
    BY <1>8 DEF Count
  <2>2. \A d \in Checks : seen'[c][d] = IF d = c THEN verdict ELSE status[d]
    BY <1>0, <1>8 DEF Count, TypeOK, Snapshots
  <2> QED BY <1>0, <1>8, <2>1, <2>2 DEF Count, Lone, OpenIsProcessing, Alone,
             LoneSnapshot, SettledIsFinished, Settled
<1> QED BY <1>1, <1>2, <1>3, <1>4, <1>5, <1>6, <1>7, <1>8 DEF Next

LInv == TypeOK /\ (~overlap => Lone)

\* Every step keeps LInv: an overlap ends the period it speaks of.
LEMMA NextLInv == LInv /\ [Next]_vars => LInv'
<1> SUFFICES ASSUME LInv, [Next]_vars PROVE LInv'
  OBVIOUS
<1>1. TypeOK'
  BY NextType DEF LInv
<1>2. ~overlap' => ~overlap
  BY DEF Next, vars, MarkRunning, CancelBatch, RetryFailedUrls, Claim, Commit,
         Rollback, Count
<1> QED BY <1>1, <1>2, LoneStep DEF LInv

\* As long as finalizers do not overlap the batch is finished when its checks
\* are, through cancellations, retries and rolled back finalizers: it is only
\* the overlap of two finalizers that can leave it RUNNING.
THEOREM BatchFinishesWithChecks == Spec => []BatchFollowsChecks
<1>1. LInv => BatchFollowsChecks
  BY DEF LInv, Lone, SettledIsFinished, BatchFollowsChecks
<1>2. Init => LInv
  BY InitType, InitLone DEF LInv
<1> QED BY <1>1, <1>2, NextLInv, PTL DEF Spec

-----------------------------------------------------------------------------
(* Reopening *)

\* What one step may do to a finished batch.
Reopens ==
  batch \in Terminal \cup {"CANCELLED"} /\ batch' \in {"PENDING", "RUNNING"}

\* A step that reopens the batch retries one of its checks, and the batch was not cancelled.
LEMMA ReopenedStep ==
  ASSUME TypeOK, [Next]_vars, Reopens
  PROVE  /\ batch # "CANCELLED"
         /\ \E c \in Checks : status[c] = "FAILED" /\ status'[c] = "QUEUED"
<1>1. batch' # batch
  BY DEF Reopens, Terminal
<1>2. ~MarkRunning /\ ~CancelBatch
  BY DEF Reopens, Terminal, MarkRunning, CancelBatch
<1>3. ASSUME NEW c \in Checks PROVE ~Claim(c) /\ ~Rollback(c)
  BY <1>1 DEF Claim, Rollback
<1>4. ASSUME NEW c \in Checks, NEW verdict \in {"SUCCESS", "FAILED"}
      PROVE  ~Count(c, verdict)
  BY <1>1 DEF Count
<1>5. ASSUME NEW c \in Checks PROVE ~Commit(c)
  <2>1. seen[c] \in Snapshots
    BY DEF TypeOK
  <2>2. BatchAfter(seen[c]) = batch \/ BatchAfter(seen[c]) \in Terminal
    BY <2>1, BatchAfterType, VerdictType
  <2> QED BY <1>1, <2>2 DEF Commit, Reopens, Terminal
<1>6. RetryFailedUrls
  BY <1>1, <1>2, <1>3, <1>4, <1>5 DEF Next, vars
<1> QED BY <1>6 DEF RetryFailedUrls, MayRetry, With

\* Only retry-failed reopens a finished batch, together with a failed check of
\* it; neither a late finalizer nor a late worker that marks the batch running
\* does, and nothing reopens a cancelled one.
THEOREM OnlyRetryReopens == Spec => ReopenedWithItsChecks
<1>1. TypeOK /\ [Next]_vars =>
        (Reopens =>
           /\ batch # "CANCELLED"
           /\ \E c \in Checks : status[c] = "FAILED" /\ status'[c] = "QUEUED")
  BY ReopenedStep
<1>2. TypeOK /\ [Next]_vars =>
        [/\ batch \in Terminal \cup {"CANCELLED"}
         /\ batch' \in {"PENDING", "RUNNING"}
         => /\ batch # "CANCELLED"
            /\ \E c \in Checks : status[c] = "FAILED" /\ status'[c] = "QUEUED"]_vars
  BY <1>1 DEF Reopens
<1> QED BY <1>2, TypeCorrect, PTL DEF Spec, ReopenedWithItsChecks

=============================================================================
