--------------------------- MODULE CheckLifecycle ---------------------------
(***************************************************************************)
(* What the system promises for the URL checks of one batch, without the   *)
(* queue, the workers, the leases or the database transactions:            *)
(*                                                                         *)
(*    QUEUED -> PROCESSING -> SUCCESS | FAILED      one run of a check     *)
(*    QUEUED -> CANCELLED                           cancelBatch            *)
(*    FAILED -> QUEUED in the next run generation   retryFailedUrls        *)
(*                                                                         *)
(* plus the two facts the documents add: the attempts of one generation    *)
(* only go up and end at MaxAttempts, and once the batch is cancelled no   *)
(* check waits for work or is given new work.  UrlCheckExecution is shown  *)
(* to implement this specification.                                        *)
(***************************************************************************)
EXTENDS Naturals

CONSTANTS
  Checks,          \* the url_checks rows of the batch
  MaxAttempts,     \* attempts per run: `attempts: 4` in queue.ts
  MaxGeneration    \* bound on the number of retry-failed calls

VARIABLES
  status,          \* check -> url_check_status
  generation,      \* check -> run_generation
  attempt,         \* check -> attempt of the current generation
  cancelled        \* the batch was cancelled

vars == <<status, generation, attempt, cancelled>>

CheckStatus == {"QUEUED", "PROCESSING", "SUCCESS", "FAILED", "CANCELLED"}

\* The columns keep to the schema's types, and attempts to their maximum.
TypeOK ==
  /\ status \in [Checks -> CheckStatus]
  /\ generation \in [Checks -> 0..MaxGeneration]
  /\ attempt \in [Checks -> 0..MaxAttempts]
  /\ cancelled \in BOOLEAN

\* The committed result of the transaction in createBatch.
Init ==
  /\ status = [c \in Checks |-> "QUEUED"]
  /\ generation = [c \in Checks |-> 0]
  /\ attempt = [c \in Checks |-> 0]
  /\ cancelled = FALSE

\* A delivery takes the check for attempt a; a PROCESSING check is taken
\* again by a later attempt or, after a crash, by the same one.
Start(c, a) ==
  /\ \/ status[c] = "QUEUED" /\ attempt[c] < a
     \/ status[c] = "PROCESSING" /\ attempt[c] <= a
  /\ status' = [status EXCEPT ![c] = "PROCESSING"]
  /\ attempt' = [attempt EXCEPT ![c] = a]
  /\ UNCHANGED <<generation, cancelled>>

Finish(c, verdict) ==
  /\ status[c] = "PROCESSING"
  /\ status' = [status EXCEPT ![c] = verdict]
  /\ UNCHANGED <<generation, attempt, cancelled>>

Cancel ==
  /\ ~cancelled
  /\ cancelled' = TRUE
  /\ status' = [c \in Checks |->
                  IF status[c] = "QUEUED" THEN "CANCELLED" ELSE status[c]]
  /\ UNCHANGED <<generation, attempt>>

RetryFailed ==
  LET failed == {c \in Checks : status[c] = "FAILED"} IN
    /\ ~cancelled
    /\ failed # {}
    /\ \A c \in failed : generation[c] < MaxGeneration
    /\ status' = [c \in Checks |-> IF c \in failed THEN "QUEUED" ELSE status[c]]
    /\ attempt' = [c \in Checks |-> IF c \in failed THEN 0 ELSE attempt[c]]
    /\ generation' = [c \in Checks |->
                        IF c \in failed THEN generation[c] + 1 ELSE generation[c]]
    /\ UNCHANGED cancelled

Next ==
  \/ Cancel
  \/ RetryFailed
  \/ \E c \in Checks :
       \/ \E a \in 1..MaxAttempts : Start(c, a)
       \/ \E verdict \in {"SUCCESS", "FAILED"} : Finish(c, verdict)

Spec == Init /\ [][Next]_vars

=============================================================================
