----------------------------- MODULE UrlJourney -----------------------------
(***************************************************************************)
(* From what a user submits to the verdict on one of its URLs: a batch is  *)
(* committed by Submission, and the normal form in one of its rows is the  *)
(* payload HealthCheck is called with.  Queue, claim and limiters between  *)
(* the two do not look at the URL (UrlCheckExecution has them).            *)
(***************************************************************************)
EXTENDS Submission, HealthCheck

vars == <<page, calls, batches, mishaps,
          step, target, hop, time, since, aborted, resolved, received, result>>

Init == SubmissionInit /\ HealthInit

Submit == step = "idle" /\ SubmissionNext /\ UNCHANGED healthVars

\* The worker knows the payload of its job and nothing else of the submission,
\* which is forgotten here.
Perform ==
  /\ \A i \in DOMAIN calls : calls[i].stage = "done"
  /\ \E k \in DOMAIN batches : \E n \in DOMAIN batches[k].rows : Start(batches[k].rows[n])
  /\ page' = "left" /\ calls' = <<>> /\ batches' = <<>> /\ mishaps' = 0

Check == HealthNext /\ UNCHANGED submissionVars

Next == Submit \/ Perform \/ Check

Spec == Init /\ [][Next]_vars /\ HealthFairness

=============================================================================
