------------------------ MODULE MCUrlCheckExecution ------------------------
(* Small instances of UrlCheckExecution for TLC. *)
EXTENDS UrlCheckExecution, TLC

\* How many faults of each kind one behaviour may have.
Budget(crash, stall, error, enqueue, evict) ==
  [kind \in FaultKinds |->
     CASE kind = "crash" -> crash
       [] kind = "stall" -> stall
       [] kind = "error" -> error
       [] kind = "enqueue" -> enqueue
       [] kind = "evict" -> evict]

NoFaults      == Budget(0, 0, 0, 0, 0)
OneError      == Budget(0, 0, 1, 0, 0)
StallAndError == Budget(0, 1, 1, 0, 0)
LossAndCrash  == Budget(1, 0, 0, 1, 1)

\* Bounds of the behaviours with two checks and two slots: faults of one kind,
OneFault == \A k, l \in FaultKinds : faults[k] > 0 /\ faults[l] > 0 => k = l

\* No delivery has reached the check, and only createBatch is to enqueue it.
Untouched(c) ==
  /\ rows[c].attempt = 0 /\ rows[c].gen = 0
  /\ <<"reconcile", c, 0>> \notin adds
  /\ \A j \in JobIds : j[1] = c => jobs[j].state = "none"

\* and either both slots work on one check while the other is untouched,
OneCheck == \E c \in Checks : \A d \in Checks \ {c} : Untouched(d)

\* or one slot works on both, is not suspected, and repeats no attempt.
OneSlot ==
  /\ faults["stall"] = 0
  /\ \E w \in Workers : \A v \in Workers \ {w} :
       ~Busy(v) /\ \A c \in Checks : rows[c].token # v
  /\ \A j \in JobIds : jobs[j].made = 0

OneCheckOrOneSlot == OneFault /\ (OneCheck \/ OneSlot)

Symmetry == Permutations(Checks) \cup Permutations(Workers)
=============================================================================
