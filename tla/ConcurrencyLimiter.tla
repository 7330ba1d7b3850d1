------------------------- MODULE ConcurrencyLimiter -------------------------
(***************************************************************************)
(* GlobalConcurrencyLimiter: the semaphore of MaxInFlight slots that the   *)
(* worker processes share as one Redis sorted set.                         *)
(*                                                                         *)
(* A caller is one call of withSlot, so it also stands for the random      *)
(* member that call adds.  It reads its own clock (Date.now()), sends the  *)
(* ACQUIRE_SCRIPT with that time, polls while it is refused, and then runs *)
(* the callback: it waits for a rate token, keeps a request open, stores   *)
(* the result, and releases.  Time passes in ticks, and only when no       *)
(* caller has used up the time its current step may take.                  *)
(***************************************************************************)
EXTENDS Naturals, FiniteSets

CONSTANTS
  Callers,        \* calls of withSlot, in all worker processes
  MaxInFlight,    \* GLOBAL_MAX_IN_FLIGHT
  Lease,          \* IN_FLIGHT_LEASE_MS
  KeySlack,       \* the key expires this long after the lease of the last slot
  RequestTimeout, \* REQUEST_TIMEOUT_MS and one lookup: HealthCheck, EndsInTime
  MaxDelay,       \* from reading the clock to the run of the script
  MaxTokenWait,   \* from the slot to the rate token
  MaxSkew,        \* difference between the clocks of two worker processes
  MaxLost,        \* bound: replies lost
  LastStart,      \* bound: no call starts later
  MaxTime         \* bound: time stops

ASSUME CallersAssumption == IsFiniteSet(Callers)
ASSUME SizesAssumption ==
  /\ MaxInFlight \in Nat /\ Lease \in Nat /\ KeySlack \in Nat
  /\ RequestTimeout \in Nat /\ MaxDelay \in Nat /\ MaxTokenWait \in Nat
  /\ MaxSkew \in Nat /\ MaxLost \in Nat
  /\ LastStart \in Nat /\ MaxTime \in Nat

VARIABLES
  now,      \* time
  skew,     \* caller -> how far its process's clock is ahead of `now`
  held,     \* members of the sorted set
  score,    \* caller -> the score it was added with
  expires,  \* when Redis drops the whole key
  pc,       \* caller -> where its call stands
  read,     \* caller -> when it last read its clock
  since,    \* caller -> when it got its slot, then when its request began
  lost      \* replies lost so far

vars == <<now, skew, held, score, expires, pc, read, since, lost>>

Calls == {"idle", "acquiring", "sleeping", "waiting", "requesting",
          "finishing", "done", "dead"}

\* Calls are at a known step, stamps are times of the run, and the set holds
\* nothing but callers.
TypeOK ==
  /\ now \in Nat
  /\ skew \in [Callers -> 0..MaxSkew]
  /\ held \subseteq Callers
  /\ score \in [Callers -> Nat]
  /\ expires \in Nat
  /\ pc \in [Callers -> Calls]
  /\ read \in [Callers -> Nat]
  /\ since \in [Callers -> Nat]
  /\ lost \in 0..MaxLost

-----------------------------------------------------------------------------
Requesting == {c \in Callers : pc[c] = "requesting"}

\* The set as a command finds it.
Present == IF now >= expires THEN {} ELSE held

Goto(c, to) == pc' = [pc EXCEPT ![c] = to]

Init ==
  /\ now = 0
  /\ skew \in [Callers -> 0..MaxSkew]
  /\ held = {}
  /\ score = [c \in Callers |-> 0]
  /\ expires = 0
  /\ pc = [c \in Callers |-> "idle"]
  /\ read = [c \in Callers |-> 0]
  /\ since = [c \in Callers |-> 0]
  /\ lost = 0

\* Date.now(), before the first attempt and after every pause of 50 ms.
ReadClock(c) ==
  /\ \/ pc[c] = "idle" /\ now <= LastStart
     \/ pc[c] = "sleeping"
  /\ read' = [read EXCEPT ![c] = now]
  /\ Goto(c, "acquiring")
  /\ UNCHANGED <<now, skew, held, score, expires, since, lost>>

Stamp(c) == read[c] + skew[c]

\* ZREMRANGEBYSCORE key -inf (now - leaseMs)
Kept(c) == {d \in Present : score[d] + Lease > Stamp(c)}

\* Mutants of HasRoom: one slot too many; the caller adds itself, then counts.
HasRoomForOneMore(c) == Cardinality(Kept(c)) <= MaxInFlight
HasRoomBesidesItself(c) == Cardinality(Kept(c) \cup {c}) < MaxInFlight

\* if count < maxInFlight
HasRoom(c) == Cardinality(Kept(c)) < MaxInFlight

\* The script is atomic: prune, count, then add or refuse.
Script(c) ==
  IF HasRoom(c)
  THEN /\ held' = Kept(c) \cup {c}
       /\ score' = [score EXCEPT ![c] = Stamp(c)]
       /\ expires' = now + Lease + KeySlack
  ELSE /\ held' = Kept(c)
       /\ UNCHANGED <<score, expires>>

Acquire(c) ==
  /\ pc[c] = "acquiring"
  /\ Script(c)
  /\ since' = IF HasRoom(c) THEN [since EXCEPT ![c] = now] ELSE since
  /\ Goto(c, IF HasRoom(c) THEN "waiting" ELSE "sleeping")
  /\ UNCHANGED <<now, skew, read, lost>>

\* The connection breaks before the reply, and the client sends the script
\* again: the member may count itself.
ReplyLost(c) ==
  /\ pc[c] = "acquiring" /\ lost < MaxLost
  /\ Script(c)
  /\ lost' = lost + 1
  /\ UNCHANGED <<now, skew, pc, read, since>>

\* rateLimiter.acquire() returns and performHealthCheck starts its timer.
StartRequest(c) ==
  /\ pc[c] = "waiting"
  /\ since' = [since EXCEPT ![c] = now]
  /\ Goto(c, "requesting")
  /\ UNCHANGED <<now, skew, held, score, expires, read, lost>>

\* The request ends, or rateLimiter.acquire() throws; what remains of the
\* callback stores the result and opens no request.
EndRequest(c) ==
  /\ pc[c] \in {"waiting", "requesting"}
  /\ Goto(c, "finishing")
  /\ UNCHANGED <<now, skew, held, score, expires, read, since, lost>>

\* Mutant of AfterRelease: the key is dropped, not the member.
AfterReleaseAll(c) == {}

\* ZREM key member
AfterRelease(c) == Present \ {c}

Release(c) ==
  /\ pc[c] = "finishing"
  /\ held' = AfterRelease(c)
  /\ Goto(c, "done")
  /\ UNCHANGED <<now, skew, score, expires, read, since, lost>>

\* ZREM fails, or the process dies: the slot stays until it is pruned.
ReleaseFails(c) ==
  /\ pc[c] = "finishing"
  /\ Goto(c, "done")
  /\ UNCHANGED <<now, skew, held, score, expires, read, since, lost>>

Die(c) ==
  /\ pc[c] \notin {"idle", "done", "dead"}
  /\ Goto(c, "dead")
  /\ UNCHANGED <<now, skew, held, score, expires, read, since, lost>>

\* Time may pass while caller c is where it is.  A refused caller polls again
\* within the next tick.
MayWait(c) ==
  /\ pc[c] = "acquiring"  => now < read[c] + MaxDelay
  /\ pc[c] = "sleeping"   => now <= read[c] + MaxDelay
  /\ pc[c] = "waiting"    => now < since[c] + MaxTokenWait
  /\ pc[c] = "requesting" => now < since[c] + RequestTimeout

Tick ==
  /\ now < MaxTime
  /\ \A c \in Callers : MayWait(c)
  /\ now' = now + 1
  /\ UNCHANGED <<skew, held, score, expires, pc, read, since, lost>>

Proceed(c) ==
  \/ pc[c] # "idle" /\ ReadClock(c)
  \/ Acquire(c) \/ StartRequest(c) \/ EndRequest(c) \/ Release(c)

Next ==
  \/ Tick
  \/ \E c \in Callers :
       \/ ReadClock(c) \/ Acquire(c) \/ ReplyLost(c)
       \/ StartRequest(c) \/ EndRequest(c)
       \/ Release(c) \/ ReleaseFails(c) \/ Die(c)

Spec == Init /\ [][Next]_vars

\* Time passes and live callers go on; nobody has to start or to die.
FairSpec == Spec /\ WF_vars(Tick) /\ \A c \in Callers : WF_vars(Proceed(c))

-----------------------------------------------------------------------------
\* Every step a slot outlives, with the skew between two clocks, ends before
\* the lease does.
LeaseCovers == MaxDelay + MaxTokenWait + RequestTimeout + MaxSkew < Lease

\* At most MaxInFlight requests are open at any moment in all the worker
\* processes together, whoever dies or fails to release (the class comment
\* of concurrencyLimiter.ts).
InFlightBounded == Cardinality(Requesting) <= MaxInFlight

\* An open request's slot is in the set with the score it was added with, so
\* the count never forgets it: why pruning by other processes' clocks is safe.
OpenRequestsAreCounted ==
  \A c \in Callers : pc[c] \in {"waiting", "requesting"} =>
    c \in Present /\ score[c] = Stamp(c)

\* A caller that waits for a slot gets one or dies: the slots of dead callers
\* and failed releases come back ("Self-healing against a crashed worker").
CallersGetThrough ==
  \A c \in Callers : pc[c] = "acquiring" ~> pc[c] \in {"done", "dead"}

=============================================================================
