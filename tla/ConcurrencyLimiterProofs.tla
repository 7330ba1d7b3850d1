---------------------- MODULE ConcurrencyLimiterProofs ----------------------
(***************************************************************************)
(* While every step a slot outlives ends before its lease does, at most    *)
(* MaxInFlight requests are open, for any number of callers and any sizes. *)
(*                                                                         *)
(* The argument: an open request is younger than the lease by more than    *)
(* the skew of two clocks (Deadlines), so no other caller's script prunes  *)
(* its slot and Redis does not drop the key under it (OpenRequestsAre-     *)
(* Counted); and the scripts keep the set within MaxInFlight members.      *)
(***************************************************************************)
EXTENDS ConcurrencyLimiter, FiniteSetTheorems, TLAPS

Open(c) == pc[c] \in {"waiting", "requesting"}

SetBounded == Cardinality(held) <= MaxInFlight

\* How long ago a caller read its clock and got its slot, step by step.
Deadlines ==
  \A c \in Callers :
    /\ read[c] <= now
    /\ pc[c] = "acquiring" => now <= read[c] + MaxDelay
    /\ pc[c] = "waiting" => /\ since[c] <= read[c] + MaxDelay
                            /\ now <= since[c] + MaxTokenWait
    /\ pc[c] = "requesting" => /\ since[c] <= read[c] + MaxDelay + MaxTokenWait
                               /\ now <= since[c] + RequestTimeout

SlotsLive ==
  \A c \in Callers : Open(c) => /\ c \in held
                                /\ score[c] = Stamp(c)
                                /\ read[c] + Lease <= expires

IInv == TypeOK /\ SetBounded /\ Deadlines /\ SlotsLive

-----------------------------------------------------------------------------
\* The initial states satisfy the invariant.
LEMMA InitIInv == Init => IInv
<1> USE SizesAssumption
<1> SUFFICES ASSUME Init PROVE IInv
  OBVIOUS
<1>1. TypeOK
  BY DEF Init, TypeOK, Calls
<1>2. SetBounded
  BY FS_EmptySet DEF Init, SetBounded
<1>3. Deadlines /\ SlotsLive
  BY DEF Init, Deadlines, SlotsLive, Open
<1> QED BY <1>1, <1>2, <1>3 DEF IInv

\* A slot in use is still in its lease by every clock: it outlives the whole
\* time from reading the clock to the end of the request.
LEMMA SlotsInTime ==
  ASSUME LeaseCovers, IInv, NEW c \in Callers, Open(c)
  PROVE  /\ now + MaxSkew < read[c] + Lease
         /\ now < expires
<1> USE SizesAssumption DEF IInv
<1>1. /\ now \in Nat /\ expires \in Nat /\ read[c] \in Nat /\ since[c] \in Nat
  BY DEF TypeOK
<1>2. now <= read[c] + MaxDelay + MaxTokenWait + RequestTimeout
  BY <1>1 DEF Deadlines, Open
<1>3. now + MaxSkew < read[c] + Lease
  BY <1>1, <1>2 DEF LeaseCovers
<1> QED BY <1>1, <1>3 DEF SlotsLive

\* The script of one caller keeps the slots of all open requests.
LEMMA OpenIsKept ==
  ASSUME LeaseCovers, IInv, NEW q \in Callers, NEW c \in Callers, Open(c)
  PROVE  c \in Kept(q)
<1> USE SizesAssumption
<1>1. now + MaxSkew < read[c] + Lease /\ now < expires
  BY SlotsInTime
<1>2. c \in Present
  BY <1>1 DEF IInv, SlotsLive, TypeOK, Present
<1>3. /\ now \in Nat /\ read[c] \in Nat /\ read[q] \in Nat
      /\ skew[c] \in 0..MaxSkew /\ skew[q] \in 0..MaxSkew
  BY DEF IInv, TypeOK
<1>4. read[q] <= now
  BY DEF IInv, Deadlines
<1>5. score[c] = read[c] + skew[c]
  BY DEF IInv, SlotsLive, Stamp
<1>6. score[c] + Lease > read[q] + skew[q]
  BY <1>1, <1>3, <1>4, <1>5
<1> QED BY <1>2, <1>6 DEF Kept, Stamp

\* What a script does: the set stays within bounds, no open request loses its
\* slot, and a caller for which there is room has its own.
LEMMA ScriptStep ==
  ASSUME LeaseCovers, IInv, NEW q \in Callers, Script(q)
  PROVE  /\ held' \subseteq Callers
         /\ score' \in [Callers -> Nat]
         /\ expires' \in Nat
         /\ Cardinality(held') <= MaxInFlight
         /\ \A c \in Callers : Open(c) =>
              c \in held' /\ (c # q => score'[c] = score[c])
                          /\ read[c] + Lease <= expires'
         /\ HasRoom(q) => /\ q \in held' /\ score'[q] = Stamp(q)
                          /\ read[q] + Lease <= expires'
<1> USE SizesAssumption
<1>1. TypeOK /\ SetBounded
  BY DEF IInv
<1>2. Kept(q) \subseteq held /\ held \subseteq Callers /\ IsFiniteSet(held)
  BY <1>1, CallersAssumption, FS_Subset DEF Kept, Present, TypeOK
<1>3. /\ IsFiniteSet(Kept(q)) /\ Cardinality(Kept(q)) <= Cardinality(held)
      /\ Cardinality(Kept(q)) \in Nat /\ Cardinality(held) \in Nat
  BY <1>2, FS_Subset, FS_CardinalityType
<1>4. Stamp(q) \in Nat
  BY <1>1 DEF TypeOK, Stamp
<1>5. \A c \in Callers : Open(c) => c \in Kept(q)
  BY OpenIsKept
<1>6. \A c \in Callers : read[c] \in Nat /\ read[c] <= now
  BY DEF IInv, TypeOK, Deadlines
<1>7. CASE HasRoom(q)
  <2>1. /\ held' = Kept(q) \cup {q}
        /\ score' = [score EXCEPT ![q] = Stamp(q)]
        /\ expires' = now + Lease + KeySlack
    BY <1>7 DEF Script
  <2>2. Cardinality(Kept(q) \cup {q}) <= Cardinality(Kept(q)) + 1
    BY <1>3, FS_AddElement
  <2>3. Cardinality(Kept(q) \cup {q}) \in Nat
    BY <1>3, FS_AddElement, FS_CardinalityType
  <2>4. Cardinality(held') <= MaxInFlight
    BY <1>3, <1>7, <2>1, <2>2, <2>3 DEF HasRoom
  <2>5. now \in Nat /\ score \in [Callers -> Nat]
    BY <1>1 DEF TypeOK
  <2>6. \A c \in Callers : read[c] + Lease <= expires'
    BY <1>6, <2>1, <2>5
  <2>7. score' \in [Callers -> Nat] /\ score'[q] = Stamp(q)
    BY <1>4, <2>1, <2>5
  <2>8. \A c \in Callers : c # q => score'[c] = score[c]
    BY <2>1, <2>5
  <2>9. expires' \in Nat
    BY <2>1, <2>5
  <2> QED BY <1>2, <1>5, <2>1, <2>4, <2>6, <2>7, <2>8, <2>9
<1>8. CASE ~HasRoom(q)
  <2>1. held' = Kept(q) /\ score' = score /\ expires' = expires
    BY <1>8 DEF Script
  <2>2. Cardinality(held') <= MaxInFlight
    BY <1>1, <1>3, <2>1 DEF SetBounded
  <2> QED BY <1>1, <1>2, <1>5, <1>8, <2>1, <2>2 DEF TypeOK, IInv, SlotsLive
<1> QED BY <1>7, <1>8

\* The steps of one call that leave the set alone: reading the clock, the
\* rate token, the end of the request, a failed release, the process's death.
LEMMA QuietStep ==
  ASSUME LeaseCovers, IInv, NEW q \in Callers,
         \/ ReadClock(q) \/ StartRequest(q) \/ EndRequest(q)
         \/ ReleaseFails(q) \/ Die(q)
  PROVE  IInv'
<1> USE SizesAssumption
<1>1. TypeOK /\ Deadlines /\ SlotsLive /\ SetBounded
  BY DEF IInv
<1>2. TypeOK'
  BY <1>1 DEF TypeOK, Calls, ReadClock, StartRequest, EndRequest, ReleaseFails,
              Die, Goto
<1>3. SetBounded'
  BY <1>1 DEF SetBounded, ReadClock, StartRequest, EndRequest, ReleaseFails, Die
<1>4. ASSUME NEW c \in Callers, c # q
      PROVE  /\ pc'[c] = pc[c] /\ read'[c] = read[c] /\ since'[c] = since[c]
             /\ score'[c] = score[c] /\ skew'[c] = skew[c]
  BY <1>1, <1>4 DEF TypeOK, ReadClock, StartRequest, EndRequest, ReleaseFails,
              Die, Goto
<1>5. now' = now /\ held' = held /\ expires' = expires
  BY DEF ReadClock, StartRequest, EndRequest, ReleaseFails, Die
<1>6. CASE ReadClock(q)
  <2>1. pc'[q] = "acquiring" /\ read'[q] = now
    BY <1>1, <1>6 DEF ReadClock, Goto, TypeOK
  <2>2. now \in Nat
    BY <1>1 DEF TypeOK
  <2>3. Deadlines'
    BY <1>1, <1>4, <1>5, <2>1, <2>2 DEF Deadlines
  <2>4. SlotsLive'
    BY <1>1, <1>4, <1>5, <2>1 DEF SlotsLive, Open, Stamp
  <2> QED BY <1>2, <1>3, <2>3, <2>4 DEF IInv
<1>7. CASE StartRequest(q)
  <2>1. /\ pc[q] = "waiting" /\ pc'[q] = "requesting" /\ since'[q] = now
        /\ read'[q] = read[q] /\ score'[q] = score[q] /\ skew'[q] = skew[q]
    BY <1>1, <1>7 DEF StartRequest, Goto, TypeOK
  <2>2. now \in Nat /\ since[q] \in Nat /\ read[q] \in Nat
    BY <1>1 DEF TypeOK
  <2>3. since'[q] <= read'[q] + MaxDelay + MaxTokenWait
    BY <1>1, <2>1, <2>2 DEF Deadlines
  <2>4. Deadlines'
    BY <1>1, <1>4, <1>5, <2>1, <2>2, <2>3 DEF Deadlines
  <2>5. SlotsLive'
    BY <1>1, <1>4, <1>5, <2>1 DEF SlotsLive, Open, Stamp
  <2> QED BY <1>2, <1>3, <2>4, <2>5 DEF IInv
<1>8. CASE EndRequest(q) \/ ReleaseFails(q) \/ Die(q)
  <2>1. pc'[q] \in {"finishing", "done", "dead"} /\ read' = read
    BY <1>1, <1>8 DEF EndRequest, ReleaseFails, Die, Goto, TypeOK
  <2>2. Deadlines'
    BY <1>1, <1>4, <1>5, <2>1 DEF Deadlines
  <2>3. SlotsLive'
    BY <1>1, <1>4, <1>5, <2>1 DEF SlotsLive, Open, Stamp
  <2> QED BY <1>2, <1>3, <2>2, <2>3 DEF IInv
<1> QED BY <1>6, <1>7, <1>8

\* The steps that run the script, and the release.
LEMMA SetStep ==
  ASSUME LeaseCovers, IInv, NEW q \in Callers,
         Acquire(q) \/ ReplyLost(q) \/ Release(q)
  PROVE  IInv'
<1> USE SizesAssumption
<1>1. TypeOK /\ Deadlines /\ SlotsLive /\ SetBounded
  BY DEF IInv
<1>2. now' = now /\ skew' = skew /\ read' = read
  BY DEF Acquire, ReplyLost, Release
<1>3. /\ now \in Nat /\ since \in [Callers -> Nat] /\ pc \in [Callers -> Calls]
      /\ read \in [Callers -> Nat] /\ lost \in 0..MaxLost
  BY <1>1 DEF TypeOK
<1>4. CASE Acquire(q)
  <2>1. Script(q) /\ pc[q] = "acquiring" /\ lost' = lost
    BY <1>4 DEF Acquire
  <2>2. pc' = [pc EXCEPT ![q] = IF HasRoom(q) THEN "waiting" ELSE "sleeping"]
    BY <1>4 DEF Acquire, Goto
  <2>3. since' = IF HasRoom(q) THEN [since EXCEPT ![q] = now] ELSE since
    BY <1>4 DEF Acquire
  <2>4. TypeOK'
    BY <1>1, <1>2, <1>3, <2>1, <2>2, <2>3, ScriptStep DEF TypeOK, Calls
  <2>5. SetBounded'
    BY <2>1, ScriptStep DEF SetBounded
  <2>6. Deadlines'
    BY <1>1, <1>2, <1>3, <2>1, <2>2, <2>3 DEF Deadlines
  <2>7. \A c \in Callers : c # q => pc'[c] = pc[c]
    BY <1>3, <2>2
  <2>8. Open(q)' => HasRoom(q)
    BY <1>3, <2>2 DEF Open
  <2>9. SlotsLive'
    <3> SUFFICES ASSUME NEW c \in Callers, Open(c)'
                 PROVE  /\ c \in held' /\ score'[c] = Stamp(c)'
                        /\ read'[c] + Lease <= expires'
      BY DEF SlotsLive
    <3>1. Stamp(c)' = Stamp(c)
      BY <1>2 DEF Stamp
    <3>2. CASE c = q
      BY <1>2, <2>1, <2>8, <3>1, <3>2, ScriptStep
    <3>3. CASE c # q
      <4>1. Open(c)
        BY <2>7, <3>3 DEF Open
      <4> QED BY <1>1, <1>2, <2>1, <3>1, <3>3, <4>1, ScriptStep DEF SlotsLive
    <3> QED BY <3>2, <3>3
  <2> QED BY <2>4, <2>5, <2>6, <2>9 DEF IInv
<1>5. CASE ReplyLost(q)
  <2>1. /\ Script(q) /\ pc[q] = "acquiring" /\ lost' = lost + 1 /\ lost < MaxLost
        /\ pc' = pc /\ since' = since
    BY <1>5 DEF ReplyLost
  <2>2. TypeOK'
    BY <1>1, <1>2, <1>3, <2>1, ScriptStep DEF TypeOK
  <2>3. SetBounded'
    BY <2>1, ScriptStep DEF SetBounded
  <2>4. Deadlines'
    BY <1>1, <1>2, <2>1 DEF Deadlines
  <2>5. SlotsLive'
    <3> SUFFICES ASSUME NEW c \in Callers, Open(c)'
                 PROVE  /\ c \in held' /\ score'[c] = Stamp(c)'
                        /\ read'[c] + Lease <= expires'
      BY DEF SlotsLive
    <3>1. Open(c) /\ c # q
      BY <2>1 DEF Open
    <3>2. Stamp(c)' = Stamp(c)
      BY <1>2 DEF Stamp
    <3> QED BY <1>1, <1>2, <2>1, <3>1, <3>2, ScriptStep DEF SlotsLive
  <2> QED BY <2>2, <2>3, <2>4, <2>5 DEF IInv
<1>6. CASE Release(q)
  <2>1. /\ held' = Present \ {q} /\ pc' = [pc EXCEPT ![q] = "done"]
        /\ since' = since /\ score' = score /\ expires' = expires
        /\ pc[q] = "finishing" /\ lost' = lost
    BY <1>6 DEF Release, AfterRelease, Goto
  <2>2. TypeOK'
    BY <1>1, <1>2, <1>3, <2>1 DEF TypeOK, Calls, Present
  <2>3. held' \subseteq held /\ IsFiniteSet(held)
    BY <1>1, <2>1, CallersAssumption, FS_Subset DEF Present, TypeOK
  <2>4. SetBounded'
    BY <1>1, <2>3, FS_Subset, FS_CardinalityType DEF SetBounded
  <2>5. Deadlines'
    BY <1>1, <1>2, <1>3, <2>1 DEF Deadlines
  <2>6. SlotsLive'
    <3> SUFFICES ASSUME NEW c \in Callers, Open(c)'
                 PROVE  /\ c \in held' /\ score'[c] = Stamp(c)'
                        /\ read'[c] + Lease <= expires'
      BY DEF SlotsLive
    <3>1. Open(c) /\ c # q
      BY <1>3, <2>1 DEF Open
    <3>2. c \in Present
      BY <1>1, <3>1, SlotsInTime DEF Present, SlotsLive, TypeOK
    <3> QED BY <1>1, <1>2, <2>1, <3>1, <3>2 DEF SlotsLive, Stamp
  <2> QED BY <2>2, <2>4, <2>5, <2>6 DEF IInv
<1> QED BY <1>4, <1>5, <1>6

\* Time passes only while no deadline is reached.
LEMMA TickStep == ASSUME IInv, Tick PROVE IInv'
<1> USE SizesAssumption
<1>1. /\ now' = now + 1 /\ skew' = skew /\ held' = held /\ score' = score
      /\ expires' = expires /\ pc' = pc /\ read' = read /\ since' = since
      /\ lost' = lost
  BY DEF Tick
<1>2. TypeOK'
  BY <1>1 DEF IInv, TypeOK
<1>3. SetBounded' /\ SlotsLive'
  BY <1>1 DEF IInv, SetBounded, SlotsLive, Open, Stamp
<1>4. Deadlines'
  <2> SUFFICES ASSUME NEW c \in Callers
      PROVE  /\ read[c] <= now + 1
             /\ pc[c] = "acquiring" => now + 1 <= read[c] + MaxDelay
             /\ pc[c] = "waiting" => /\ since[c] <= read[c] + MaxDelay
                                     /\ now + 1 <= since[c] + MaxTokenWait
             /\ pc[c] = "requesting" =>
                  /\ since[c] <= read[c] + MaxDelay + MaxTokenWait
                  /\ now + 1 <= since[c] + RequestTimeout
    BY <1>1 DEF Deadlines
  <2>1. now \in Nat /\ read[c] \in Nat /\ since[c] \in Nat
    BY DEF IInv, TypeOK
  <2>2. MayWait(c)
    BY DEF Tick
  <2>3. read[c] <= now + 1
    BY <2>1 DEF IInv, Deadlines
  <2>4. pc[c] = "acquiring" => now + 1 <= read[c] + MaxDelay
    BY <2>1, <2>2 DEF MayWait
  <2>5. pc[c] = "waiting" => now + 1 <= since[c] + MaxTokenWait
    BY <2>1, <2>2 DEF MayWait
  <2>6. pc[c] = "requesting" => now + 1 <= since[c] + RequestTimeout
    BY <2>1, <2>2 DEF MayWait
  <2> QED BY <2>3, <2>4, <2>5, <2>6 DEF IInv, Deadlines
<1> QED BY <1>2, <1>3, <1>4 DEF IInv

\* Every step preserves the invariant.
LEMMA NextIInv == ASSUME LeaseCovers, IInv, [Next]_vars PROVE IInv'
<1>1. CASE Tick
  BY <1>1, TickStep
<1>2. ASSUME NEW c \in Callers,
             \/ ReadClock(c) \/ StartRequest(c) \/ EndRequest(c)
             \/ ReleaseFails(c) \/ Die(c)
      PROVE  IInv'
  BY <1>2, QuietStep
<1>3. ASSUME NEW c \in Callers, Acquire(c) \/ ReplyLost(c) \/ Release(c)
      PROVE  IInv'
  BY <1>3, SetStep
<1>4. CASE UNCHANGED vars
  BY <1>4 DEF vars, IInv, TypeOK, SetBounded, Deadlines, SlotsLive, Open, Stamp
<1> QED BY <1>1, <1>2, <1>3, <1>4 DEF Next

\* The invariant holds in every reachable state.
LEMMA IInvAlways == ASSUME LeaseCovers PROVE Spec => []IInv
<1>1. IInv /\ [Next]_vars => IInv'
  BY NextIInv
<1> QED BY <1>1, InitIInv, PTL DEF Spec

-----------------------------------------------------------------------------
\* Whatever the callers, clocks, deaths and lost replies, an open request's
\* slot is in the set: the pruning in ACQUIRE_SCRIPT never takes it.
THEOREM SlotsAreCounted ==
  ASSUME LeaseCovers PROVE Spec => []OpenRequestsAreCounted
<1>1. IInv => OpenRequestsAreCounted
  <2> SUFFICES ASSUME IInv, NEW c \in Callers, Open(c)
               PROVE  c \in Present /\ score[c] = Stamp(c)
    BY DEF OpenRequestsAreCounted, Open
  <2>1. now < expires
    BY SlotsInTime
  <2> QED BY <2>1, SizesAssumption DEF IInv, SlotsLive, Present, TypeOK
<1> QED BY <1>1, IInvAlways, PTL

\* At most MaxInFlight requests are open at any moment in all the worker
\* processes together, as long as delays, token waits, requests and clock
\* skew fit in the lease (withSlot, ACQUIRE_SCRIPT).
THEOREM AtMostMaxInFlight ==
  ASSUME LeaseCovers PROVE Spec => []InFlightBounded
<1>1. IInv => InFlightBounded
  <2> SUFFICES ASSUME IInv PROVE Cardinality(Requesting) <= MaxInFlight
    BY DEF InFlightBounded
  <2>1. Requesting \subseteq held
    BY DEF IInv, SlotsLive, Open, Requesting
  <2>2. IsFiniteSet(held)
    BY CallersAssumption, FS_Subset DEF IInv, TypeOK
  <2>3. Cardinality(Requesting) <= Cardinality(held)
    BY <2>1, <2>2, FS_Subset
  <2>4. /\ Cardinality(Requesting) \in Nat /\ Cardinality(held) \in Nat
        /\ Cardinality(held) <= MaxInFlight
    BY <2>1, <2>2, FS_Subset, FS_CardinalityType DEF IInv, SetBounded
  <2> QED BY <2>3, <2>4, SizesAssumption
<1> QED BY <1>1, IInvAlways, PTL

=============================================================================
