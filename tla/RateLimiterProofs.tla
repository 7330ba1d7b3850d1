-------------------------- MODULE RateLimiterProofs --------------------------
(***************************************************************************)
(* Two bounds on the token bucket, for any number of callers, any rate of  *)
(* at least one token per second and windows of any length: not too many   *)
(* tokens, and not too few, in whatever order the scripts run.             *)
(*                                                                         *)
(* The argument is a potential: the tokens handed out since the window     *)
(* began and those in the bucket together never exceed a full bucket and   *)
(* what was refilled since.  A script refills the time from the bucket's   *)
(* to its own; ts + rewound only grows, by exactly that time.              *)
(***************************************************************************)
EXTENDS RateLimiter, TLAPS

Pending(c) == pc[c] = "acquiring"

\* The times on their way to Redis are recent.
Recent ==
  /\ from <= now /\ ts <= now
  /\ \A c \in Callers : /\ stamp[c] <= now
                        /\ Pending(c) => now <= stamp[c] + MaxDelay

\* The potential, once the window has handed out a token.
Budget ==
  seen > 0 =>
    /\ from <= ts + MaxDelay
    /\ ts + KeyTTL <= expires
    /\ seen * Parts + tokens <= Capacity + Refill * (ts + MaxDelay - from + rewound)

\* As long as it has not, the bucket fills up.
Filling ==
  seen = 0 /\ from <= ts =>
    tokens = Capacity \/ Refill * (ts - from) <= tokens

FillInv == TypeOK /\ Recent /\ Filling
IInv == TypeOK /\ Recent /\ Budget

-----------------------------------------------------------------------------
\* The rate is a natural number of parts per second.
LEMMA CapacityType == Capacity \in Nat
BY SizesAssumption DEF Capacity

\* A longer time refills at least as much.
LEMMA RefillGrows ==
  ASSUME NEW m \in Nat, NEW n \in Nat, m <= n
  PROVE  Refill * m <= Refill * n
<1> USE SizesAssumption
<1>1. PICK k \in Nat : n = m + k
  <2>1. n - m \in Nat /\ n = m + (n - m)
    OBVIOUS
  <2> QED BY <2>1
<1>2. Refill * n = Refill * m + Refill * k
  BY <1>1
<1>3. Refill * k \in Nat /\ Refill * m \in Nat
  BY <1>1
<1> QED BY <1>2, <1>3

\* The refill of two spans of time is that of their sum.
LEMMA RefillAdds ==
  ASSUME NEW m \in Nat, NEW n \in Nat
  PROVE  Refill * (m + n) = Refill * m + Refill * n
BY SizesAssumption

\* What the script finds in the bucket: at most the capacity, at most what
\* was there and is refilled, and at least that if it is below the capacity.
LEMMA RefilledBounds ==
  ASSUME TypeOK, NEW c \in Callers
  PROVE  /\ Elapsed(c) \in Nat
         /\ Refilled(c) \in 0..Capacity
         /\ ~Missing => /\ Refilled(c) <= tokens + Refill * Elapsed(c)
                        /\ \/ Refilled(c) = Capacity
                           \/ Refilled(c) = tokens + Refill * Elapsed(c)
         /\ Missing => Refilled(c) = Capacity
<1> USE SizesAssumption
<1>1. stamp[c] \in Nat /\ ts \in Nat /\ tokens \in 0..Capacity
  BY DEF TypeOK
<1>2. Elapsed(c) \in Nat
  BY <1>1 DEF Elapsed
<1>3. Elapsed(c) * Refill = Refill * Elapsed(c) /\ Refill * Elapsed(c) \in Nat
  BY <1>2
<1>4. DEFINE more == Refill * Elapsed(c)
<1>5. Refilled(c) = IF Missing THEN Capacity ELSE Smaller(Capacity, tokens + more)
  BY <1>3 DEF Refilled
<1>6. more \in Nat
  BY <1>3
<1> HIDE DEF more
<1>7. /\ Refilled(c) \in 0..Capacity
      /\ ~Missing => /\ Refilled(c) <= tokens + more
                     /\ Refilled(c) = Capacity \/ Refilled(c) = tokens + more
      /\ Missing => Refilled(c) = Capacity
  BY <1>1, <1>5, <1>6, CapacityType DEF Smaller
<1> QED BY <1>2, <1>7 DEF more

-----------------------------------------------------------------------------
\* The initial states satisfy both invariants.
LEMMA InitInvs == Init => FillInv /\ IInv
<1> SUFFICES ASSUME Init PROVE FillInv /\ IInv
  OBVIOUS
<1>1. TypeOK
  BY SizesAssumption, CapacityType DEF Init, TypeOK
<1>2. Recent /\ Budget
  BY DEF Init, Recent, Budget, Pending
<1>3. Filling
  <2>1. ts - from = 0 /\ tokens = 0
    BY DEF Init
  <2>2. Refill * 0 = 0
    BY SizesAssumption
  <2> QED BY <2>1, <2>2 DEF Filling
<1> QED BY <1>1, <1>2, <1>3 DEF FillInv, IInv

\* A script leaves a well-typed bucket.
LEMMA ScriptType ==
  ASSUME TypeOK, Recent, NEW c \in Callers, Script(c)
  PROVE  /\ tokens' \in 0..Capacity
         /\ ts' \in Nat /\ expires' \in Nat /\ seen' \in Nat
         /\ rewound' \in Nat
<1>1. Refilled(c) \in 0..Capacity
  BY RefilledBounds
<1>2. Remaining(c) \in 0..Capacity
  BY <1>1, SizesAssumption, CapacityType DEF Remaining, Allowed
<1>3. Rewinds(c) \in Nat
  BY DEF Rewinds, TypeOK
<1> QED BY <1>2, <1>3, SizesAssumption DEF Script, TypeOK

\* Types and the age of the times on their way survive every step.
LEMMA RecentStep ==
  ASSUME TypeOK, Recent, [Next]_vars
  PROVE  TypeOK' /\ Recent'
<1> USE SizesAssumption
<1>1. CASE Tick
  <2>1. now' = now + 1 /\ now \in Nat /\ stamp \in [Callers -> Nat]
        /\ pc' = pc /\ stamp' = stamp /\ from' = from /\ ts' = ts
    BY <1>1 DEF Tick, TypeOK
  <2>2. \A c \in Callers : Pending(c) => now < stamp[c] + MaxDelay
    BY <1>1 DEF Tick, Pending
  <2>3. TypeOK'
    BY <1>1 DEF Tick, TypeOK
  <2>4. from \in Nat /\ ts \in Nat
    BY DEF TypeOK
  <2> QED BY <2>1, <2>2, <2>3, <2>4 DEF Recent, Pending
<1>2. CASE BeginWindow
  BY <1>2 DEF BeginWindow, TypeOK, Recent, Pending
<1>3. ASSUME NEW q \in Callers, ReadClock(q) PROVE TypeOK' /\ Recent'
  BY <1>3 DEF ReadClock, Goto, TypeOK, Recent, Pending
<1>4. ASSUME NEW q \in Callers, Acquire(q) PROVE TypeOK' /\ Recent'
  <2>1. Script(q) /\ pc' = [pc EXCEPT ![q] = IF Allowed(q) THEN "idle" ELSE "sleeping"]
        /\ lost' = lost
    BY <1>4 DEF Acquire, Goto
  <2>2. now' = now /\ stamp' = stamp /\ from' = from /\ ts' = stamp[q]
    BY <2>1 DEF Script
  <2>3. pc' \in [Callers -> {"idle", "acquiring", "sleeping"}]
    BY <2>1 DEF TypeOK
  <2>4. TypeOK'
    BY <2>1, <2>2, <2>3, ScriptType DEF TypeOK
  <2>5. \A c \in Callers : Pending(c)' => Pending(c)
    BY <2>1 DEF Pending, TypeOK
  <2> QED BY <2>2, <2>4, <2>5 DEF Recent
<1>5. ASSUME NEW q \in Callers, ReplyLost(q) PROVE TypeOK' /\ Recent'
  <2>1. Script(q) /\ pc' = pc /\ lost' = lost + 1 /\ lost < MaxLost
    BY <1>5 DEF ReplyLost
  <2>2. now' = now /\ stamp' = stamp /\ from' = from /\ ts' = stamp[q]
    BY <2>1 DEF Script
  <2>3. TypeOK'
    BY <2>1, <2>2, ScriptType DEF TypeOK
  <2> QED BY <2>1, <2>2, <2>3 DEF Recent, Pending
<1>6. ASSUME NEW q \in Callers, Die(q) PROVE TypeOK' /\ Recent'
  BY <1>6 DEF Die, Goto, TypeOK, Recent, Pending
<1>7. CASE UNCHANGED vars
  BY <1>7 DEF vars, TypeOK, Recent, Pending
<1> QED BY <1>1, <1>2, <1>3, <1>4, <1>5, <1>6, <1>7 DEF Next

\* A refusal, and a bucket that is filling: tokens in the bucket are at least
\* what was refilled since the window began.
LEMMA ScriptFills ==
  ASSUME FillInv, NEW c \in Callers, Script(c)
  PROVE  /\ Filling'
         /\ ~Allowed(c) => seen > 0 \/ Refill * (now - from) < Parts + Refill * MaxDelay
<1> USE SizesAssumption
<1>1. TypeOK /\ Recent /\ Filling
  BY DEF FillInv
<1>2. /\ now \in Nat /\ ts \in Nat /\ from \in Nat /\ stamp[c] \in Nat
      /\ tokens \in 0..Capacity /\ seen \in Nat /\ from <= now
      /\ stamp[c] <= now
  BY <1>1 DEF TypeOK, Recent
<1>3. ts' = stamp[c] /\ from' = from /\ tokens' = Remaining(c)
      /\ seen' = IF Allowed(c) THEN seen + 1 ELSE seen
  BY DEF Script
<1>4. CASE seen = 0 /\ ~Allowed(c)
  <2>1. Refilled(c) < Parts /\ Refilled(c) \in Nat /\ Remaining(c) = Refilled(c)
    BY <1>4, RefilledBounds, <1>1, CapacityType DEF Allowed, Remaining
  <2>2. Refilled(c) # Capacity
    BY <2>1, RateAssumption, CapacityType
  <2>3. ~Missing /\ Refilled(c) = tokens + Refill * Elapsed(c) /\ Elapsed(c) \in Nat
    BY <1>1, <2>2, RefilledBounds
  <2>4. ASSUME from <= stamp[c] PROVE Refill * (stamp[c] - from) <= Refilled(c)
    <3>1. Refill * Elapsed(c) \in Nat
      BY <2>3
    <3>2. CASE from <= ts /\ ts < stamp[c]
      <4>1. Refill * (ts - from) <= tokens
        <5>1. tokens # Capacity
          BY <2>1, <2>3, <3>1, <1>2, RateAssumption, CapacityType
        <5> QED BY <1>1, <1>4, <3>2, <5>1 DEF Filling
      <4>2. Elapsed(c) = stamp[c] - ts
        BY <3>2 DEF Elapsed
      <4>3. /\ stamp[c] - from = (ts - from) + (stamp[c] - ts)
            /\ ts - from \in Nat /\ stamp[c] - ts \in Nat
        BY <1>2, <3>2
      <4>4. Refill * (stamp[c] - from) = Refill * (ts - from) + Refill * Elapsed(c)
        BY <4>2, <4>3, RefillAdds
      <4>5. Refill * (ts - from) \in Nat
        BY <4>3
      <4> QED BY <1>2, <2>3, <3>1, <4>1, <4>4, <4>5
    <3>3. CASE from <= ts /\ stamp[c] <= ts
      <4>1. Refill * (ts - from) <= tokens
        <5>1. tokens # Capacity
          BY <2>1, <2>3, <3>1, <1>2, RateAssumption, CapacityType
        <5> QED BY <1>1, <1>4, <3>3, <5>1 DEF Filling
      <4>2. /\ stamp[c] - from \in Nat /\ ts - from \in Nat
            /\ stamp[c] - from <= ts - from
        BY <1>2, <2>4, <3>3
      <4>3. Refill * (stamp[c] - from) <= Refill * (ts - from)
        BY <4>2, RefillGrows
      <4>4. Refill * (stamp[c] - from) \in Nat /\ Refill * (ts - from) \in Nat
        BY <4>2
      <4> QED BY <1>2, <2>3, <3>1, <4>1, <4>3, <4>4
    <3>4. CASE ts < from
      <4>1. Elapsed(c) = stamp[c] - ts
        BY <1>2, <2>4, <3>4 DEF Elapsed
      <4>2. /\ stamp[c] - from \in Nat /\ stamp[c] - ts \in Nat
            /\ stamp[c] - from <= stamp[c] - ts
        BY <1>2, <2>4, <3>4
      <4>3. Refill * (stamp[c] - from) <= Refill * Elapsed(c)
        BY <4>1, <4>2, RefillGrows
      <4>4. Refill * (stamp[c] - from) \in Nat
        BY <4>2
      <4> QED BY <1>2, <2>3, <3>1, <4>3, <4>4
    <3> QED BY <1>2, <3>2, <3>3, <3>4
  <2>5. Filling'
    BY <1>3, <2>1, <2>4 DEF Filling
  <2>6. Refill * (now - from) < Parts + Refill * MaxDelay
    <3>0. now <= stamp[c] + MaxDelay
      BY <1>1 DEF Recent, Pending, Script
    <3>1. Refill * MaxDelay \in Nat
      OBVIOUS
    <3>2. CASE from <= stamp[c]
      <4>1. /\ now - from \in Nat /\ stamp[c] - from \in Nat
            /\ now - from <= (stamp[c] - from) + MaxDelay
            /\ (stamp[c] - from) + MaxDelay \in Nat
        BY <1>2, <3>0, <3>2
      <4>2. Refill * (now - from) <= Refill * ((stamp[c] - from) + MaxDelay)
        BY <4>1, RefillGrows
      <4>3. Refill * ((stamp[c] - from) + MaxDelay)
              = Refill * (stamp[c] - from) + Refill * MaxDelay
        BY <4>1, RefillAdds
      <4>4. Refill * (stamp[c] - from) \in Nat /\ Refill * (now - from) \in Nat
        BY <4>1
      <4> QED BY <2>1, <2>4, <3>1, <3>2, <4>2, <4>3, <4>4
    <3>3. CASE stamp[c] < from
      <4>1. now - from \in Nat /\ now - from <= MaxDelay
        BY <1>2, <3>0, <3>3
      <4>2. Refill * (now - from) <= Refill * MaxDelay /\ Refill * (now - from) \in Nat
        BY <4>1, RefillGrows
      <4> QED BY <3>1, <4>2
    <3> QED BY <1>2, <3>2, <3>3
  <2> QED BY <2>5, <2>6
<1>5. CASE seen > 0 \/ Allowed(c)
  <2>1. seen' > 0
    BY <1>2, <1>3, <1>5
  <2> QED BY <1>5, <2>1 DEF Filling
<1> QED BY <1>2, <1>4, <1>5

\* The bucket fills through every other step.
LEMMA FillStep == ASSUME FillInv, [Next]_vars PROVE FillInv'
<1>1. TypeOK' /\ Recent'
  BY RecentStep DEF FillInv
<1>2. CASE \E c \in Callers : Acquire(c) \/ ReplyLost(c)
  <2>1. PICK c \in Callers : Script(c)
    BY <1>2 DEF Acquire, ReplyLost
  <2>2. Filling'
    BY <2>1, ScriptFills
  <2> QED BY <1>1, <2>2 DEF FillInv
<1>3. CASE BeginWindow
  <2>1. from' = now /\ ts' = ts /\ tokens' = tokens
    BY <1>3 DEF BeginWindow
  <2>2. now \in Nat /\ ts \in Nat /\ tokens \in 0..Capacity
    BY DEF FillInv, TypeOK
  <2>3. ts <= now
    BY DEF FillInv, Recent
  <2>4. now <= ts => ts - now = 0
    BY <2>2, <2>3
  <2>5. Refill * 0 = 0
    BY SizesAssumption
  <2>6. Filling'
    BY <2>1, <2>2, <2>4, <2>5, CapacityType DEF Filling
  <2> QED BY <1>1, <2>6 DEF FillInv
<1>4. CASE \E c \in Callers : ReadClock(c) \/ Die(c)
  BY <1>1, <1>4 DEF FillInv, ReadClock, Die, Filling
<1>5. CASE Tick \/ UNCHANGED vars
  BY <1>1, <1>5 DEF FillInv, Tick, vars, Filling
<1> QED BY <1>1, <1>2, <1>3, <1>4, <1>5 DEF Next, FillInv

-----------------------------------------------------------------------------
\* A script leaves the potential within its bound, in order or not.
LEMMA ScriptBudget ==
  ASSUME IInv, NEW c \in Callers, Script(c)
  PROVE  Budget'
<1> USE SizesAssumption
<1>1. TypeOK /\ Recent /\ Budget /\ pc[c] = "acquiring"
  BY DEF IInv, Script
<1>2. /\ now \in Nat /\ ts \in Nat /\ from \in Nat /\ stamp[c] \in Nat
      /\ tokens \in 0..Capacity /\ seen \in Nat /\ expires \in Nat
      /\ rewound \in Nat /\ from <= now /\ stamp[c] <= now
      /\ now <= stamp[c] + MaxDelay
  BY <1>1 DEF TypeOK, Recent, Pending
<1>3. /\ rewound' = rewound + Rewinds(c) /\ Rewinds(c) \in Nat
      /\ ts + Elapsed(c) = stamp[c] + Rewinds(c) /\ Elapsed(c) \in Nat
  BY <1>2 DEF Script, Rewinds, Elapsed
<1>4. /\ ts' = stamp[c] /\ from' = from /\ expires' = now + KeyTTL
      /\ tokens' = Remaining(c)
      /\ seen' = IF Allowed(c) THEN seen + 1 ELSE seen
  BY DEF Script
<1>5. from <= stamp[c] + MaxDelay
  BY <1>2
<1>6. DEFINE span == stamp[c] + MaxDelay - from + rewound'
             past == seen * Parts
<1>7. span \in Nat /\ past \in Nat /\ Refill * span \in Nat
  <2>1. span \in Nat
    BY <1>2, <1>3, <1>5
  <2>2. past \in Nat
    BY <1>2
  <2>3. Refill * span \in Nat
    BY <2>1
  <2> QED BY <2>1, <2>2, <2>3
<1>8. Refilled(c) \in 0..Capacity /\ Capacity \in Nat
  BY <1>1, RefilledBounds, CapacityType
<1>9. past + Refilled(c) <= Capacity + Refill * span
  <2>1. CASE seen = 0
    <3>1. past = 0
      BY <2>1
    <3> QED BY <1>7, <1>8, <3>1
  <2>2. CASE seen > 0
    <3> DEFINE old == ts + MaxDelay - from + rewound
               gap == Elapsed(c)
    <3>1. old \in Nat /\ gap \in Nat /\ span = old + gap
      BY <1>1, <1>2, <1>3, <2>2 DEF Budget
    <3>2. Refill * span = Refill * old + Refill * gap
      BY <3>1, RefillAdds
    <3>3. past + tokens <= Capacity + Refill * old
      BY <1>1, <2>2 DEF Budget
    <3>4. Refill * old \in Nat /\ Refill * gap \in Nat
      BY <3>1
    <3>5. Refilled(c) <= tokens + Refill * gap
      <4>1. CASE ~Missing
        BY <1>1, <4>1, RefilledBounds
      <4>2. CASE Missing
        <5>1. ts + KeyTTL <= now
          BY <1>1, <1>2, <2>2, <4>2 DEF Missing, Budget
        <5>2. TicksPerSecond <= gap
          BY <1>2, <5>1, ExpiryAssumption DEF Elapsed
        <5>3. Capacity <= Refill * gap
          BY <3>1, <5>2, RefillGrows DEF Capacity
        <5> QED BY <1>2, <1>8, <3>4, <5>3
      <4> QED BY <4>1, <4>2
    <3> HIDE DEF old, gap, span, past
    <3> QED BY <1>2, <1>7, <1>8, <3>2, <3>3, <3>4, <3>5
  <2> QED BY <1>2, <2>1, <2>2
<1>10. seen' * Parts + tokens' = past + Refilled(c)
  <2>1. CASE Allowed(c)
    <3>1. seen' * Parts = past + Parts
      BY <1>2, <1>4, <2>1
    <3>2. tokens' = Refilled(c) - Parts
      BY <1>4, <2>1 DEF Remaining
    <3> HIDE DEF past
    <3> QED BY <1>7, <1>8, <3>1, <3>2
  <2>2. CASE ~Allowed(c)
    BY <1>4, <2>2 DEF Remaining
  <2> QED BY <2>1, <2>2
<1>11. seen' * Parts + tokens' <= Capacity + Refill * (ts' + MaxDelay - from' + rewound')
  BY <1>4, <1>9, <1>10
<1>12. from' <= ts' + MaxDelay /\ ts' + KeyTTL <= expires'
  BY <1>2, <1>4, <1>5
<1> QED BY <1>11, <1>12 DEF Budget

\* Every step keeps the bound.
LEMMA NextIInv == ASSUME IInv, [Next]_vars PROVE IInv'
<1>1. TypeOK' /\ Recent'
  BY RecentStep DEF IInv
<1>2. CASE \E c \in Callers : Acquire(c) \/ ReplyLost(c)
  <2>1. PICK c \in Callers : Script(c)
    BY <1>2 DEF Acquire, ReplyLost
  <2>2. Budget'
    BY <2>1, ScriptBudget
  <2> QED BY <1>1, <2>2 DEF IInv
<1>3. CASE BeginWindow
  BY <1>1, <1>3 DEF IInv, BeginWindow, Budget
<1>4. CASE \E c \in Callers : ReadClock(c) \/ Die(c)
  BY <1>1, <1>4 DEF IInv, ReadClock, Die, Budget
<1>5. CASE Tick \/ UNCHANGED vars
  BY <1>1, <1>5 DEF IInv, Tick, vars, Budget
<1> QED BY <1>1, <1>2, <1>3, <1>4, <1>5 DEF Next, IInv

-----------------------------------------------------------------------------
\* In a window of any length, beginning at any moment, the script hands out at
\* most a full bucket, the refill of that length, and once more the refill of
\* every interval by which a late script moved the bucket's time back, whatever
\* the number of worker processes (rateLimiter.ts, LUA_SCRIPT).
THEOREM NotTooMany == Spec => []GrantsBounded
<1>1. IInv /\ [Next]_vars => IInv'
  BY NextIInv
<1>2. IInv => GrantsBounded
  <2> SUFFICES ASSUME IInv
               PROVE  seen * Parts <= Capacity + Refill * (now + MaxDelay - from + rewound)
    BY DEF GrantsBounded
  <2> USE SizesAssumption
  <2>1. /\ now \in Nat /\ ts \in Nat /\ from \in Nat /\ seen \in Nat
        /\ tokens \in 0..Capacity /\ from <= now /\ ts <= now /\ rewound \in Nat
    BY DEF IInv, TypeOK, Recent
  <2> DEFINE whole == now + MaxDelay - from + rewound
  <2>2. whole \in Nat /\ Refill * whole \in Nat /\ Capacity \in Nat
    <3>1. whole \in Nat
      BY <2>1
    <3> QED BY <3>1, CapacityType
  <2>3. CASE seen = 0
    <3>1. seen * Parts = 0
      BY <2>3
    <3> QED BY <2>2, <3>1
  <2>4. CASE seen > 0
    <3> DEFINE part == ts + MaxDelay - from + rewound
    <3>1. part \in Nat /\ part <= whole
      BY <2>1, <2>4 DEF IInv, Budget
    <3>2. Refill * part <= Refill * whole /\ Refill * part \in Nat
      BY <2>2, <3>1, RefillGrows
    <3>3. seen * Parts + tokens <= Capacity + Refill * part
      BY <2>4 DEF IInv, Budget
    <3>4. seen * Parts \in Nat
      BY <2>1
    <3> HIDE DEF part, whole
    <3>5. seen * Parts <= Capacity + Refill * whole
      BY <2>1, <2>2, <3>2, <3>3, <3>4
    <3> QED BY <3>5 DEF whole
  <2> QED BY <2>1, <2>3, <2>4
<1> QED BY <1>1, <1>2, InitInvs, PTL DEF Spec

\* In whatever order the scripts run, a caller is refused only if a token was
\* handed out within the time a token takes to be refilled.
THEOREM NotTooFew == Spec => TokensComeBack
<1>1. FillInv /\ [Next]_vars => FillInv'
  BY FillStep
<1>2. FillInv /\ [Next]_vars =>
        [\A c \in Callers :
           pc[c] = "acquiring" /\ pc'[c] = "sleeping" =>
             seen > 0 \/ Refill * (now - from) < Parts + Refill * MaxDelay]_vars
  <2> SUFFICES ASSUME FillInv, Next, NEW c \in Callers,
                      pc[c] = "acquiring", pc'[c] = "sleeping"
               PROVE  seen > 0 \/ Refill * (now - from) < Parts + Refill * MaxDelay
    OBVIOUS
  <2>1. PICK q \in Callers : Acquire(q)
    BY DEF Next, Tick, BeginWindow, ReadClock, ReplyLost, Script, Die, Goto,
           FillInv, TypeOK
  <2>2. q = c /\ ~Allowed(c)
    BY <2>1 DEF Acquire, Goto, FillInv, TypeOK
  <2> QED BY <2>1, <2>2, ScriptFills DEF Acquire
<1> QED BY <1>1, <1>2, InitInvs, PTL DEF Spec, TokensComeBack

=============================================================================
