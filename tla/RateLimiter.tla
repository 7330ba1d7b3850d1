----------------------------- MODULE RateLimiter -----------------------------
(***************************************************************************)
(* GlobalRateLimiter: the token bucket that the worker processes share in  *)
(* Redis.  A caller reads its clock, sends the script with that time, and  *)
(* polls until the script hands it a token.                                *)
(*                                                                         *)
(* Time is counted in ticks and tokens in parts, so that the refill of one *)
(* tick is a whole number of parts: ratePerSec = Capacity / Parts.         *)
(*                                                                         *)
(* The callers belong to any number of worker processes, each with its own *)
(* clock and connection: a script may run after one with a later time.     *)
(*                                                                         *)
(* The window is an observer: it may begin at any moment, and counts the   *)
(* tokens handed out since and how far the bucket's time was moved back.   *)
(***************************************************************************)
EXTENDS Naturals

CONSTANTS
  Callers,        \* calls of acquire under way, in all worker processes
  Parts,          \* parts of one token
  Refill,         \* parts refilled in one tick
  TicksPerSecond,
  KeyTTL,         \* EXPIRE: 60 s
  MaxDelay,       \* how old a time may be when its script runs
  MaxLost,        \* bound: replies lost
  MaxTime         \* bound: time stops

Capacity == Refill * TicksPerSecond

ASSUME SizesAssumption ==
  /\ Parts \in Nat \ {0} /\ Refill \in Nat /\ TicksPerSecond \in Nat
  /\ KeyTTL \in Nat /\ MaxDelay \in Nat
  /\ MaxLost \in Nat /\ MaxTime \in Nat

\* One token per second at least: below that the bucket never holds a token.
ASSUME RateAssumption == Parts <= Capacity

\* A bucket that expires would have been full.
ASSUME ExpiryAssumption == TicksPerSecond + MaxDelay <= KeyTTL

VARIABLES
  now,      \* time
  tokens,   \* the bucket, in parts
  ts,       \* the time of the last script
  expires,  \* when Redis drops the bucket
  pc,       \* caller -> where its call stands
  stamp,    \* caller -> the time it sent with the script
  from,     \* when the window began
  seen,     \* tokens handed out since
  rewound,  \* history: the time by which scripts have moved ts back since
  lost      \* replies lost so far

vars == <<now, tokens, ts, expires, pc, stamp, from, seen, rewound, lost>>

\* The bucket stays between empty and full, and times are times of the run.
TypeOK ==
  /\ now \in Nat
  /\ tokens \in 0..Capacity
  /\ ts \in Nat
  /\ expires \in Nat
  /\ pc \in [Callers -> {"idle", "acquiring", "sleeping"}]
  /\ stamp \in [Callers -> Nat]
  /\ from \in Nat
  /\ seen \in Nat /\ rewound \in Nat
  /\ lost \in 0..MaxLost

-----------------------------------------------------------------------------
Goto(c, to) == pc' = [pc EXCEPT ![c] = to]

Smaller(m, n) == IF m <= n THEN m ELSE n

\* The key is missing before the first script.
Init ==
  /\ now = 0
  /\ tokens = 0 /\ ts = 0 /\ expires = 0
  /\ pc = [c \in Callers |-> "idle"]
  /\ stamp = [c \in Callers |-> 0]
  /\ from = 0 /\ seen = 0 /\ rewound = 0 /\ lost = 0

\* Date.now() / 1000, at the first attempt and after every pause.
ReadClock(c) ==
  /\ pc[c] \in {"idle", "sleeping"}
  /\ stamp' = [stamp EXCEPT ![c] = now]
  /\ Goto(c, "acquiring")
  /\ UNCHANGED <<now, tokens, ts, expires, from, seen, rewound, lost>>

Missing == now >= expires

\* math.max(0, now - ts)
Elapsed(c) == IF stamp[c] > ts THEN stamp[c] - ts ELSE 0

\* Mutant of Refilled: the capacity does not cap it.
RefilledUncapped(c) ==
  IF Missing THEN Capacity ELSE tokens + Elapsed(c) * Refill

Refilled(c) ==
  IF Missing THEN Capacity
  ELSE Smaller(Capacity, tokens + Elapsed(c) * Refill)

Allowed(c) == Refilled(c) >= Parts

\* Mutant of Remaining: a refusal writes the time but not the refill.
RemainingIfAllowed(c) == IF Allowed(c) THEN Refilled(c) - Parts ELSE tokens

Remaining(c) == IF Allowed(c) THEN Refilled(c) - Parts ELSE Refilled(c)

\* HMSET writes the caller's time, which may be before that of the last script.
Rewinds(c) == IF stamp[c] < ts THEN ts - stamp[c] ELSE 0

\* The script is atomic: refill, decide, write back.
Script(c) ==
  /\ pc[c] = "acquiring"
  /\ tokens' = Remaining(c)
  /\ ts' = stamp[c]
  /\ expires' = now + KeyTTL
  /\ seen' = IF Allowed(c) THEN seen + 1 ELSE seen
  /\ rewound' = rewound + Rewinds(c)
  /\ UNCHANGED <<now, stamp, from>>

Acquire(c) ==
  /\ Script(c)
  /\ Goto(c, IF Allowed(c) THEN "idle" ELSE "sleeping")
  /\ UNCHANGED lost

\* The reply is lost and the client sends the script again.
ReplyLost(c) ==
  /\ lost < MaxLost
  /\ Script(c)
  /\ lost' = lost + 1
  /\ UNCHANGED pc

\* The worker process dies before its script runs.
Die(c) ==
  /\ pc[c] # "idle"
  /\ Goto(c, "idle")
  /\ UNCHANGED <<now, tokens, ts, expires, stamp, from, seen, rewound, lost>>

Tick ==
  /\ now < MaxTime
  /\ \A c \in Callers : pc[c] = "acquiring" => now < stamp[c] + MaxDelay
  /\ now' = now + 1
  /\ UNCHANGED <<tokens, ts, expires, pc, stamp, from, seen, rewound, lost>>

BeginWindow ==
  /\ from' = now /\ seen' = 0 /\ rewound' = 0
  /\ UNCHANGED <<now, tokens, ts, expires, pc, stamp, lost>>

Next ==
  \/ Tick \/ BeginWindow
  \/ \E c \in Callers : ReadClock(c) \/ Acquire(c) \/ ReplyLost(c) \/ Die(c)

Spec == Init /\ [][Next]_vars

-----------------------------------------------------------------------------
\* In any window the tokens handed out are at most a full bucket, what is
\* refilled in the window's length, and what is refilled twice: the length of
\* all the intervals by which late scripts moved the bucket's time back.
GrantsBounded ==
  seen * Parts <= Capacity + Refill * (now + MaxDelay - from + rewound)

\* "At most GLOBAL_RATE_LIMIT_PER_SEC outbound health-check requests start per
\* second, no matter how many worker processes are running", after a burst of a
\* full bucket (the class comment of rateLimiter.ts).  Not so: two workers whose
\* scripts overtake each other are handed more.
LimitIsGlobal == seen * Parts <= Capacity + Refill * (now + MaxDelay - from)

\* A caller is refused only while a token takes to be refilled: if none was
\* handed out since a window began, the window is shorter than that, however
\* often and in whatever order the callers poll.
TokensComeBack ==
  [][\A c \in Callers :
       pc[c] = "acquiring" /\ pc'[c] = "sleeping" =>
         seen > 0 \/ Refill * (now - from) < Parts + Refill * MaxDelay]_vars

=============================================================================
