---------------------------- MODULE HealthCheck ----------------------------
(***************************************************************************)
(* One call of performHealthCheck (apps/worker/src/healthCheck.ts) with    *)
(* the guard of apps/worker/src/ssrf.ts: a chain of requests under one     *)
(* abort timer, what its result is, and what the handler makes of it.      *)
(*                                                                         *)
(* The other end is free: DNS answers and their delays, statuses, headers, *)
(* bodies, errors, and servers that never answer.  An address is a record: *)
(* "ipv4" and "mapped" (IPv4 in IPv6) with their first three bytes, "ipv6" *)
(* with its first two groups and whether the rest is 0, 1 or more.         *)
(***************************************************************************)
EXTENDS UrlList, Integers

CONSTANTS
  LocalHosts,    \* localhost and the names under it
  Literals,      \* the hosts that are IPv4 addresses, and the addresses
  Answers,       \* the sets of addresses a lookup may return
  Locations,     \* the pieces a Location header may hold
  Statuses,      \* the statuses a response may have
  MaxRedirects,  \* 5
  Timeout,       \* REQUEST_TIMEOUT_MS, in ticks
  MaxLookup,     \* the longest a lookup takes, in ticks
  MaxBytes,      \* MAX_RESPONSE_BYTES, in parts
  MaxChunk       \* the longest chunk of a body, in parts

ASSUME HealthCheckAssumption ==
  /\ {MaxRedirects, MaxLookup} \subseteq Nat
  /\ {Timeout, MaxBytes, MaxChunk} \subseteq Nat \ {0}

Bytes == 0 .. 255
Groups == 0 .. 65535
Ipv4Addresses ==
  [kind : {"ipv4", "mapped"}, first : Bytes, second : Bytes, third : Bytes]
Ipv6Addresses == [kind : {"ipv6"}, first : Groups, second : Groups, rest : {0, 1, 2}]
Addresses == Ipv4Addresses \cup Ipv6Addresses

ASSUME AddressesAssumption ==
  /\ \A host \in DOMAIN Literals : Literals[host] \in Addresses /\ host \notin LocalHosts
  /\ Answers \subseteq SUBSET Addresses

VARIABLES
  step,      \* the await the call is at: "idle", "guard", "fetch", "body", "done", "threw"
  target,    \* currentUrl
  hop,       \* redirects
  time,      \* since the call began
  since,     \* when the guard was entered
  aborted,   \* the timer has fired
  resolved,  \* the addresses the guard has seen for it
  received,  \* of the body
  result

healthVars == <<step, target, hop, time, since, aborted, resolved, received, result>>

\* "threw" is the result of an exception the handler does not expect.
NoResult == [outcome |-> "none", transient |-> FALSE, status |-> 0, refused |-> FALSE]
Success(status) == [NoResult EXCEPT !.outcome = "success", !.status = status]
Failure(transient) == [NoResult EXCEPT !.outcome = "failure", !.transient = transient]
Refusal == [Failure(FALSE) EXCEPT !.refused = TRUE]

Nowhere == [scheme |-> "none", host |-> "none"]

HealthInit ==
  /\ step = "idle" /\ target = Nowhere /\ hop = 0 /\ time = 0 /\ since = 0
  /\ aborted = FALSE /\ resolved = {} /\ received = 0 /\ result = NoResult

-----------------------------------------------------------------------------
(* ssrf.ts *)

\* Mutant of IsPrivateOrReservedIpv4: one range ends a number early.
IsPrivateOrReservedIpv4Short(a, b) ==
  \/ a \in {0, 10, 127} \/ a >= 224
  \/ a = 100 /\ b \in 64 .. 126
  \/ a = 169 /\ b = 254
  \/ a = 172 /\ b \in 16 .. 31
  \/ a = 192 /\ b \in {0, 168}
  \/ a = 198 /\ b \in {18, 19}

IsPrivateOrReservedIpv4(a, b) ==
  \/ a \in {0, 10, 127} \/ a >= 224
  \/ a = 100 /\ b \in 64 .. 127
  \/ a = 169 /\ b = 254
  \/ a = 172 /\ b \in 16 .. 31
  \/ a = 192 /\ b \in {0, 168}
  \/ a = 198 /\ b \in {18, 19}

\* "fc", "fd", "fe8" to "feb", "ff"
ReservedPrefixes == {252, 253, 4072, 4073, 4074, 4075, 255}

\* startsWith on the hexadecimal text of a group, which has no leading zeros.
Weights == {1, 16, 256, 4096}
StartsWith(group, prefix) == \E weight \in Weights : group \div weight = prefix

IsPrivateOrReservedIpv6(first, second, rest) ==
  \/ first = 0 /\ second = 0 /\ rest \in {0, 1}
  \/ \E prefix \in ReservedPrefixes : StartsWith(first, prefix)

IsPrivateOrReservedIp(x) ==
  IF x.kind = "ipv6" THEN IsPrivateOrReservedIpv6(x.first, x.second, x.rest)
                     ELSE IsPrivateOrReservedIpv4(x.first, x.second)

Refused(addresses) == addresses = {} \/ \E x \in addresses : IsPrivateOrReservedIp(x)

-----------------------------------------------------------------------------
(* performHealthCheck *)

\* Before the try: new URL of a text that is no absolute URL escapes.
Start(u) ==
  /\ step = "idle"
  /\ step' = IF Parses(u) THEN "guard" ELSE "threw"
  /\ target' = [scheme |-> u.scheme, host |-> u.host]
  /\ UNCHANGED <<hop, time, since, aborted, resolved, received, result>>

Return(r) ==
  /\ step' = "done"
  /\ result' = r
  /\ UNCHANGED <<target, hop, time, since, aborted, received>>

\* assertNotPrivateTarget throws SsrfBlockedError, which is caught at once ...
Refuse(addresses) == Return(Refusal) /\ resolved' = addresses

\* ... or returns.
GuardSees(addresses) ==
  IF Refused(addresses) THEN Refuse(addresses)
  ELSE /\ step' = "fetch"
       /\ resolved' = addresses
       /\ UNCHANGED <<target, hop, time, since, aborted, received, result>>

GuardLiteral ==
  /\ step = "guard" /\ target.host \in DOMAIN Literals
  /\ GuardSees({Literals[target.host]})

GuardLocal == step = "guard" /\ target.host \in LocalHosts /\ Refuse({})

Looks == step = "guard" /\ target.host \notin LocalHosts \cup DOMAIN Literals

\* dns.lookup answers, whether or not the timer has fired ...
LookupAnswers == Looks /\ \E answer \in Answers : GuardSees(answer)

\* ... or fails, which is refused like a private address.
LookupFails == Looks /\ Refuse({})

\* Past the guard what it saw no longer matters.
Finish(r) == Return(r) /\ resolved' = {}

\* Mutant of Redirect: the new target is fetched without the guard.
RedirectUnguarded(location) ==
  /\ hop < MaxRedirects
  /\ hop' = hop + 1
  /\ target' = [scheme |-> target.scheme, host |-> location.host]
  /\ UNCHANGED <<step, time, since, aborted, resolved, received, result>>

\* The redirect loop goes on with new URL(location, currentUrl): a location
\* without a scheme is relative and keeps scheme and host.
Redirect(location) ==
  LET new == IF location.scheme = "none" THEN target
             ELSE [scheme |-> location.scheme, host |-> location.host]
  IN  IF hop = MaxRedirects \/ location.port = "malformed" \/ ~Allowed(new.scheme)
      THEN Finish(Failure(FALSE))
      ELSE /\ step' = "guard"
           /\ hop' = hop + 1
           /\ target' = new
           /\ since' = time
           /\ resolved' = {}
           /\ UNCHANGED <<time, aborted, received, result>>

IsRedirect(status) == status \in 300 .. 399

\* The response's status and headers arrive.
MissingLocation ==
  /\ step = "fetch" /\ ~aborted
  /\ \E status \in Statuses : IsRedirect(status)
  /\ Finish(Failure(FALSE))

Redirected ==
  /\ step = "fetch" /\ ~aborted
  /\ \E status \in Statuses : IsRedirect(status)
  /\ \E location \in Locations : Redirect(location)

\* extractTitleWithSizeLimit reads the body only if it is HTML.
FinalWithoutTitle ==
  /\ step = "fetch" /\ ~aborted
  /\ \E status \in Statuses : ~IsRedirect(status) /\ Finish(Success(status))

FinalWithBody ==
  /\ step = "fetch" /\ ~aborted
  /\ \E status \in Statuses : ~IsRedirect(status) /\ result' = [NoResult EXCEPT !.status = status]
  /\ step' = "body"
  /\ UNCHANGED <<target, hop, time, since, aborted, resolved, received>>

\* Mutant of WantsMore: the size is tested after the next read.
WantsMoreLate == received <= MaxBytes

WantsMore == received < MaxBytes

\* A chunk arrives without completing a title.
ReadChunk ==
  /\ step = "body" /\ ~aborted /\ WantsMore
  /\ \E n \in 1 .. MaxChunk : received' = received + n
  /\ UNCHANGED <<step, target, hop, time, since, aborted, resolved, result>>

\* The title is complete, the body has ended, or enough has been read.
BodyDone ==
  /\ step = "body" /\ ~aborted
  /\ Finish(Success(result.status))

\* classifyError of a network error of fetch or read: some codes are transient.
NetworkError ==
  /\ step \in {"fetch", "body"} /\ ~aborted
  /\ \E transient \in BOOLEAN : Finish(Failure(transient))

-----------------------------------------------------------------------------
(* Time *)

\* Mutant of Deadline: the timer is set again for each redirect.
DeadlinePerHop == (hop + 1) * Timeout

\* One timer for the whole chain.
Deadline == Timeout

Running == step \in {"guard", "fetch", "body"}

Abort ==
  /\ Running /\ ~aborted /\ time >= Deadline
  /\ aborted' = TRUE
  /\ UNCHANGED <<step, target, hop, time, since, resolved, received, result>>

\* Mutant of Interruptible: the signal ends the request but not the body.
InterruptibleFetch == {"fetch"}

Interruptible == {"fetch", "body"}

\* Mutant of AbortError: classifyError does not know the error.
AbortErrorUnknown ==
  /\ aborted /\ step \in Interruptible
  /\ Finish(Failure(FALSE))

\* The open fetch or read rejects with AbortError, and so does a fetch that is
\* called after the timer has fired.
AbortError ==
  /\ aborted /\ step \in Interruptible
  /\ Finish(Failure(TRUE))

\* The timer fires when it is due, and then only a lookup still takes time.
Tick ==
  /\ Running
  /\ IF aborted THEN step = "guard" ELSE time < Deadline
  /\ step = "guard" => Looks /\ time < since + MaxLookup
  /\ time' = time + 1
  /\ UNCHANGED <<step, target, hop, since, aborted, resolved, received, result>>

HealthNext ==
  \/ GuardLiteral \/ GuardLocal \/ LookupAnswers \/ LookupFails
  \/ MissingLocation \/ Redirected \/ FinalWithoutTitle \/ FinalWithBody
  \/ ReadChunk \/ BodyDone \/ NetworkError
  \/ Abort \/ AbortError \/ Tick

\* Time passes, the timer fires, a lookup ends.  No server has to answer.
HealthFairness ==
  /\ WF_healthVars(Tick) /\ WF_healthVars(Abort) /\ WF_healthVars(AbortError)
  /\ WF_healthVars(GuardLiteral \/ GuardLocal \/ LookupAnswers \/ LookupFails)

\* What the handler of the job does with the result.
Verdict ==
  CASE result.outcome = "success" /\ result.status < 500 -> "SUCCESS"
    [] result.outcome = "success" /\ result.status >= 500 -> "retry"
    [] result.outcome = "failure" -> IF result.transient THEN "retry" ELSE "FAILED"
    [] OTHER -> "none"

-----------------------------------------------------------------------------
(* Properties *)

\* The variables have their types.  The bounds among them: at most MaxRedirects
\* redirects are followed, and what is read of a body exceeds MAX_RESPONSE_BYTES
\* by less than a chunk.
HealthTypeOK ==
  /\ step \in {"idle", "guard", "fetch", "body", "done", "threw"}
  /\ hop \in 0 .. MaxRedirects
  /\ received \in 0 .. MaxBytes + MaxChunk - 1
  /\ {time, since} \subseteq Nat /\ aborted \in BOOLEAN
  /\ result.outcome \in {"none", "success", "failure"}

\* The special-purpose blocks of IPv4 by their first three bytes and length, as
\* the registry has them (RFC 6890 and 5771, not ssrf.ts): "this" network,
\* private, shared, loopback, link-local, protocol assignments, documentation,
\* 6to4 relays, benchmark, multicast and reserved.
SpecialBlocks ==
  {<<0, 0, 0, 8>>, <<10, 0, 0, 8>>, <<100, 64, 0, 10>>, <<127, 0, 0, 8>>,
   <<169, 254, 0, 16>>, <<172, 16, 0, 12>>, <<192, 0, 0, 24>>, <<192, 0, 2, 24>>,
   <<192, 88, 99, 24>>, <<192, 168, 0, 16>>, <<198, 18, 0, 15>>,
   <<198, 51, 100, 24>>, <<203, 0, 113, 24>>, <<224, 0, 0, 3>>}

Prefix24(a, b, c, length) == (65536 * a + 256 * b + c) \div 2^(24 - length)

InBlock(x, block) ==
  Prefix24(x.first, x.second, x.third, block[4])
    = Prefix24(block[1], block[2], block[3], block[4])

\* Public IPv6 addresses are those of 2000::/3 outside 2001::/23, 2001:db8::/32,
\* 2002::/16 and 3fff::/20.
Reserved(x) ==
  IF x.kind = "ipv6"
  THEN \/ x.first \div 8192 # 1
       \/ x.first = 8193 /\ (x.second \div 512 = 0 \/ x.second = 3512)
       \/ x.first = 8194
       \/ x.first = 16383 /\ x.second \div 4096 = 0
  ELSE \E block \in SpecialBlocks : InBlock(x, block)

\* What the guard lets through although it is reserved: the 6to4 relays, two of
\* the three documentation blocks, and of IPv6 all but ::, ::1, fc00::/7, fe80::/10
\* and ff00::/8, the ranges its comment names (README, Divergences).
Overlooked(x) ==
  IF x.kind = "ipv6"
  THEN /\ ~(x.first = 0 /\ x.second = 0 /\ x.rest \in {0, 1})
       /\ x.first \div 512 # 126 /\ x.first \div 64 # 1018 /\ x.first \div 256 # 255
  ELSE \E block \in {<<192, 88, 99, 24>>, <<198, 51, 100, 24>>, <<203, 0, 113, 24>>} :
         InBlock(x, block)

\* What it refuses although most of it is public: all of 192.0.0.0/16.
Overblocked(x) == x.kind # "ipv6" /\ InBlock(x, <<192, 0, 0, 16>>)

\* Every request of the chain, after every redirect, goes to the host the guard
\* was asked about, and the guard has seen its addresses, none of them reserved
\* but for those it overlooks; and no host is refused whose addresses are all
\* public, but for those it overblocks.
TargetsAreGuarded ==
  /\ step \in {"fetch", "body"} =>
       /\ resolved # {} /\ \A x \in resolved : Reserved(x) => Overlooked(x)
       /\ target.host \notin LocalHosts
       /\ target.host \in DOMAIN Literals => resolved = {Literals[target.host]}
  /\ result.refused /\ resolved # {} =>
       \E x \in resolved : Reserved(x) \/ Overblocked(x)

\* A check takes at most the timeout and one lookup, however many redirects it
\* follows.  (The lease of its slot has to outlast this, not the timeout.)
EndsInTime == time <= Timeout + MaxLookup

\* A check that was cut off by the timer is tried again, unless the guard refused
\* its target; it never counts as a success or as a permanent failure, whatever
\* arrived before.
TimedOutIsRetried == step = "done" /\ aborted => Verdict = "retry" \/ result.refused

\* Every payload parses.  (An exception would leave the handler without the
\* claim's token, and the row PROCESSING.)
NeverThrows == step # "threw"

\* Every check ends, whatever the servers do.
ChecksEnd == Running ~> step = "done"

=============================================================================
