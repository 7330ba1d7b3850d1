-------------------------- MODULE UrlJourneyProofs --------------------------
(***************************************************************************)
(* In this order: normal forms, for any hosts; the time a health check     *)
(* takes, what becomes of one that is cut off, and its guard; batches and  *)
(* what their senders know; what the recursive definitions of UrlList      *)
(* compute for any text; and that the rows of a batch are what its sender  *)
(* wrote.                                                                  *)
(***************************************************************************)
EXTENDS UrlJourney, TLAPS, FiniteSetTheorems, SequenceTheorems, WellFoundedInduction

-----------------------------------------------------------------------------
(* Normal forms *)

\* What a valid piece may hold, and its normal form part by part.
LEMMA NormalParts ==
  ASSUME NEW p \in Written, Valid(p)
  PROVE  /\ p.scheme \in {"none", "http", "https"}
         /\ p.port \in {"none", "80", "443", "other"} /\ p.path \in {"none", "/", "more"}
         /\ p.query \in {"none", "empty", "some"}
         /\ Normal(p) \in Written
         /\ Normal(p).scheme = (IF p.scheme = "none" THEN "https" ELSE p.scheme)
         /\ Normal(p).host = p.host /\ Normal(p).capitals = FALSE
         /\ Normal(p).port = (IF DefaultPort(WithScheme(p)) THEN "none" ELSE p.port)
         /\ Normal(p).path = (IF p.path # "more" /\ p.query = "none" THEN "none"
                              ELSE IF p.path = "none" THEN "/" ELSE p.path)
         /\ Normal(p).query = p.query /\ Normal(p).fragment = FALSE
<1>1. /\ p.scheme \in {"none", "http", "https"} /\ p.host \in Hosts
      /\ p.port \in {"none", "80", "443", "other"} /\ p.path \in {"none", "/", "more"}
      /\ p.query \in {"none", "empty", "some"}
  BY DEF Valid, Parses, WithScheme, Allowed, Written
<1>2. PICK w \in Written : w = WithScheme(p)
  BY DEF WithScheme, Written
<1>3. /\ w.scheme = (IF p.scheme = "none" THEN "https" ELSE p.scheme)
      /\ w.host = p.host /\ w.port = p.port /\ w.path = p.path /\ w.query = p.query
  BY <1>2 DEF WithScheme, Written
<1>4. PICK u \in Written : u = [Parsed(w) EXCEPT !.fragment = FALSE]
  BY <1>1, <1>3 DEF Parsed, Written
<1>5. /\ u.scheme = w.scheme /\ u.host = w.host /\ u.capitals = FALSE
      /\ u.port = (IF DefaultPort(w) THEN "none" ELSE w.port)
      /\ u.path = (IF w.path = "none" THEN "/" ELSE w.path)
      /\ u.query = w.query /\ u.fragment = FALSE
  BY <1>4 DEF Parsed, Written
<1>6. Normal(p) = Stripped(u)
  BY <1>2, <1>4 DEF Normal
<1>7. PICK n \in Written : n = Stripped(u)
  BY DEF Stripped, Written
<1>8. /\ n.scheme = u.scheme /\ n.host = u.host /\ n.capitals = FALSE /\ n.port = u.port
      /\ n.path = (IF u.path = "/" /\ u.query = "none" THEN "none" ELSE u.path)
      /\ n.query = u.query /\ n.fragment = FALSE
  BY <1>5, <1>7 DEF Stripped, Written
<1> QED BY <1>1, <1>2, <1>3, <1>5, <1>6, <1>7, <1>8

\* Two records of pieces that agree in every part are equal.
LEMMA SameParts ==
  ASSUME NEW m \in Written, NEW n \in Written,
         m.scheme = n.scheme, m.host = n.host, m.capitals = n.capitals, m.port = n.port,
         m.path = n.path, m.query = n.query, m.fragment = n.fragment
  PROVE  m = n
BY DEF Written

\* The normal form of a valid piece is an absolute URL that is valid itself and
\* already normal: the worker can parse a payload, and a list of normal forms
\* that is submitted again gives the same rows.
THEOREM NormalFormIsStable ==
  ASSUME NEW p \in Written, Valid(p)
  PROVE  /\ Normal(p) \in Written /\ Parses(Normal(p))
         /\ Valid(Normal(p)) /\ Normal(Normal(p)) = Normal(p)
<1>1. PICK n \in Written : n = Normal(p)
  BY NormalParts
<1>2. /\ n.scheme = (IF p.scheme = "none" THEN "https" ELSE p.scheme)
      /\ n.port = (IF DefaultPort(WithScheme(p)) THEN "none" ELSE p.port)
      /\ n.path = (IF p.path # "more" /\ p.query = "none" THEN "none"
                   ELSE IF p.path = "none" THEN "/" ELSE p.path)
      /\ n.query = p.query /\ n.host = p.host /\ n.capitals = FALSE /\ n.fragment = FALSE
  BY <1>1, NormalParts
<1>3. n.scheme \in {"http", "https"} /\ n.port # "malformed"
  BY <1>2, NormalParts
<1>4. WithScheme(n) = n
  BY <1>3 DEF WithScheme
<1>5. Parses(n) /\ Valid(n)
  BY <1>3, <1>4, BlankAssumption DEF Parses, Valid, Allowed
<1>6. ~DefaultPort(n)
  BY <1>2, NormalParts DEF DefaultPort, WithScheme
<1>7. PICK m \in Written : m = Normal(n)
  BY <1>5, NormalParts
<1>8. /\ m.scheme = n.scheme /\ m.host = n.host /\ m.capitals = n.capitals /\ m.port = n.port
      /\ m.query = n.query /\ m.fragment = n.fragment
  BY <1>2, <1>3, <1>4, <1>5, <1>6, <1>7, NormalParts
<1>9. m.path = (IF n.path # "more" /\ n.query = "none" THEN "none"
                ELSE IF n.path = "none" THEN "/" ELSE n.path)
  BY <1>5, <1>7, NormalParts
<1>10. p.path \in {"none", "/", "more"}
  BY NormalParts
<1>11. m.path = n.path
  BY <1>2, <1>9, <1>10
<1>12. m = n
  BY <1>8, <1>11, SameParts
<1> QED BY <1>1, <1>5, <1>7, <1>12

\* Two valid pieces have one normal form exactly if they mean the same: removing
\* duplicates by the normal form keeps every URL and repeats none.
THEOREM NormalFormIsMeaning ==
  ASSUME NEW p \in Written, NEW q \in Written, Valid(p), Valid(q)
  PROVE  Normal(p) = Normal(q) <=> Meaning(p) = Meaning(q)
<1> DEFINE Scheme(r) == IF r.scheme = "none" THEN "https" ELSE r.scheme
           Default(s) == IF s = "http" THEN "80" ELSE "443"
           Port(r) == IF r.port # "none" THEN r.port ELSE Default(Scheme(r))
           Path(r) == IF r.path = "none" THEN "/" ELSE r.path
<1>1. ASSUME NEW r \in Written, Valid(r)
      PROVE  Meaning(r) = [scheme |-> Scheme(r), host |-> r.host, port |-> Port(r),
                           path |-> Path(r), query |-> r.query]
  BY NormalParts, <1>1 DEF Meaning, WithScheme, Written
<1>2. ASSUME NEW r \in Written, Valid(r)
      PROVE  DefaultPort(WithScheme(r)) <=> r.port = Default(Scheme(r))
  BY NormalParts, <1>2, ZenonT(40) DEF WithScheme, DefaultPort, Written
<1>3. Meaning(p) = Meaning(q) <=> /\ Scheme(p) = Scheme(q) /\ p.host = q.host
                                  /\ Port(p) = Port(q) /\ Path(p) = Path(q) /\ p.query = q.query
  <2> HIDE DEF Scheme, Port, Path
  <2> QED BY <1>1
<1>4. Normal(p) = Normal(q) <=> /\ Scheme(p) = Scheme(q) /\ p.host = q.host
                                /\ Normal(p).port = Normal(q).port
                                /\ Normal(p).path = Normal(q).path /\ p.query = q.query
  <2>1. Normal(p) \in Written /\ Normal(q) \in Written
    BY NormalParts
  <2>2. ASSUME NEW r \in Written, Valid(r)
        PROVE  /\ Normal(r).scheme = Scheme(r) /\ Normal(r).host = r.host
               /\ Normal(r).query = r.query
               /\ Normal(r).capitals = FALSE /\ Normal(r).fragment = FALSE
    BY <2>2, NormalParts
  <2> HIDE DEF Scheme
  <2>3. ASSUME Normal(p) = Normal(q)
        PROVE  Scheme(p) = Scheme(q) /\ p.host = q.host /\ p.query = q.query
    BY <2>2, <2>3, Zenon
  <2>4. ASSUME Scheme(p) = Scheme(q), p.host = q.host, p.query = q.query,
               Normal(p).port = Normal(q).port, Normal(p).path = Normal(q).path
        PROVE  Normal(p) = Normal(q)
    <3>1. PICK m \in Written : m = Normal(p)
      BY <2>1
    <3>2. PICK n \in Written : n = Normal(q)
      BY <2>1
    <3>3. /\ m.scheme = n.scheme /\ m.host = n.host /\ m.query = n.query
          /\ m.port = n.port /\ m.path = n.path
      BY <2>2, <2>4, <3>1, <3>2
    <3>4. m.capitals = n.capitals /\ m.fragment = n.fragment
      BY <2>2, <3>1, <3>2
    <3> QED BY <3>1, <3>2, <3>3, <3>4, SameParts
  <2> QED BY <2>3, <2>4
<1>5. ASSUME NEW r \in Written, Valid(r)
      PROVE  /\ Scheme(r) \in {"http", "https"}
             /\ r.port \in {"none", "80", "443", "other"} /\ r.path \in {"none", "/", "more"}
             /\ Normal(r).port = (IF r.port = Default(Scheme(r)) THEN "none" ELSE r.port)
             /\ Normal(r).path = (IF Path(r) = "/" /\ r.query = "none" THEN "none" ELSE Path(r))
  BY <1>2, <1>5, NormalParts
<1> HIDE DEF Scheme
<1>6. ASSUME Scheme(p) = Scheme(q)
      PROVE  Normal(p).port = Normal(q).port <=> Port(p) = Port(q)
  BY <1>5, <1>6
<1>7. ASSUME p.query = q.query
      PROVE  Normal(p).path = Normal(q).path <=> Path(p) = Path(q)
  BY <1>5, <1>7
<1> QED BY <1>3, <1>4, <1>6, <1>7

-----------------------------------------------------------------------------
(* Time *)

\* While the timer runs it has time left, and a lookup began before it fired.
InTime ==
  /\ time \in Nat /\ since \in Nat /\ aborted \in BOOLEAN
  /\ since <= Timeout
  /\ ~aborted => time <= Timeout
  /\ EndsInTime

\* What a check that was cut off may return.
CutOff == step = "done" /\ aborted => result = Failure(TRUE) \/ result = Refusal

IInv == InTime /\ CutOff

\* The initial states satisfy both.
LEMMA InitIInv == Init => IInv
<1>1. Timeout \in Nat /\ MaxLookup \in Nat
  BY HealthCheckAssumption
<1> SUFFICES ASSUME Init PROVE IInv
  OBVIOUS
<1>2. step = "idle" /\ time = 0 /\ since = 0 /\ aborted \in BOOLEAN
  BY DEF Init, HealthInit
<1>3. CutOff
  BY <1>2 DEF CutOff
<1>4. InTime
  <2>1. since <= Timeout /\ time <= Timeout /\ time <= Timeout + MaxLookup
    BY <1>1, <1>2
  <2> QED BY <1>2, <2>1 DEF InTime, EndsInTime
<1> QED BY <1>3, <1>4 DEF IInv

\* Every step keeps the times: only a lookup outlasts the timer.
LEMMA NextInTime == InTime /\ [Next]_vars => InTime'
<1>1. Timeout \in Nat /\ MaxLookup \in Nat
  BY HealthCheckAssumption
<1> USE <1>1 DEF InTime, EndsInTime
<1> SUFFICES ASSUME InTime, [Next]_vars PROVE InTime'
  OBVIOUS
<1>2. CASE UNCHANGED vars
  BY <1>2 DEF vars
<1>3. CASE Submit
  BY <1>3 DEF Submit, healthVars
<1>4. CASE Perform
  BY <1>4 DEF Perform, Start
<1>5. CASE GuardLiteral \/ GuardLocal \/ LookupAnswers \/ LookupFails
  BY <1>5 DEF GuardLiteral, GuardLocal, LookupAnswers, LookupFails, GuardSees, Refuse, Return
<1>6. CASE \/ MissingLocation \/ FinalWithoutTitle \/ FinalWithBody
           \/ ReadChunk \/ BodyDone \/ NetworkError
  BY <1>6 DEF MissingLocation, FinalWithoutTitle, FinalWithBody, ReadChunk, BodyDone,
              NetworkError, Finish, Return
<1>7. CASE Redirected
  BY <1>7 DEF Redirected, Redirect, Finish, Return
<1>8. CASE Abort
  BY <1>8 DEF Abort
<1>9. CASE AbortError
  BY <1>9 DEF AbortError, Finish, Return
<1>10. CASE Tick
  BY <1>10 DEF Tick, Deadline
<1> QED BY <1>2, <1>3, <1>4, <1>5, <1>6, <1>7, <1>8, <1>9, <1>10 DEF Next, Check, HealthNext

\* Every step keeps the results: once the timer has fired there are only two
\* ways to end.
LEMMA NextCutOff == InTime /\ CutOff /\ [Next]_vars => CutOff'
<1> USE DEF CutOff
<1> SUFFICES ASSUME InTime, CutOff, [Next]_vars PROVE CutOff'
  OBVIOUS
<1>2. CASE UNCHANGED vars
  BY <1>2 DEF vars
<1>3. CASE Submit
  BY <1>3 DEF Submit, healthVars
<1>4. CASE Perform
  BY <1>4 DEF Perform, Start
<1>5. CASE GuardLiteral \/ GuardLocal \/ LookupAnswers \/ LookupFails
  BY <1>5 DEF GuardLiteral, GuardLocal, LookupAnswers, LookupFails, GuardSees, Refuse, Return
<1>6. CASE \/ MissingLocation \/ FinalWithoutTitle \/ FinalWithBody
           \/ ReadChunk \/ BodyDone \/ NetworkError
  BY <1>6 DEF MissingLocation, FinalWithoutTitle, FinalWithBody, ReadChunk, BodyDone,
              NetworkError, Finish, Return
<1>7. CASE Redirected
  BY <1>7 DEF Redirected, Redirect, Finish, Return
<1>8. CASE Abort
  BY <1>8 DEF Abort, Running
<1>9. CASE AbortError
  BY <1>9 DEF AbortError, Finish, Return
<1>10. CASE Tick
  BY <1>10 DEF Tick, Running
<1> QED BY <1>2, <1>3, <1>4, <1>5, <1>6, <1>7, <1>8, <1>9, <1>10 DEF Next, Check, HealthNext

\* Every step keeps the invariant of times and verdicts.
LEMMA NextIInv == IInv /\ [Next]_vars => IInv'
BY NextInTime, NextCutOff DEF IInv

\* One timer for the whole chain: no redirect buys a check more time, and only a
\* lookup can outlast it.
THEOREM ChecksEndInTime == Spec => []EndsInTime
<1>1. IInv => EndsInTime
  BY DEF IInv, InTime
<1> QED BY <1>1, InitIInv, NextIInv, PTL DEF Spec

\* A check that was cut off is tried again or was refused.
THEOREM CutOffIsRetried == Spec => []TimedOutIsRetried
<1>1. IInv => TimedOutIsRetried
  BY DEF IInv, CutOff, TimedOutIsRetried, Verdict, Failure, Refusal, NoResult
<1> QED BY <1>1, InitIInv, NextIInv, PTL DEF Spec

-----------------------------------------------------------------------------
(* The guard *)

\* The lengths of the blocks.
LEMMA Powers ==
  /\ 2^(24 - 24) = 1 /\ 2^(24 - 16) = 256 /\ 2^(24 - 15) = 512 /\ 2^(24 - 12) = 4096
  /\ 2^(24 - 10) = 16384 /\ 2^(24 - 8) = 65536 /\ 2^(24 - 3) = 2097152
OBVIOUS

\* The blocks of an IPv4 address as conditions on its bytes.
LEMMA BlocksOnBytes ==
  ASSUME NEW x, NEW a \in Bytes, NEW b \in Bytes, NEW c \in Bytes,
         x.first = a, x.second = b, x.third = c
  PROVE  /\ \A f \in Bytes : InBlock(x, <<f, 0, 0, 8>>) <=> a = f
         /\ InBlock(x, <<100, 64, 0, 10>>) <=> a = 100 /\ b \in 64 .. 127
         /\ InBlock(x, <<172, 16, 0, 12>>) <=> a = 172 /\ b \in 16 .. 31
         /\ InBlock(x, <<198, 18, 0, 15>>) <=> a = 198 /\ b \in {18, 19}
         /\ \A f, s \in Bytes : InBlock(x, <<f, s, 0, 16>>) <=> a = f /\ b = s
         /\ \A f, s, d \in Bytes :
              InBlock(x, <<f, s, d, 24>>) <=> a = f /\ b = s /\ c = d
         /\ InBlock(x, <<224, 0, 0, 3>>) <=> a >= 224
<1>1. ASSUME NEW f, NEW s, NEW d, NEW n
      PROVE  InBlock(x, <<f, s, d, n>>) <=> Prefix24(a, b, c, n) = Prefix24(f, s, d, n)
  BY SMT DEF InBlock
<1>2. ASSUME NEW f \in Bytes
      PROVE  InBlock(x, <<f, 0, 0, 8>>) <=> a = f
  <2>1. Prefix24(a, b, c, 8) = Prefix24(f, 0, 0, 8) <=> a = f
    BY Powers, SMT DEF Prefix24, Bytes
  <2>2. InBlock(x, <<f, 0, 0, 8>>) <=> Prefix24(a, b, c, 8) = Prefix24(f, 0, 0, 8)
    BY <1>1
  <2> QED BY <2>1, <2>2
<1>3. InBlock(x, <<100, 64, 0, 10>>) <=> a = 100 /\ b \in 64 .. 127
  <2>1. Prefix24(a, b, c, 10) = Prefix24(100, 64, 0, 10) <=> a = 100 /\ b \in 64 .. 127
    BY Powers, SMT DEF Prefix24, Bytes
  <2>2. InBlock(x, <<100, 64, 0, 10>>) <=> Prefix24(a, b, c, 10) = Prefix24(100, 64, 0, 10)
    BY <1>1
  <2> QED BY <2>1, <2>2
<1>4. InBlock(x, <<172, 16, 0, 12>>) <=> a = 172 /\ b \in 16 .. 31
  <2>1. Prefix24(a, b, c, 12) = Prefix24(172, 16, 0, 12) <=> a = 172 /\ b \in 16 .. 31
    BY Powers, SMT DEF Prefix24, Bytes
  <2>2. InBlock(x, <<172, 16, 0, 12>>) <=> Prefix24(a, b, c, 12) = Prefix24(172, 16, 0, 12)
    BY <1>1
  <2> QED BY <2>1, <2>2
<1>5. InBlock(x, <<198, 18, 0, 15>>) <=> a = 198 /\ b \in {18, 19}
  <2>1. Prefix24(a, b, c, 15) = Prefix24(198, 18, 0, 15) <=> a = 198 /\ b \in {18, 19}
    BY Powers, SMT DEF Prefix24, Bytes
  <2>2. InBlock(x, <<198, 18, 0, 15>>) <=> Prefix24(a, b, c, 15) = Prefix24(198, 18, 0, 15)
    BY <1>1
  <2> QED BY <2>1, <2>2
<1>6. ASSUME NEW f \in Bytes, NEW s \in Bytes
      PROVE  InBlock(x, <<f, s, 0, 16>>) <=> a = f /\ b = s
  <2>1. Prefix24(a, b, c, 16) = 256 * a + b /\ Prefix24(f, s, 0, 16) = 256 * f + s
    BY Powers, SMT DEF Prefix24, Bytes
  <2>2. 256 * a + b = 256 * f + s <=> a = f /\ b = s
    BY SMT DEF Bytes
  <2>3. InBlock(x, <<f, s, 0, 16>>) <=> Prefix24(a, b, c, 16) = Prefix24(f, s, 0, 16)
    BY <1>1
  <2> QED BY <2>1, <2>2, <2>3
<1>7. ASSUME NEW f \in Bytes, NEW s \in Bytes, NEW d \in Bytes
      PROVE  InBlock(x, <<f, s, d, 24>>) <=> a = f /\ b = s /\ c = d
  <2>1. Prefix24(a, b, c, 24) = Prefix24(f, s, d, 24) <=> a = f /\ b = s /\ c = d
    BY Powers, SMT DEF Prefix24, Bytes
  <2>2. InBlock(x, <<f, s, d, 24>>) <=> Prefix24(a, b, c, 24) = Prefix24(f, s, d, 24)
    BY <1>1
  <2> QED BY <2>1, <2>2
<1>8. InBlock(x, <<224, 0, 0, 3>>) <=> a >= 224
  <2>1. Prefix24(a, b, c, 3) = Prefix24(224, 0, 0, 3) <=> a >= 224
    BY Powers, SMT DEF Prefix24, Bytes
  <2>2. InBlock(x, <<224, 0, 0, 3>>) <=> Prefix24(a, b, c, 3) = Prefix24(224, 0, 0, 3)
    BY <1>1
  <2> QED BY <2>1, <2>2
<1> QED BY <1>2, <1>3, <1>4, <1>5, <1>6, <1>7, <1>8

\* Of the IPv4 addresses the guard refuses every reserved one that it does not
\* overlook, and no other that it does not overblock.
LEMMA GuardOnIpv4 ==
  ASSUME NEW x \in Ipv4Addresses
  PROVE  /\ Reserved(x) => IsPrivateOrReservedIpv4(x.first, x.second) \/ Overlooked(x)
         /\ IsPrivateOrReservedIpv4(x.first, x.second) => Reserved(x) \/ Overblocked(x)
<1>1. /\ x.kind # "ipv6"
      /\ x.first \in Bytes /\ x.second \in Bytes /\ x.third \in Bytes
  BY DEF Ipv4Addresses
<1>2. {0, 2, 10, 16, 51, 88, 99, 100, 113, 127, 168, 169, 192, 198, 203, 254} \subseteq Bytes
  BY SMT DEF Bytes
<1>3. Reserved(x) <=>
        \/ x.first \in {0, 10, 127} \/ x.first >= 224
        \/ x.first = 100 /\ x.second \in 64 .. 127
        \/ x.first = 169 /\ x.second = 254
        \/ x.first = 172 /\ x.second \in 16 .. 31
        \/ x.first = 192 /\ x.second = 0 /\ x.third \in {0, 2}
        \/ x.first = 192 /\ x.second = 88 /\ x.third = 99
        \/ x.first = 192 /\ x.second = 168
        \/ x.first = 198 /\ x.second \in {18, 19}
        \/ x.first = 198 /\ x.second = 51 /\ x.third = 100
        \/ x.first = 203 /\ x.second = 0 /\ x.third = 113
  <2>1. Reserved(x) <=> \E block \in SpecialBlocks : InBlock(x, block)
    BY <1>1 DEF Reserved
  <2>2. (\E block \in SpecialBlocks : InBlock(x, block)) <=>
          \/ InBlock(x, <<0, 0, 0, 8>>) \/ InBlock(x, <<10, 0, 0, 8>>)
          \/ InBlock(x, <<100, 64, 0, 10>>) \/ InBlock(x, <<127, 0, 0, 8>>)
          \/ InBlock(x, <<169, 254, 0, 16>>) \/ InBlock(x, <<172, 16, 0, 12>>)
          \/ InBlock(x, <<192, 0, 0, 24>>) \/ InBlock(x, <<192, 0, 2, 24>>)
          \/ InBlock(x, <<192, 88, 99, 24>>) \/ InBlock(x, <<192, 168, 0, 16>>)
          \/ InBlock(x, <<198, 18, 0, 15>>) \/ InBlock(x, <<198, 51, 100, 24>>)
          \/ InBlock(x, <<203, 0, 113, 24>>) \/ InBlock(x, <<224, 0, 0, 3>>)
    BY SMT DEF SpecialBlocks
  <2>3. /\ InBlock(x, <<0, 0, 0, 8>>) <=> x.first = 0
        /\ InBlock(x, <<10, 0, 0, 8>>) <=> x.first = 10
        /\ InBlock(x, <<127, 0, 0, 8>>) <=> x.first = 127
        /\ InBlock(x, <<169, 254, 0, 16>>) <=> x.first = 169 /\ x.second = 254
        /\ InBlock(x, <<192, 168, 0, 16>>) <=> x.first = 192 /\ x.second = 168
    BY <1>1, <1>2, BlocksOnBytes
  <2>4. InBlock(x, <<100, 64, 0, 10>>) <=> x.first = 100 /\ x.second \in 64 .. 127
    BY <1>1, BlocksOnBytes
  <2>5. InBlock(x, <<172, 16, 0, 12>>) <=> x.first = 172 /\ x.second \in 16 .. 31
    BY <1>1, BlocksOnBytes
  <2>6. InBlock(x, <<198, 18, 0, 15>>) <=> x.first = 198 /\ x.second \in {18, 19}
    BY <1>1, BlocksOnBytes
  <2>7. InBlock(x, <<224, 0, 0, 3>>) <=> x.first >= 224
    BY <1>1, BlocksOnBytes
  <2>8. /\ InBlock(x, <<192, 0, 0, 24>>) <=> x.first = 192 /\ x.second = 0 /\ x.third = 0
        /\ InBlock(x, <<192, 0, 2, 24>>) <=> x.first = 192 /\ x.second = 0 /\ x.third = 2
        /\ InBlock(x, <<192, 88, 99, 24>>)
             <=> x.first = 192 /\ x.second = 88 /\ x.third = 99
        /\ InBlock(x, <<198, 51, 100, 24>>)
             <=> x.first = 198 /\ x.second = 51 /\ x.third = 100
        /\ InBlock(x, <<203, 0, 113, 24>>)
             <=> x.first = 203 /\ x.second = 0 /\ x.third = 113
    BY <1>1, <1>2, BlocksOnBytes
  <2> QED BY <2>1, <2>2, <2>3, <2>4, <2>5, <2>6, <2>7, <2>8
<1>4. Overlooked(x) <=>
        \/ x.first = 192 /\ x.second = 88 /\ x.third = 99
        \/ x.first = 198 /\ x.second = 51 /\ x.third = 100
        \/ x.first = 203 /\ x.second = 0 /\ x.third = 113
  BY <1>1, <1>2, BlocksOnBytes DEF Overlooked
<1>5. Overblocked(x) <=> x.first = 192 /\ x.second = 0
  BY <1>1, <1>2, BlocksOnBytes DEF Overblocked
<1> QED BY <1>1, <1>3, <1>4, <1>5 DEF IsPrivateOrReservedIpv4

\* Division by the weights of the hexadecimal digits of a group.
LEMMA Quotients ==
  ASSUME NEW group \in Nat
  PROVE  /\ group \div 1 = group
         /\ group \div 16 \in Nat /\ group \div 256 \in Nat /\ group \div 4096 \in Nat
         /\ 16 * (group \div 16) <= group /\ group < 16 * (group \div 16) + 16
         /\ 256 * (group \div 256) <= group /\ group < 256 * (group \div 256) + 256
         /\ 4096 * (group \div 4096) <= group /\ group < 4096 * (group \div 4096) + 4096
<1>1. group \div 1 = group
  BY SMT
<1>2. group \div 16 \in Nat /\ 16 * (group \div 16) <= group /\ group < 16 * (group \div 16) + 16
  BY SMT
<1>3. group \div 256 \in Nat /\ 256 * (group \div 256) <= group /\ group < 256 * (group \div 256) + 256
  BY SMT
<1>4. group \div 4096 \in Nat /\ 4096 * (group \div 4096) <= group
      /\ group < 4096 * (group \div 4096) + 4096
  BY SMT
<1> QED BY <1>1, <1>2, <1>3, <1>4

\* The groups of an IPv6 address are numbers.
LEMMA GroupsAreNumbers == Groups \subseteq Nat
BY SMT DEF Groups

\* Of the IPv6 addresses it refuses all of the ranges its comment names, and
\* nothing in 2000::/3.  (A prefix is matched against text without leading
\* zeros: it also refuses groups that are merely short, like fc::.)
LEMMA GuardOnIpv6 ==
  ASSUME NEW group \in Groups, NEW second \in Groups, NEW rest \in {0, 1, 2}
  PROVE  /\ \/ group = 0 /\ second = 0 /\ rest \in {0, 1}
            \/ group \div 512 = 126 \/ group \div 64 = 1018 \/ group \div 256 = 255
            => IsPrivateOrReservedIpv6(group, second, rest)
         /\ group \div 8192 = 1 => ~IsPrivateOrReservedIpv6(group, second, rest)
<1>1. group \in Nat
  BY GroupsAreNumbers
<1>2. ASSUME group \div 8192 = 1
      PROVE  ~IsPrivateOrReservedIpv6(group, second, rest)
  <2>1. 8192 <= group /\ group <= 16383
    BY <1>1, <1>2, SMT
  <2>2. group \notin ReservedPrefixes
    BY <1>1, <2>1, SMT DEF ReservedPrefixes
  <2>3. \A q \in Nat : 16 * q <= group /\ group < 16 * q + 16 => q \notin ReservedPrefixes
    BY <1>1, <2>1, SMT DEF ReservedPrefixes
  <2>4. \A q \in Nat : 256 * q <= group /\ group < 256 * q + 256 => q \notin ReservedPrefixes
    BY <1>1, <2>1, SMT DEF ReservedPrefixes
  <2>5. \A q \in Nat : 4096 * q <= group /\ group < 4096 * q + 4096 => q \notin ReservedPrefixes
    BY <1>1, <2>1, SMT DEF ReservedPrefixes
  <2>6. \A weight \in Weights : group \div weight \notin ReservedPrefixes
    BY <1>1, <2>2, <2>3, <2>4, <2>5, Quotients, SMT DEF Weights
  <2> QED BY <2>1, <2>6, SMT DEF IsPrivateOrReservedIpv6, StartsWith
<1>3. ASSUME NEW prefix \in ReservedPrefixes, StartsWith(group, prefix)
      PROVE  IsPrivateOrReservedIpv6(group, second, rest)
  BY <1>3, SMT DEF IsPrivateOrReservedIpv6
<1>4. \A prefix : prefix = group \div 16 \/ prefix = group \div 256 => StartsWith(group, prefix)
  BY SMT DEF StartsWith, Weights
<1>5. CASE group \div 512 = 126
  <2>1. group \div 256 \in ReservedPrefixes
    BY <1>1, <1>5, SMT DEF ReservedPrefixes
  <2>2. PICK prefix \in ReservedPrefixes : prefix = group \div 256
    BY <2>1
  <2>3. StartsWith(group, prefix)
    BY <1>4, <2>2
  <2> QED BY <1>2, <1>3, <2>2, <2>3
<1>6. CASE group \div 64 = 1018
  <2>1. group \div 16 \in ReservedPrefixes
    BY <1>1, <1>6, SMT DEF ReservedPrefixes
  <2>2. PICK prefix \in ReservedPrefixes : prefix = group \div 16
    BY <2>1
  <2>3. StartsWith(group, prefix)
    BY <1>4, <2>2
  <2> QED BY <1>2, <1>3, <2>2, <2>3
<1>7. CASE group \div 256 = 255
  <2>1. group \div 256 \in ReservedPrefixes
    BY <1>7, SMT DEF ReservedPrefixes
  <2>2. PICK prefix \in ReservedPrefixes : prefix = group \div 256
    BY <2>1
  <2>3. StartsWith(group, prefix)
    BY <1>4, <2>2
  <2> QED BY <1>2, <1>3, <2>2, <2>3
<1>8. group = 0 /\ second = 0 /\ rest \in {0, 1} => IsPrivateOrReservedIpv6(group, second, rest)
  BY SMT DEF IsPrivateOrReservedIpv6
<1> QED BY <1>2, <1>5, <1>6, <1>7, <1>8, SMT

\* What the guard lets pass is public or overlooked, what it refuses is reserved
\* or overblocked.
LEMMA GuardOnAddresses ==
  ASSUME NEW x \in Addresses
  PROVE  /\ Reserved(x) => IsPrivateOrReservedIp(x) \/ Overlooked(x)
         /\ IsPrivateOrReservedIp(x) => Reserved(x) \/ Overblocked(x)
<1>1. CASE x \in Ipv4Addresses
  <2>1. IsPrivateOrReservedIp(x) <=> IsPrivateOrReservedIpv4(x.first, x.second)
    BY <1>1 DEF Ipv4Addresses, IsPrivateOrReservedIp
  <2> QED BY <1>1, <2>1, GuardOnIpv4
<1>2. CASE x \in Ipv6Addresses
  <2>1. /\ x.kind = "ipv6" /\ x.first \in Groups /\ x.second \in Groups
        /\ x.rest \in {0, 1, 2}
    BY <1>2 DEF Ipv6Addresses
  <2>2. IsPrivateOrReservedIp(x) <=> IsPrivateOrReservedIpv6(x.first, x.second, x.rest)
    BY <2>1 DEF IsPrivateOrReservedIp
  <2>3. x.first \div 8192 # 1 => Reserved(x)
    BY <2>1 DEF Reserved
  <2>4. Overlooked(x) <=> ~ (\/ x.first = 0 /\ x.second = 0 /\ x.rest \in {0, 1}
                             \/ x.first \div 512 = 126 \/ x.first \div 64 = 1018
                             \/ x.first \div 256 = 255)
    BY <2>1 DEF Overlooked
  <2>5. /\ \/ x.first = 0 /\ x.second = 0 /\ x.rest \in {0, 1}
           \/ x.first \div 512 = 126 \/ x.first \div 64 = 1018 \/ x.first \div 256 = 255
           => IsPrivateOrReservedIpv6(x.first, x.second, x.rest)
        /\ x.first \div 8192 = 1 => ~IsPrivateOrReservedIpv6(x.first, x.second, x.rest)
    BY <2>1, GuardOnIpv6
  <2> QED BY <2>2, <2>3, <2>4, <2>5
<1> QED BY <1>1, <1>2 DEF Addresses

\* While a request is out, the guard has seen well-formed addresses of its host
\* and found none to refuse; a refusal ends the check at the addresses refused.
Guarded ==
  /\ resolved \subseteq Addresses
  /\ step \in {"fetch", "body"} =>
       /\ ~Refused(resolved)
       /\ target.host \notin LocalHosts
       /\ target.host \in DOMAIN Literals => resolved = {Literals[target.host]}
  /\ result.refused => step = "done" /\ Refused(resolved)

\* No target has been seen yet, and no request sent.
LEMMA InitGuarded == Init => Guarded
BY DEF Init, HealthInit, Guarded, NoResult

\* The results of checks and their flags.
LEMMA ResultParts ==
  /\ ~NoResult.refused /\ \A t \in BOOLEAN : ~Failure(t).refused
  /\ \A status \in Statuses : ~Success(status).refused
  /\ \A status \in Statuses : ~[NoResult EXCEPT !.status = status].refused
BY DEF NoResult, Failure, Success

\* The guard keeps Guarded ...
LEMMA GuardStep ==
  ASSUME Guarded, GuardLiteral \/ GuardLocal \/ LookupAnswers \/ LookupFails
  PROVE  Guarded'
<1>1. step = "guard" /\ UNCHANGED target
  BY DEF GuardLiteral, GuardLocal, LookupAnswers, LookupFails, Looks, GuardSees, Refuse, Return
<1>2. ASSUME NEW addresses \in SUBSET Addresses, Refused(addresses), Refuse(addresses)
      PROVE  Guarded'
  BY <1>2 DEF Refuse, Return, Guarded
<1>3. ASSUME NEW addresses \in SUBSET Addresses, GuardSees(addresses),
             target.host \notin LocalHosts,
             target.host \in DOMAIN Literals => addresses = {Literals[target.host]}
      PROVE  Guarded'
  <2>1. CASE ~Refused(addresses)
    BY <1>1, <1>3, <2>1 DEF GuardSees, Guarded
  <2> QED BY <1>2, <1>3, <2>1 DEF GuardSees
<1>4. CASE GuardLiteral
  BY <1>3, <1>4, AddressesAssumption DEF GuardLiteral
<1>5. CASE GuardLocal \/ LookupFails
  BY <1>2, <1>5 DEF GuardLocal, LookupFails, Refused
<1>6. CASE LookupAnswers
  BY <1>3, <1>6, AddressesAssumption DEF LookupAnswers, Looks
<1> QED BY <1>4, <1>5, <1>6

\* ... and so does every other step.
LEMMA NextGuarded == Guarded /\ [Next]_vars => Guarded'
<1> SUFFICES ASSUME Guarded, [Next]_vars PROVE Guarded'
  OBVIOUS
<1>1. ASSUME NEW r, ~r.refused, Finish(r) PROVE Guarded'
  BY <1>1 DEF Finish, Return, Guarded
<1>2. CASE UNCHANGED healthVars
  BY <1>2 DEF healthVars, Guarded
<1>3. CASE Perform
  BY <1>3 DEF Perform, Start, Guarded
<1>4. CASE GuardLiteral \/ GuardLocal \/ LookupAnswers \/ LookupFails
  BY <1>4, GuardStep
<1>5. CASE MissingLocation \/ FinalWithoutTitle \/ NetworkError \/ AbortError
  BY <1>1, <1>5, ResultParts DEF MissingLocation, FinalWithoutTitle, NetworkError, AbortError
<1>6. CASE Redirected
  <2>1. PICK location \in Locations : Redirect(location)
    BY <1>6 DEF Redirected
  <2>2. CASE Finish(Failure(FALSE))
    BY <1>1, <2>2, ResultParts
  <2>3. CASE step' = "guard" /\ resolved' = {} /\ UNCHANGED result
    BY <1>6, <2>3 DEF Guarded, Redirected
  <2> QED BY <2>1, <2>2, <2>3 DEF Redirect
<1>7. CASE FinalWithBody
  BY <1>7, ResultParts DEF FinalWithBody, Guarded
<1>8. CASE ReadChunk \/ Abort \/ Tick
  BY <1>8 DEF ReadChunk, Abort, Tick, Guarded
<1>9. CASE BodyDone
  BY <1>1, <1>9 DEF BodyDone, Success, NoResult
<1> QED BY <1>2, <1>3, <1>4, <1>5, <1>6, <1>7, <1>8, <1>9
        DEF Next, Submit, Check, HealthNext, vars, healthVars

\* For all addresses, hosts, answers and chains of redirects: no request goes to
\* a host whose addresses the guard has not seen, or of which one is reserved and
\* not among those it overlooks, and no host is refused for public addresses
\* outside those it overblocks.
THEOREM GuardSeesEveryTarget == Spec => []TargetsAreGuarded
<1>1. Guarded => TargetsAreGuarded
  BY GuardOnAddresses DEF Guarded, TargetsAreGuarded, Refused
<1> QED BY <1>1, InitGuarded, NextGuarded, PTL DEF Spec

\* A failure is a failure.
LEMMA FailureParts == Failure(FALSE).outcome = "failure"
BY DEF Failure, NoResult

\* Every step keeps the types.
LEMMA HealthTypeStep == HealthTypeOK /\ [Next]_vars => HealthTypeOK'
<1> SUFFICES ASSUME HealthTypeOK, [Next]_vars PROVE HealthTypeOK'
  OBVIOUS
<1> USE DEF HealthTypeOK
<1>0. /\ MaxRedirects \in Nat /\ MaxBytes \in Nat /\ MaxChunk \in Nat
      /\ time \in Nat /\ since \in Nat
  BY HealthCheckAssumption
<1>1. ASSUME NEW r, r.outcome \in {"none", "success", "failure"}, Return(r) PROVE HealthTypeOK'
  BY <1>1 DEF Return
<1>2. /\ NoResult.outcome = "none" /\ Refusal.outcome = "failure"
      /\ \A x : Success(x).outcome = "success"
      /\ \A x \in BOOLEAN : Failure(x).outcome = "failure"
      /\ \A x : [NoResult EXCEPT !.status = x].outcome = "none"
  BY DEF NoResult, Refusal, Success, Failure
<1>3. CASE UNCHANGED healthVars
  BY <1>3 DEF healthVars
<1>4. CASE Perform
  BY <1>4 DEF Perform, Start
<1>5. CASE GuardLiteral \/ GuardLocal \/ LookupAnswers \/ LookupFails
  BY <1>1, <1>2, <1>5 DEF GuardLiteral, GuardLocal, LookupAnswers, LookupFails, GuardSees, Refuse
<1>6. CASE MissingLocation \/ FinalWithoutTitle \/ NetworkError \/ AbortError \/ BodyDone
  <2>1. \/ \E transient \in BOOLEAN : Return(Failure(transient))
        \/ \E status : Return(Success(status))
    BY <1>6 DEF MissingLocation, FinalWithoutTitle, NetworkError, AbortError, BodyDone, Finish
  <2>2. ASSUME NEW transient \in BOOLEAN, Return(Failure(transient)) PROVE HealthTypeOK'
    BY <1>1, <1>2, <2>2
  <2>3. ASSUME NEW status, Return(Success(status)) PROVE HealthTypeOK'
    BY <1>1, <1>2, <2>3
  <2> QED BY <2>1, <2>2, <2>3
<1>7. CASE Redirected
  <2>1. PICK location \in Locations : Redirect(location)
    BY <1>7 DEF Redirected
  <2>2. CASE Finish(Failure(FALSE))
    <3>1. Return(Failure(FALSE))
      BY <2>2 DEF Finish
    <3>2. result'.outcome = "failure"
      BY <3>1, FailureParts, Zenon DEF Return
    <3> QED BY <3>1, <3>2 DEF Return
  <2>3. CASE hop # MaxRedirects /\ hop' = hop + 1 /\ step' = "guard" /\ since' = time
             /\ UNCHANGED <<time, aborted, received, result>>
    BY <1>0, <2>3
  <2> QED BY <2>1, <2>2, <2>3 DEF Redirect
<1>8. CASE FinalWithBody
  BY <1>2, <1>8 DEF FinalWithBody
<1>9. CASE ReadChunk
  <2>1. PICK n \in 1 .. MaxChunk : received' = received + n
    BY <1>9 DEF ReadChunk
  <2>2. received' \in 0 .. MaxBytes + MaxChunk - 1
    BY <1>0, <1>9, <2>1 DEF ReadChunk, WantsMore
  <2> QED BY <1>9, <2>2 DEF ReadChunk
<1>10. CASE Abort
  BY <1>10 DEF Abort
<1>11. CASE Tick
  BY <1>0, <1>11 DEF Tick
<1> QED BY <1>3, <1>4, <1>5, <1>6, <1>7, <1>8, <1>9, <1>10, <1>11
        DEF Next, Submit, Check, HealthNext, vars, healthVars

\* A check stays within its redirects and the part of a body it may read.
THEOREM HealthTypeCorrect == Spec => []HealthTypeOK
<1>1. Init => HealthTypeOK
  <2>1. 0 \in 0 .. MaxRedirects /\ 0 \in 0 .. MaxBytes + MaxChunk - 1
    <3>1. MaxRedirects \in Nat /\ MaxBytes \in Nat /\ MaxChunk \in Nat /\ MaxChunk # 0
      BY HealthCheckAssumption
    <3> QED BY <3>1
  <2>2. NoResult.outcome = "none"
    BY DEF NoResult
  <2>3. 0 \in Nat /\ FALSE \in BOOLEAN
    OBVIOUS
  <2> QED BY <2>1, <2>2, <2>3 DEF Init, HealthInit, HealthTypeOK
<1>2. HealthTypeOK /\ [Next]_vars => HealthTypeOK'
  BY HealthTypeStep
<1> QED BY <1>1, <1>2, PTL DEF Spec

-----------------------------------------------------------------------------
(* Batches and what their senders know *)

IsCall(c) == c = [from |-> c.from, content |-> c.content, entries |-> c.entries,
                  stage |-> c.stage, outcome |-> c.outcome]

\* A request is a record, and created a batch only if it has been answered so.
CallShape(c) == IsCall(c) /\ (c.outcome = "created" => c.stage \in {"answered", "done"})

\* It has a batch, and its sender will learn of it or has learned of it.
Knows(c) == c.stage = "committed" \/ c.outcome = "created"
Known == {i \in DOMAIN calls : Knows(calls[i])}

\* calls and batches are sequences, whatever they hold.
Listed == /\ \E S : calls \in Seq(S)
          /\ \E S : batches \in Seq(S)
          /\ mishaps \in Nat
          /\ \A i \in DOMAIN calls : CallShape(calls[i])

Accounted == Listed /\ Len(batches) = mishaps + Cardinality(Known)

\* The property counts the requests whose sender knows of a batch.
LEMMA KnownBatches == NoUnknownBatches <=> Len(batches) = mishaps + Cardinality(Known)
BY DEF NoUnknownBatches, Quantify, Known, Knows

\* The requests that know their batch are finitely many.
LEMMA KnownFinite ==
  ASSUME Listed
  PROVE  /\ IsFiniteSet(Known) /\ Cardinality(Known) \in Nat
         /\ DOMAIN calls = 1 .. Len(calls) /\ Len(calls) \in Nat /\ Len(batches) \in Nat
<1>1. PICK S : calls \in Seq(S)
  BY DEF Listed
<1>2. PICK T : batches \in Seq(T)
  BY DEF Listed
<1>3. DOMAIN calls = 1 .. Len(calls) /\ Len(calls) \in Nat /\ Len(batches) \in Nat
  BY <1>1, <1>2, LenProperties
<1>4. IsFiniteSet(DOMAIN calls)
  BY <1>3, FS_Interval
<1>5. IsFiniteSet(Known)
  BY <1>4, FS_Subset DEF Known
<1> QED BY <1>3, <1>5, FS_CardinalityType

\* One request changes.
LEMMA CallChanges ==
  ASSUME Listed, NEW i \in DOMAIN calls, NEW c, CallShape(c), calls' = [calls EXCEPT ![i] = c],
         \E S : batches' \in Seq(S), mishaps' \in Nat
  PROVE  /\ Listed'
         /\ Known' = IF Knows(c) THEN Known \cup {i} ELSE Known \ {i}
<1>1. PICK S : calls \in Seq(S)
  BY DEF Listed
<1>2. calls \in Seq(S \cup {c})
  BY <1>1, SeqMonotonic
<1>3. i \in 1 .. Len(calls) /\ DOMAIN calls = 1 .. Len(calls)
  BY <1>1, LenProperties
<1>4. calls' \in Seq(S \cup {c})
  BY <1>2, <1>3, ExceptSeq
<1>5. DOMAIN calls' = DOMAIN calls /\ \A j \in DOMAIN calls : calls'[j] = IF j = i THEN c ELSE calls[j]
  BY <1>1
<1>6. Listed'
  BY <1>4, <1>5 DEF Listed
<1>7. Known' = IF Knows(c) THEN Known \cup {i} ELSE Known \ {i}
  BY <1>5 DEF Known
<1> QED BY <1>6, <1>7

\* A step that changes no batch changes no account, if the request's sender
\* knows as much as before.
LEMMA SameKnowledge ==
  ASSUME Accounted, NEW i \in DOMAIN calls, NEW c, CallShape(c),
         calls' = [calls EXCEPT ![i] = c], Knows(c) <=> Knows(calls[i]),
         UNCHANGED <<batches, mishaps>>
  PROVE  Accounted'
<1>1. (\E S : batches' \in Seq(S)) /\ mishaps' \in Nat
  BY DEF Accounted, Listed
<1>2. Listed' /\ Known' = IF Knows(c) THEN Known \cup {i} ELSE Known \ {i}
  BY <1>1, CallChanges DEF Accounted
<1>3. Known' = Known
  BY <1>2 DEF Known
<1> QED BY <1>2, <1>3 DEF Accounted

\* What the steps of a request write: its record, with new entries, stage and
\* outcome.
Writes(i, entries, stage, outcome) ==
  calls' = [calls EXCEPT ![i] = [from |-> calls[i].from, content |-> calls[i].content,
             entries |-> entries, stage |-> stage, outcome |-> outcome]]

Concludes(i, stage, outcome) ==
  calls' = [calls EXCEPT ![i].stage = stage, ![i].outcome = outcome]

Extracts(i, entries) ==
  calls' = [calls EXCEPT ![i].stage = "counted", ![i].entries = entries]

\* Going on to a stage writes the stage only.
LEMMA GoesWrites ==
  ASSUME Listed, NEW i \in DOMAIN calls, NEW s, Goes(i, s)
  PROVE  Writes(i, calls[i].entries, s, calls[i].outcome)
<1>1. PICK S : calls \in Seq(S)
  BY DEF Listed
<1>2. PICK c : c = calls[i]
  OBVIOUS
<1>3. c = [from |-> c.from, content |-> c.content, entries |-> c.entries,
           stage |-> c.stage, outcome |-> c.outcome]
  BY <1>2 DEF Listed, CallShape, IsCall
<1>4. [c EXCEPT !.stage = s]
      = [from |-> c.from, content |-> c.content, entries |-> c.entries,
          stage |-> s, outcome |-> c.outcome]
  BY <1>3
<1>5. calls' = [calls EXCEPT ![i] = [c EXCEPT !.stage = s]]
  BY <1>1, <1>2 DEF Goes
<1> QED BY <1>2, <1>4, <1>5 DEF Writes

\* Concluding writes stage and outcome.
LEMMA ConcludesWrites ==
  ASSUME Listed, NEW i \in DOMAIN calls, NEW s, NEW o, Concludes(i, s, o)
  PROVE  Writes(i, calls[i].entries, s, o)
<1>1. PICK S : calls \in Seq(S)
  BY DEF Listed
<1>2. PICK c : c = calls[i]
  OBVIOUS
<1>3. c = [from |-> c.from, content |-> c.content, entries |-> c.entries,
           stage |-> c.stage, outcome |-> c.outcome]
  BY <1>2 DEF Listed, CallShape, IsCall
<1>4. PICK d : d = [c EXCEPT !.stage = s]
  OBVIOUS
<1>5. d = [from |-> c.from, content |-> c.content, entries |-> c.entries,
          stage |-> s, outcome |-> c.outcome]
  BY <1>3, <1>4
<1>6. [d EXCEPT !.outcome = o]
      = [from |-> c.from, content |-> c.content, entries |-> c.entries,
          stage |-> s, outcome |-> o]
  BY <1>5
<1>7. calls' = [calls EXCEPT ![i] = [d EXCEPT !.outcome = o]]
  BY <1>1, <1>2, <1>4 DEF Concludes
<1> QED BY <1>2, <1>6, <1>7 DEF Writes

\* Reading an uploaded file writes stage and entries.
LEMMA ExtractsWrites ==
  ASSUME Listed, NEW i \in DOMAIN calls, NEW e, Extracts(i, e)
  PROVE  Writes(i, e, "counted", calls[i].outcome)
<1>1. PICK S : calls \in Seq(S)
  BY DEF Listed
<1>2. PICK c : c = calls[i]
  OBVIOUS
<1>3. c = [from |-> c.from, content |-> c.content, entries |-> c.entries,
           stage |-> c.stage, outcome |-> c.outcome]
  BY <1>2 DEF Listed, CallShape, IsCall
<1>4. PICK d : d = [c EXCEPT !.stage = "counted"]
  OBVIOUS
<1>5. d = [from |-> c.from, content |-> c.content, entries |-> c.entries,
          stage |-> "counted", outcome |-> c.outcome]
  BY <1>3, <1>4
<1>6. [d EXCEPT !.entries = e]
      = [from |-> c.from, content |-> c.content, entries |-> e,
          stage |-> "counted", outcome |-> c.outcome]
  BY <1>5
<1>7. calls' = [calls EXCEPT ![i] = [d EXCEPT !.entries = e]]
  BY <1>1, <1>2, <1>4 DEF Extracts
<1> QED BY <1>2, <1>6, <1>7 DEF Writes

\* A request's record changes, and its sender knows as much as before.
LEMMA QuietWrite ==
  ASSUME Accounted, NEW i \in DOMAIN calls, NEW stage, NEW entries, NEW outcome,
         Writes(i, entries, stage, outcome),
         outcome = "created" => stage \in {"answered", "done"},
         (stage = "committed" \/ outcome = "created") <=> Knows(calls[i]),
         UNCHANGED <<batches, mishaps>>
  PROVE  Accounted'
<1>1. PICK c : c = [from |-> calls[i].from, content |-> calls[i].content,
                    entries |-> entries, stage |-> stage, outcome |-> outcome]
  OBVIOUS
<1>2. CallShape(c) /\ (Knows(c) <=> Knows(calls[i]))
  BY <1>1 DEF CallShape, IsCall, Knows
<1>3. calls' = [calls EXCEPT ![i] = c]
  BY <1>1 DEF Writes
<1> QED BY <1>2, <1>3, SameKnowledge

\* An answer that tells its sender what there is to know changes no account.
LEMMA QuietAnswer ==
  ASSUME Accounted, NEW i \in DOMAIN calls, NEW stage, NEW outcome,
         stage = "answered" \/ stage = "done",
         Concludes(i, stage, outcome), outcome = "created" <=> Knows(calls[i]),
         UNCHANGED <<batches, mishaps>>
  PROVE  Accounted'
<1>1. Writes(i, calls[i].entries, stage, outcome)
  BY ConcludesWrites DEF Accounted
<1>2. /\ (stage = "committed" \/ outcome = "created") <=> Knows(calls[i])
      /\ outcome = "created" => stage \in {"answered", "done"}
  OBVIOUS
<1> QED BY <1>1, <1>2, QuietWrite

\* A request that goes on without committing changes no account.
LEMMA QuietGoes ==
  ASSUME Accounted, NEW i \in DOMAIN calls, NEW stage, Goes(i, stage),
         stage # "committed", ~Knows(calls[i]), UNCHANGED <<batches, mishaps>>
  PROVE  Accounted'
<1>1. Writes(i, calls[i].entries, stage, calls[i].outcome)
  BY GoesWrites DEF Accounted
<1>2. /\ (stage = "committed" \/ calls[i].outcome = "created") <=> Knows(calls[i])
      /\ calls[i].outcome = "created" => stage \in {"answered", "done"}
  BY DEF Knows
<1> QED BY <1>1, <1>2, QuietWrite

\* Not answered yet, and not committed: there is nothing to know.
LEMMA EarlyKnowsNothing ==
  ASSUME Accounted, NEW i \in DOMAIN calls,
         calls[i].stage \in {"route", "counted", "parsed"}
  PROVE  ~Knows(calls[i])
BY DEF Accounted, Listed, CallShape, Knows

\* A request that is not answered yet goes on, or ends without a batch; one that
\* is done is answered as it was completed.
LEMMA QuietCallStep ==
  ASSUME Accounted, NEW i \in DOMAIN calls,
         \/ RefuseUpload(i) \/ AcceptUpload(i) \/ CheckBody(i) \/ CheckEntries(i)
         \/ InsertFails(i) \/ Complete(i) \/ Answer(i)
  PROVE  Accounted'
<1>1. UNCHANGED <<batches, mishaps>>
  BY DEF RefuseUpload, AcceptUpload, CheckBody, CheckEntries, InsertFails, Complete,
         Answer, Shows
<1>2. ASSUME NEW outcome, Ends(i, outcome), outcome = "created" <=> Knows(calls[i])
      PROVE  Accounted'
  <2>1. Concludes(i, "answered", outcome)
    BY <1>2 DEF Ends, Concludes
  <2> QED BY <1>1, <1>2, <2>1, QuietAnswer
<1>3. CASE RefuseUpload(i)
  <2>1. Ends(i, "refused") /\ ~Knows(calls[i])
    BY <1>3, EarlyKnowsNothing DEF RefuseUpload
  <2>2. "refused" = "created" <=> Knows(calls[i])
    BY <2>1
  <2> QED BY <1>2, <2>1, <2>2
<1>4. CASE AcceptUpload(i)
  <2>1. PICK e : e = ExtractUrlColumn(calls[i].content)
    OBVIOUS
  <2>2. Extracts(i, e)
    BY <1>4, <2>1 DEF AcceptUpload, Extracts
  <2>3. Writes(i, e, "counted", calls[i].outcome)
    BY <2>2, ExtractsWrites DEF Accounted
  <2>4. ~Knows(calls[i])
    BY <1>4, EarlyKnowsNothing DEF AcceptUpload
  <2>5. /\ ("counted" = "committed" \/ calls[i].outcome = "created") <=> Knows(calls[i])
        /\ calls[i].outcome = "created" => "counted" \in {"answered", "done"}
    BY <2>4 DEF Knows
  <2> QED BY <1>1, <2>3, <2>5, QuietWrite
<1>5. CASE CheckBody(i)
  <2>1. ~Knows(calls[i])
    BY <1>5, EarlyKnowsNothing DEF CheckBody
  <2>2. CASE Goes(i, "counted")
    BY <1>1, <2>1, <2>2, QuietGoes
  <2>3. CASE Ends(i, "refused")
    <3>1. "refused" = "created" <=> Knows(calls[i])
      BY <2>1
    <3> QED BY <1>2, <2>3, <3>1
  <2> QED BY <1>5, <2>2, <2>3 DEF CheckBody
<1>6. CASE CheckEntries(i)
  <2>1. ~Knows(calls[i])
    BY <1>6, EarlyKnowsNothing DEF CheckEntries
  <2>2. CASE Goes(i, "parsed")
    BY <1>1, <2>1, <2>2, QuietGoes
  <2>3. CASE Ends(i, "refused")
    <3>1. "refused" = "created" <=> Knows(calls[i])
      BY <2>1
    <3> QED BY <1>2, <2>3, <3>1
  <2>4. CASE Ends(i, "error")
    <3>1. "error" = "created" <=> Knows(calls[i])
      BY <2>1
    <3> QED BY <1>2, <2>4, <3>1
  <2> QED BY <1>6, <2>2, <2>3, <2>4 DEF CheckEntries
<1>7. CASE InsertFails(i)
  <2>1. Ends(i, "error") /\ ~Knows(calls[i])
    BY <1>7, EarlyKnowsNothing DEF InsertFails
  <2>2. "error" = "created" <=> Knows(calls[i])
    BY <2>1
  <2> QED BY <1>2, <2>1, <2>2
<1>8. CASE Complete(i)
  <2>1. Ends(i, "created") /\ Knows(calls[i])
    BY <1>8 DEF Complete, Knows
  <2>2. "created" = "created" <=> Knows(calls[i])
    BY <2>1
  <2> QED BY <1>2, <2>1, <2>2
<1>9. CASE Answer(i)
  <2>1. PICK o : o = calls[i].outcome
    OBVIOUS
  <2>2. Concludes(i, "done", o)
    BY <1>9, <2>1 DEF Answer, Shows, Concludes
  <2>3. o = "created" <=> Knows(calls[i])
    BY <1>9, <2>1 DEF Answer, Knows
  <2> QED BY <1>1, <2>2, <2>3, QuietAnswer
<1> QED BY <1>3, <1>4, <1>5, <1>6, <1>7, <1>8, <1>9

\* A commit adds a batch and a request that knows it; a mishap takes away a
\* request that did.
LEMMA CountedCallStep ==
  ASSUME Accounted, NEW i \in DOMAIN calls, Insert(i) \/ FailAfterCommit(i) \/ LoseAnswer(i)
  PROVE  Accounted'
<1>1. Listed /\ CallShape(calls[i]) /\ mishaps \in Nat
  BY DEF Accounted, Listed
<1>2. /\ IsFiniteSet(Known) /\ Cardinality(Known) \in Nat /\ Len(batches) \in Nat
      /\ Len(batches) = mishaps + Cardinality(Known)
  BY KnownFinite DEF Accounted
<1>3. ASSUME NEW stage, NEW outcome, Writes(i, calls[i].entries, stage, outcome),
             outcome = "created" => stage \in {"answered", "done"},
             \E S : batches' \in Seq(S), mishaps' \in Nat
      PROVE  /\ Listed'
             /\ Known' = IF stage = "committed" \/ outcome = "created"
                         THEN Known \cup {i} ELSE Known \ {i}
  <2>1. PICK c : c = [from |-> calls[i].from, content |-> calls[i].content,
                      entries |-> calls[i].entries, stage |-> stage, outcome |-> outcome]
    OBVIOUS
  <2>2. CallShape(c) /\ (Knows(c) <=> stage = "committed" \/ outcome = "created")
    BY <1>3, <2>1 DEF CallShape, IsCall, Knows
  <2>3. calls' = [calls EXCEPT ![i] = c]
    BY <1>3, <2>1 DEF Writes
  <2>4. Listed' /\ Known' = IF Knows(c) THEN Known \cup {i} ELSE Known \ {i}
    BY <1>1, <1>3, <2>2, <2>3, CallChanges
  <2> QED BY <2>2, <2>4
<1>4. CASE Insert(i)
  <2>1. PICK S : batches \in Seq(S)
    BY <1>1 DEF Listed
  <2>2. batches' = Append(batches, NewBatch(i))
    BY <1>4 DEF Insert
  <2>3. PICK b : b = NewBatch(i)
    OBVIOUS
  <2>4. batches \in Seq(S \cup {b})
    BY <2>1, SeqMonotonic
  <2>5. batches' \in Seq(S \cup {b}) /\ Len(batches') = Len(batches) + 1
    BY <2>2, <2>3, <2>4
  <2>6. Writes(i, calls[i].entries, "committed", calls[i].outcome)
    BY <1>1, <1>4, GoesWrites DEF Insert
  <2>7. calls[i].outcome # "created" /\ i \notin Known
    BY <1>1, <1>4 DEF Insert, CallShape, Known, Knows
  <2>8. Listed' /\ Known' = Known \cup {i}
    BY <1>1, <1>3, <1>4, <2>5, <2>6, <2>7 DEF Insert
  <2>9. Cardinality(Known') = Cardinality(Known) + 1
    BY <1>2, <2>7, <2>8, FS_AddElement
  <2> QED BY <1>1, <1>2, <1>4, <2>5, <2>8, <2>9 DEF Accounted, Insert
<1>5. ASSUME NEW stage, Concludes(i, stage, "error"), stage # "committed",
             UNCHANGED batches, mishaps' = mishaps + (IF Knows(calls[i]) THEN 1 ELSE 0)
      PROVE  Accounted'
  <2>1. Writes(i, calls[i].entries, stage, "error")
    BY <1>1, <1>5, ConcludesWrites
  <2>2. mishaps' \in Nat /\ (\E S : batches' \in Seq(S))
    BY <1>1, <1>5 DEF Listed
  <2>3. Listed' /\ Known' = Known \ {i}
    BY <1>3, <1>5, <2>1, <2>2
  <2>4. Cardinality(Known') = IF i \in Known THEN Cardinality(Known) - 1 ELSE Cardinality(Known)
    BY <1>2, <2>3, FS_RemoveElement
  <2>5. i \in Known <=> Knows(calls[i])
    BY DEF Known
  <2> QED BY <1>1, <1>2, <1>5, <2>3, <2>4, <2>5 DEF Accounted
<1>6. CASE FailAfterCommit(i)
  <2>1. Concludes(i, "answered", "error") /\ Knows(calls[i])
    BY <1>6 DEF FailAfterCommit, Ends, Concludes, Knows
  <2>2. UNCHANGED batches /\ mishaps' = mishaps + (IF Knows(calls[i]) THEN 1 ELSE 0)
    BY <1>6, <2>1 DEF FailAfterCommit
  <2> QED BY <1>5, <2>1, <2>2
<1>7. CASE LoseAnswer(i)
  <2>1. Concludes(i, "done", "error") /\ (Knows(calls[i]) <=> calls[i].outcome = "created")
    BY <1>7 DEF LoseAnswer, Shows, Concludes, Knows
  <2>2. UNCHANGED batches /\ mishaps' = mishaps + (IF Knows(calls[i]) THEN 1 ELSE 0)
    BY <1>7, <2>1 DEF LoseAnswer, Shows
  <2> QED BY <1>5, <2>1, <2>2
<1> QED BY <1>4, <1>6, <1>7

\* A request is sent: there is nothing to know yet.
LEMMA SendStep ==
  ASSUME Accounted, NEW from, NEW content, NEW entries, Send(Request(from, content, entries))
  PROVE  Accounted'
<1>1. PICK S : calls \in Seq(S)
  BY DEF Accounted, Listed
<1>2. PICK c : c = Request(from, content, entries)
  OBVIOUS
<1>3. CallShape(c) /\ ~Knows(c)
  BY <1>2 DEF CallShape, IsCall, Knows, Request
<1>4. calls' = Append(calls, c) /\ UNCHANGED <<batches, mishaps>>
  BY <1>2 DEF Send
<1>5. calls \in Seq(S \cup {c})
  BY <1>1, SeqMonotonic
<1>6. /\ calls' \in Seq(S \cup {c}) /\ Len(calls') = Len(calls) + 1
      /\ \A i \in 1 .. Len(calls) : calls'[i] = calls[i]
      /\ calls'[Len(calls) + 1] = c
  BY <1>4, <1>5
<1>7. /\ DOMAIN calls = 1 .. Len(calls) /\ DOMAIN calls' = 1 .. Len(calls) + 1
      /\ Len(calls) \in Nat
  BY <1>1, <1>6, LenProperties
<1>8. \A i \in DOMAIN calls' : (i \in DOMAIN calls /\ calls'[i] = calls[i]) \/ calls'[i] = c
  BY <1>6, <1>7
<1>9. Listed'
  BY <1>3, <1>4, <1>6, <1>8 DEF Accounted, Listed
<1>10. Known' = Known
  <2>1. \A i \in DOMAIN calls' : Knows(calls'[i]) => i \in DOMAIN calls /\ calls'[i] = calls[i]
    BY <1>3, <1>8
  <2>2. \A i \in DOMAIN calls : i \in DOMAIN calls' /\ calls'[i] = calls[i]
    BY <1>6, <1>7
  <2> QED BY <2>1, <2>2 DEF Known
<1> QED BY <1>4, <1>9, <1>10 DEF Accounted

\* Nothing to account for.
LEMMA NothingAccountedInit ==
  ASSUME calls = <<>>, batches = <<>>, mishaps = 0
  PROVE  Accounted
<1>1. calls \in Seq({}) /\ batches \in Seq({}) /\ Len(batches) = 0 /\ DOMAIN calls = {}
  OBVIOUS
<1>2. Listed
  BY <1>1 DEF Listed
<1>3. Known = {}
  BY <1>1 DEF Known
<1> QED BY <1>1, <1>2, <1>3, FS_EmptySet DEF Accounted

\* Forgetting a submission whose requests are done leaves nothing to account for.
LEMMA NothingAccounted ==
  ASSUME calls' = <<>>, batches' = <<>>, mishaps' = 0
  PROVE  Accounted'
<1>1. calls' \in Seq({}) /\ batches' \in Seq({}) /\ Len(batches') = 0 /\ DOMAIN calls' = {}
  OBVIOUS
<1>2. Listed'
  BY <1>1 DEF Listed
<1>3. Known' = {}
  BY <1>1 DEF Known
<1> QED BY <1>1, <1>2, <1>3, FS_EmptySet DEF Accounted

\* Every step keeps the account.
LEMMA NextAccounted == Accounted /\ [Next]_vars => Accounted'
<1> SUFFICES ASSUME Accounted, [Next]_vars PROVE Accounted'
  OBVIOUS
<1>1. CASE UNCHANGED <<calls, batches, mishaps>>
  BY <1>1 DEF Accounted, Listed, Known
<1>2. CASE Perform
  <2>1. calls' = <<>> /\ batches' = <<>> /\ mishaps' = 0
    BY <1>2 DEF Perform
  <2> QED BY <2>1, NothingAccounted
<1>3. CASE Submit
  <2>1. ASSUME NEW text \in Texts, Paste(text) PROVE Accounted'
    BY <2>1, SendStep DEF Paste
  <2>2. ASSUME NEW file \in Files, Upload(file) PROVE Accounted'
    BY <2>2, SendStep DEF Upload
  <2>3. ASSUME NEW body \in Bodies, PostJson(body) PROVE Accounted'
    BY <2>3, SendStep DEF PostJson
  <2>4. CASE Reopen
    BY <1>1, <2>4 DEF Reopen
  <2> QED BY <1>3, <2>1, <2>2, <2>3, <2>4, QuietCallStep, CountedCallStep
          DEF Submit, SubmissionNext
<1> QED BY <1>1, <1>2, <1>3 DEF Next, Check, vars, submissionVars

\* However requests fail, a batch that nobody will learn of is one a failure
\* after its commit, or a lost answer, has hidden.
THEOREM NoBatchIsLost == Spec => []NoUnknownBatches
<1>1. Init => Accounted
  BY NothingAccountedInit DEF Init, SubmissionInit
<1>2. Accounted => NoUnknownBatches
  BY KnownBatches DEF Accounted
<1> QED BY <1>1, <1>2, NextAccounted, PTL DEF Spec

-----------------------------------------------------------------------------
(* Lists: induction, and what recursive definitions compute *)

Before == {p \in Nat \X Nat : p[1] < p[2]}

\* The order of the natural numbers is well founded.
LEMMA BeforeIsWellFounded == IsWellFoundedOn(Before, Nat)
BY NatLessThanWellFounded DEF Before, OpToRel

\* A set of numbers has a least element.
LEMMA Least ==
  ASSUME NEW T \in SUBSET Nat, T # {}
  PROVE  \E x \in T : \A y \in T : x <= y
<1>1. PICK x \in T : \A y \in T : <<y, x>> \notin Before
  BY BeforeIsWellFounded, WFMin
<1>2. ASSUME NEW y \in T PROVE x <= y
  <2>1. x \in Nat /\ y \in Nat /\ <<y, x>> \notin Before
    BY <1>1
  <2> QED BY <2>1 DEF Before
<1> QED BY <1>2

\* Induction up to N, over a set instead of a predicate.
LEMMA UpTo ==
  ASSUME NEW N \in Nat, NEW T, 0 \in T, \A n \in 0 .. N : n \in T /\ n < N => n + 1 \in T
  PROVE  \A n \in 0 .. N : n \in T
<1> SUFFICES ASSUME NEW k \in 0 .. N, k \notin T PROVE FALSE
  OBVIOUS
<1> DEFINE B == {n \in 0 .. N : n \notin T}
<1>0. B \in SUBSET Nat /\ B # {}
  OBVIOUS
<1>1. PICK x \in B : \A y \in B : x <= y
  <2> HIDE DEF B
  <2> QED BY <1>0, Least
<1>2. x \in 0 .. N /\ x \notin T
  BY <1>1
<1>3. PICK y \in 0 .. N : y < N /\ y + 1 = x
  BY <1>2
<1>4. y \notin T
  BY <1>2, <1>3
<1>5. y \in B
  BY <1>3, <1>4
<1> QED BY <1>1, <1>2, <1>3, <1>5

\* The recursive functions exist, so they are what their equations say.
LEMMA WithoutUnfolds ==
  ASSUME NEW s, Len(s) \in Nat, NEW e
  PROVE  \E f : /\ f = [n \in 0 .. Len(s) |-> IF n = 0 THEN <<>> ELSE Kept(f[n - 1], s[n], e)]
                /\ Without(s, e) = f[Len(s)]
<1> DEFINE T == {n \in 0 .. Len(s) :
             \E f : f = [m \in 0 .. n |-> IF m = 0 THEN <<>> ELSE Kept(f[m - 1], s[m], e)]}
<1>1. 0 \in T
  <2>1. PICK f : f = [m \in 0 .. 0 |-> <<>>]
    OBVIOUS
  <2>2. f = [m \in 0 .. 0 |-> IF m = 0 THEN <<>> ELSE Kept(f[m - 1], s[m], e)]
    BY <2>1
  <2> QED BY <2>2
<1>2. ASSUME NEW n \in 0 .. Len(s), n \in T, n < Len(s)
      PROVE  n + 1 \in T
  <2>1. PICK f : f = [m \in 0 .. n |-> IF m = 0 THEN <<>> ELSE Kept(f[m - 1], s[m], e)]
    BY <1>2
  <2>2. PICK g : g = [m \in 0 .. n + 1 |-> IF m = n + 1 THEN Kept(f[n], s[m], e) ELSE f[m]]
    OBVIOUS
  <2>3. \A m \in 0 .. n + 1 : g[m] = IF m = 0 THEN <<>> ELSE Kept(g[m - 1], s[m], e)
    <3>1. ASSUME NEW m \in 0 .. n, m # 0 PROVE m - 1 \in 0 .. n /\ m # n + 1 /\ m - 1 # n + 1
      BY <3>1
    <3>2. ASSUME NEW m \in 0 .. n PROVE g[m] = IF m = 0 THEN <<>> ELSE Kept(g[m - 1], s[m], e)
      BY <2>1, <2>2, <3>1, <3>2
    <3>3. g[n + 1] = Kept(g[n], s[n + 1], e) /\ n + 1 # 0 /\ (n + 1) - 1 = n
      BY <2>2
    <3> QED BY <3>2, <3>3
  <2>4. g = [m \in 0 .. n + 1 |-> IF m = 0 THEN <<>> ELSE Kept(g[m - 1], s[m], e)]
    BY <2>2, <2>3
  <2> QED BY <1>2, <2>4
<1>3. Len(s) \in T
  <2> HIDE DEF T
  <2>1. \A n \in 0 .. Len(s) : n \in T
    BY <1>1, <1>2, UpTo
  <2> QED BY <2>1
<1> QED BY <1>3 DEF Without

\* The same for the loop of parseUrlList.
LEMMA ParseUnfolds ==
  ASSUME NEW text, Len(Lines(text)) \in Nat
  PROVE  \E f : /\ f = [n \in 0 .. Len(Lines(text)) |->
                          IF n = 0 THEN NothingParsed ELSE ParsedLine(f[n - 1], Lines(text)[n])]
                /\ ParseUrlList(text) = f[Len(Lines(text))]
<1>0. PICK s : s = Lines(text)
  OBVIOUS
<1> DEFINE T == {n \in 0 .. Len(s) :
             \E f : f = [m \in 0 .. n |-> IF m = 0 THEN NothingParsed ELSE ParsedLine(f[m - 1], s[m])]}
<1>1. 0 \in T
  <2>1. PICK f : f = [m \in 0 .. 0 |-> NothingParsed]
    OBVIOUS
  <2>2. f = [m \in 0 .. 0 |-> IF m = 0 THEN NothingParsed ELSE ParsedLine(f[m - 1], s[m])]
    BY <2>1
  <2> QED BY <1>0, <2>2
<1>2. ASSUME NEW n \in 0 .. Len(s), n \in T, n < Len(s)
      PROVE  n + 1 \in T
  <2>1. PICK f : f = [m \in 0 .. n |-> IF m = 0 THEN NothingParsed ELSE ParsedLine(f[m - 1], s[m])]
    BY <1>2
  <2>2. PICK g : g = [m \in 0 .. n + 1 |-> IF m = n + 1 THEN ParsedLine(f[n], s[m]) ELSE f[m]]
    OBVIOUS
  <2>3. \A m \in 0 .. n + 1 : g[m] = IF m = 0 THEN NothingParsed ELSE ParsedLine(g[m - 1], s[m])
    <3>1. ASSUME NEW m \in 0 .. n, m # 0 PROVE m - 1 \in 0 .. n /\ m # n + 1 /\ m - 1 # n + 1
      BY <3>1
    <3>2. ASSUME NEW m \in 0 .. n PROVE g[m] = IF m = 0 THEN NothingParsed ELSE ParsedLine(g[m - 1], s[m])
      BY <2>1, <2>2, <3>1, <3>2
    <3>3. g[n + 1] = ParsedLine(g[n], s[n + 1]) /\ n + 1 # 0 /\ (n + 1) - 1 = n
      BY <2>2
    <3> QED BY <3>2, <3>3
  <2>4. g = [m \in 0 .. n + 1 |-> IF m = 0 THEN NothingParsed ELSE ParsedLine(g[m - 1], s[m])]
    BY <2>2, <2>3
  <2> QED BY <1>0, <1>2, <2>4
<1>3. Len(s) \in T
  <2> HIDE DEF T
  <2>1. \A n \in 0 .. Len(s) : n \in T
    BY <1>0, <1>1, <1>2, UpTo
  <2> QED BY <2>1, <1>0
<1> QED BY <1>0, <1>3 DEF ParseUrlList

\* The same for joining.
LEMMA JoinedUnfolds ==
  ASSUME NEW s, Len(s) \in Nat \ {0}
  PROVE  \E f : /\ f = [n \in 1 .. Len(s) |-> IF n = 1 THEN s[n] ELSE f[n - 1] \o s[n]]
                /\ Joined(s) = f[Len(s)]
<1> DEFINE Chain(t, u) == t \o u
<1> DEFINE T == {n \in 0 .. Len(s) :
             \E f : f = [m \in 1 .. n |-> IF m = 1 THEN s[m] ELSE Chain(f[m - 1], s[m])]}
<1> HIDE DEF Chain
<1>1. 0 \in T
  <2>1. PICK f : f = [m \in 1 .. 0 |-> IF m = 1 THEN s[m] ELSE <<>>]
    OBVIOUS
  <2>2. f = [m \in 1 .. 0 |-> IF m = 1 THEN s[m] ELSE Chain(f[m - 1], s[m])]
    BY <2>1, SMT
  <2>3. \E h : h = [m \in 1 .. 0 |-> IF m = 1 THEN s[m] ELSE Chain(h[m - 1], s[m])]
    BY <2>2, Zenon
  <2>4. 0 \in 0 .. Len(s)
    OBVIOUS
  <2> QED BY <2>3, <2>4, Zenon
<1>2. ASSUME NEW n \in 0 .. Len(s), n \in T, n < Len(s)
      PROVE  n + 1 \in T
  <2>1. PICK f : f = [m \in 1 .. n |-> IF m = 1 THEN s[m] ELSE Chain(f[m - 1], s[m])]
    BY <1>2
  <2>2. PICK last : last = (IF n = 0 THEN s[1] ELSE Chain(f[n], s[n + 1]))
    OBVIOUS
  <2>3. PICK g : g = [m \in 1 .. n + 1 |-> IF m = n + 1 THEN last ELSE f[m]]
    OBVIOUS
  <2>4. \A m \in 1 .. n + 1 : g[m] = IF m = 1 THEN s[m] ELSE Chain(g[m - 1], s[m])
    <3>1. ASSUME NEW m \in 1 .. n, m # 1 PROVE m - 1 \in 1 .. n /\ m # n + 1 /\ m - 1 # n + 1
      BY <3>1
    <3>2. ASSUME NEW m \in 1 .. n PROVE g[m] = IF m = 1 THEN s[m] ELSE Chain(g[m - 1], s[m])
      BY <2>1, <2>3, <3>1, <3>2
    <3>3. CASE n = 0
      BY <2>2, <2>3, <3>3
    <3>4. CASE n # 0
      <4>1. g[n + 1] = Chain(f[n], s[n + 1]) /\ g[n] = f[n] /\ n + 1 # 1 /\ (n + 1) - 1 = n
        BY <2>2, <2>3, <3>4
      <4> QED BY <3>2, <4>1
    <3> QED BY <3>3, <3>4
  <2>5. g = [m \in 1 .. n + 1 |-> IF m = 1 THEN s[m] ELSE Chain(g[m - 1], s[m])]
    BY <2>3, <2>4
  <2> QED BY <1>2, <2>5
<1>3. Len(s) \in T
  <2> HIDE DEF T
  <2>1. \A n \in 0 .. Len(s) : n \in T
    BY <1>1, <1>2, UpTo
  <2> QED BY <2>1
<1> QED BY <1>3 DEF Joined, FlattenSeq, Chain

\* g counts the set I of numbers up to n in their order, and k is how many.
Picked(g, k, n, I) ==
  /\ g \in [1 .. k -> 1 .. n]
  /\ \A i, j \in 1 .. k : i < j => g[i] < g[j]
  /\ {g[j] : j \in 1 .. k} = I

\* Nothing is counted by the empty function.
LEMMA PickNothing == \E g : Picked(g, 0, 0, {})
<1>1. PICK g : g = [j \in 1 .. 0 |-> j]
  OBVIOUS
<1>2. g \in [1 .. 0 -> 1 .. 0]
  BY <1>1
<1>3. {g[j] : j \in 1 .. 0} = {}
  OBVIOUS
<1>4. \A i, j \in 1 .. 0 : i < j => g[i] < g[j]
  OBVIOUS
<1>5. Picked(g, 0, 0, {})
  BY <1>2, <1>3, <1>4 DEF Picked
<1> QED BY <1>5

\* A number that is not counted extends the range only.
LEMMA PickSkip ==
  ASSUME NEW k \in Nat, NEW n \in Nat, NEW g, NEW I, Picked(g, k, n, I)
  PROVE  Picked(g, k, n + 1, I)
BY DEF Picked

\* h counts as g does, and then n + 1.
GoesOn(h, g, k, n, I) ==
  /\ Picked(h, k + 1, n + 1, I \cup {n + 1}) /\ h[k + 1] = n + 1
  /\ \A j \in 1 .. k : h[j] = g[j]

\* The next number is counted last.
LEMMA PickNext ==
  ASSUME NEW k \in Nat, NEW n \in Nat, NEW g, NEW I, Picked(g, k, n, I)
  PROVE  \E h : GoesOn(h, g, k, n, I)
<1>1. PICK h : h = [j \in 1 .. k + 1 |-> IF j = k + 1 THEN n + 1 ELSE g[j]]
  OBVIOUS
<1>2. /\ h \in [1 .. k + 1 -> 1 .. n + 1] /\ h[k + 1] = n + 1
      /\ \A j \in 1 .. k : h[j] = g[j] /\ g[j] \in 1 .. n
  BY <1>1 DEF Picked
<1>3. \A i, j \in 1 .. k + 1 : i < j => h[i] < h[j]
  BY <1>2 DEF Picked
<1>4. {h[j] : j \in 1 .. k + 1} = I \cup {n + 1}
  <2>1. ASSUME NEW j \in 1 .. k + 1 PROVE j \in 1 .. k \/ j = k + 1
    OBVIOUS
  <2>2. \A j \in 1 .. k : j \in 1 .. k + 1
    OBVIOUS
  <2>3. k + 1 \in 1 .. k + 1
    OBVIOUS
  <2> QED BY <1>2, <2>1, <2>2, <2>3 DEF Picked
<1>5. GoesOn(h, g, k, n, I)
  BY <1>2, <1>3, <1>4 DEF Picked, GoesOn
<1> QED BY <1>5

\* d counts those of h that g counts.
Composes(d, h, g, m, n, J) ==
  Picked(d, m, n, {h[j] : j \in J}) /\ \A j \in 1 .. m : d[j] = h[g[j]]

\* Counting those that were counted.
LEMMA PickCompose ==
  ASSUME NEW k \in Nat, NEW m \in Nat, NEW n \in Nat, NEW g, NEW h, NEW I, NEW J,
         Picked(h, k, n, I), Picked(g, m, k, J)
  PROVE  \E d : Composes(d, h, g, m, n, J)
<1>1. PICK d : d = [j \in 1 .. m |-> h[g[j]]]
  OBVIOUS
<1>2. \A j \in 1 .. m : g[j] \in 1 .. k /\ h[g[j]] \in 1 .. n /\ d[j] = h[g[j]]
  BY <1>1 DEF Picked
<1>3. d \in [1 .. m -> 1 .. n]
  BY <1>1, <1>2
<1>4. \A i, j \in 1 .. m : i < j => d[i] < d[j]
  BY <1>2 DEF Picked
<1>5. {d[j] : j \in 1 .. m} = {h[j] : j \in J}
  <2>1. \A j \in 1 .. m : g[j] \in J
    BY DEF Picked
  <2>2. \A i \in J : \E j \in 1 .. m : g[j] = i
    BY DEF Picked
  <2> QED BY <1>2, <2>1, <2>2
<1>6. Composes(d, h, g, m, n, J)
  BY <1>2, <1>3, <1>4, <1>5 DEF Picked, Composes
<1> QED BY <1>6

\* How many of I there are up to x.
Rank(I, x) == Cardinality({j \in I : j <= x})

\* A set that is counted up to k has k elements, and the m-th has rank m.
LEMMA PickCount ==
  ASSUME NEW k \in Nat, NEW n \in Nat, NEW g, NEW I, Picked(g, k, n, I)
  PROVE  /\ IsFiniteSet(I) /\ Cardinality(I) = k
         /\ \A m \in 1 .. k : Rank(I, g[m]) = m
<1>1. ASSUME NEW m \in 0 .. k
      PROVE  /\ IsFiniteSet({g[j] : j \in 1 .. m}) /\ Cardinality({g[j] : j \in 1 .. m}) = m
  <2>1. PICK J : J = {g[j] : j \in 1 .. m}
    OBVIOUS
  <2>2. PICK f : f = [j \in 1 .. m |-> g[j]]
    OBVIOUS
  <2>3. f \in Bijection(1 .. m, J)
    <3>1. f \in [1 .. m -> J] /\ \A x \in J : \E j \in 1 .. m : f[j] = x
      BY <2>1, <2>2
    <3>2. \A i, j \in 1 .. m : f[i] = f[j] => i = j
      <4>1. \A i, j \in 1 .. m : i < j => f[i] < f[j] /\ f[i] \in Nat /\ f[j] \in Nat
        BY <1>1, <2>2 DEF Picked
      <4> QED BY <4>1
    <3> QED BY <3>1, <3>2 DEF Bijection, Injection, Surjection, IsInjective
  <2>4. ExistsBijection(1 .. m, J)
    BY <2>3 DEF ExistsBijection
  <2>5. IsFiniteSet(1 .. m) /\ Cardinality(1 .. m) = m
    <3>1. m \in Nat
      OBVIOUS
    <3> QED BY <3>1, FS_Interval
  <2> QED BY <2>1, <2>4, <2>5, FS_Bijection
<1>2. IsFiniteSet(I) /\ Cardinality(I) = k
  <2>1. k \in 0 .. k /\ I = {g[j] : j \in 1 .. k}
    BY DEF Picked
  <2> QED BY <1>1, <2>1
<1>3. ASSUME NEW m \in 1 .. k
      PROVE  {j \in I : j <= g[m]} = {g[j] : j \in 1 .. m}
  <2>1. \A j \in 1 .. k : g[j] <= g[m] <=> j <= m
    BY DEF Picked
  <2> QED BY <2>1 DEF Picked
<1>4. \A m \in 1 .. k : m \in 0 .. k
  OBVIOUS
<1> QED BY <1>1, <1>2, <1>3, <1>4 DEF Rank

\* What is left of a sequence is a subsequence, without what is dropped and
\* with everything else.
Remains(h, t, s, e) ==
  /\ Picked(h, Len(t), Len(s), {i \in 1 .. Len(s) : s[i] # e})
  /\ \A j \in 1 .. Len(t) : t[j] = s[h[j]]

\* Filtering leaves the rest of a sequence in that sense.
LEMMA WithoutPicks ==
  ASSUME NEW S, NEW s \in Seq(S), NEW e
  PROVE  Without(s, e) \in Seq(S) /\ \E h : Remains(h, Without(s, e), s, e)
<1>1. Len(s) \in Nat /\ \A i \in 1 .. Len(s) : s[i] \in S
  OBVIOUS
<1>2. PICK f : /\ f = [n \in 0 .. Len(s) |-> IF n = 0 THEN <<>> ELSE Kept(f[n - 1], s[n], e)]
               /\ Without(s, e) = f[Len(s)]
  BY <1>1, WithoutUnfolds
<1> DEFINE I(n) == {i \in 1 .. n : s[i] # e}
           T == {n \in 0 .. Len(s) :
                   /\ f[n] \in Seq(S)
                   /\ \E h : /\ Picked(h, Len(f[n]), n, I(n))
                             /\ \A j \in 1 .. Len(f[n]) : f[n][j] = s[h[j]]}
<1>3. 0 \in T
  <2>1. f[0] = <<>> /\ 0 \in 0 .. Len(s)
    BY <1>1, <1>2
  <2>2. f[0] \in Seq(S) /\ Len(f[0]) = 0 /\ I(0) = {}
    BY <2>1
  <2>3. PICK h : Picked(h, 0, 0, {})
    BY PickNothing
  <2>4. Picked(h, Len(f[0]), 0, I(0)) /\ \A j \in 1 .. Len(f[0]) : f[0][j] = s[h[j]]
    BY <2>2, <2>3
  <2> QED BY <2>1, <2>2, <2>4
<1>4. ASSUME NEW n \in 0 .. Len(s), n \in T, n < Len(s)
      PROVE  n + 1 \in T
  <2>1. n + 1 \in 0 .. Len(s) /\ n + 1 # 0 /\ (n + 1) - 1 = n /\ n \in Nat /\ n + 1 \in 1 .. Len(s)
    BY <1>1, <1>4
  <2>2. PICK t \in Seq(S) : t = f[n]
    BY <1>4
  <2>3. PICK k \in Nat : k = Len(t)
    BY <2>2
  <2>0. PICK J : J = I(n)
    OBVIOUS
  <2>4. PICK h : Picked(h, k, n, J) /\ \A j \in 1 .. k : t[j] = s[h[j]]
    BY <1>4, <2>0, <2>2, <2>3
  <2>5. f[n + 1] = IF s[n + 1] = e THEN t ELSE Append(t, s[n + 1])
    BY <1>2, <2>1, <2>2 DEF Kept
  <2>6. CASE s[n + 1] = e
    <3>1. I(n + 1) = J
      BY <2>0, <2>1, <2>6
    <3>2. Picked(h, k, n + 1, I(n + 1))
      BY <2>1, <2>3, <2>4, <3>1, PickSkip
    <3>3. f[n + 1] = t
      BY <2>5, <2>6
    <3>4. Picked(h, Len(f[n + 1]), n + 1, I(n + 1))
          /\ \A j \in 1 .. Len(f[n + 1]) : f[n + 1][j] = s[h[j]]
      BY <2>3, <2>4, <3>2, <3>3
    <3> QED BY <2>1, <2>2, <3>3, <3>4
  <2>7. CASE s[n + 1] # e
    <3>1. I(n + 1) = J \cup {n + 1}
      BY <2>0, <2>1, <2>7
    <3>2. PICK d : /\ Picked(d, k + 1, n + 1, J \cup {n + 1}) /\ d[k + 1] = n + 1
                   /\ \A j \in 1 .. k : d[j] = h[j]
      <4>1. n \in Nat
        BY <2>1
      <4>2. \E d : GoesOn(d, h, k, n, J)
        BY <2>4, <4>1, PickNext
      <4> QED BY <4>2 DEF GoesOn
    <3>3. PICK x \in S : x = s[n + 1]
      BY <1>1, <2>1
    <3>4. PICK u \in Seq(S) : /\ u = Append(t, x) /\ Len(u) = k + 1 /\ u[k + 1] = x
                              /\ \A j \in 1 .. k : u[j] = t[j]
      <4>1. /\ Append(t, x) \in Seq(S) /\ Len(Append(t, x)) = k + 1
            /\ Append(t, x)[k + 1] = x /\ \A j \in 1 .. k : Append(t, x)[j] = t[j]
        BY <2>2, <2>3, <3>3, AppendProperties
      <4> QED BY <4>1
    <3>5. \A j \in 1 .. k + 1 : u[j] = s[d[j]]
      <4>1. \A j \in 1 .. k + 1 : j \in 1 .. k \/ j = k + 1
        OBVIOUS
      <4> QED BY <2>4, <3>2, <3>3, <3>4, <4>1
    <3>6. f[n + 1] = u /\ Picked(d, Len(u), n + 1, I(n + 1))
      BY <2>5, <2>7, <3>1, <3>2, <3>3, <3>4
    <3>7. /\ f[n + 1] \in Seq(S) /\ Picked(d, Len(f[n + 1]), n + 1, I(n + 1))
          /\ \A j \in 1 .. Len(f[n + 1]) : f[n + 1][j] = s[d[j]]
      BY <3>4, <3>5, <3>6
    <3> QED BY <2>1, <3>7
  <2> QED BY <2>6, <2>7
<1>5. Len(s) \in T
  <2> HIDE DEF T
  <2>1. \A n \in 0 .. Len(s) : n \in T
    BY <1>1, <1>3, <1>4, UpTo
  <2> QED BY <1>1, <2>1
<1>6. PICK h : /\ Picked(h, Len(f[Len(s)]), Len(s), I(Len(s)))
               /\ \A j \in 1 .. Len(f[Len(s)]) : f[Len(s)][j] = s[h[j]]
  BY <1>5
<1>7. Remains(h, Without(s, e), s, e)
  BY <1>2, <1>6 DEF Remains
<1> QED BY <1>2, <1>5, <1>7

\* Whoever counts all numbers counts each as itself.
LEMMA PickAll ==
  ASSUME NEW k \in Nat, NEW n \in Nat, NEW g, Picked(g, k, n, 1 .. n)
  PROVE  k = n /\ \A m \in 1 .. k : g[m] = m
<1>1. PICK I : I = 1 .. n
  OBVIOUS
<1>2. Picked(g, k, n, I)
  BY <1>1
<1>3. /\ Cardinality(I) = k
      /\ \A m \in 1 .. k : Rank(I, g[m]) = m
  BY <1>2, PickCount
<1>4. Cardinality(1 .. n) = n
  <2>1. n \in Nat
    OBVIOUS
  <2> QED BY <2>1, FS_Interval
<1>5. ASSUME NEW m \in 1 .. k PROVE g[m] = m
  <2>1. g[m] \in 1 .. n
    BY <1>2 DEF Picked
  <2>2. PICK x \in Nat : x = g[m] /\ x <= n
    BY <2>1
  <2>3. {j \in I : j <= g[m]} = 1 .. x
    BY <1>1, <2>2
  <2>4. Cardinality(1 .. x) = x
    BY <2>2, FS_Interval
  <2>5. Cardinality({j \in I : j <= g[m]}) = m
    BY <1>3 DEF Rank
  <2> QED BY <2>2, <2>3, <2>4, <2>5
<1> QED BY <1>1, <1>3, <1>4, <1>5

\* No more numbers are counted than there are.
LEMMA PickAtMost ==
  ASSUME NEW k \in Nat, NEW n \in Nat, NEW g, NEW I, Picked(g, k, n, I)
  PROVE  k <= n /\ I \subseteq 1 .. n
<1>1. I \subseteq 1 .. n
  BY DEF Picked
<1>2. IsFiniteSet(I) /\ Cardinality(I) = k
  BY PickCount
<1>3. IsFiniteSet(1 .. n) /\ Cardinality(1 .. n) = n
  <2>1. n \in Nat
    OBVIOUS
  <2> QED BY <2>1, FS_Interval
<1>4. Cardinality(I) <= Cardinality(1 .. n)
  BY <1>1, <1>3, FS_Subset
<1> QED BY <1>1, <1>2, <1>3, <1>4

\* A sequence without the element that is dropped stays as it is.
LEMMA NothingDropped ==
  ASSUME NEW S, NEW s \in Seq(S), NEW e, \A i \in 1 .. Len(s) : s[i] # e
  PROVE  Without(s, e) = s
<1>1. PICK t \in Seq(S) : t = Without(s, e)
  BY WithoutPicks
<1>2. PICK n \in Nat : n = Len(s)
  OBVIOUS
<1>3. PICK k \in Nat : k = Len(t)
  OBVIOUS
<1>4. {i \in 1 .. Len(s) : s[i] # e} = 1 .. n
  BY <1>2
<1>5. PICK h : Picked(h, k, n, 1 .. n) /\ \A j \in 1 .. k : t[j] = s[h[j]]
  <2>1. PICK h : Remains(h, t, s, e)
    BY <1>1, WithoutPicks
  <2> QED BY <1>2, <1>3, <1>4, <2>1 DEF Remains
<1>6. k = n /\ \A m \in 1 .. k : h[m] = m
  BY <1>5, PickAll
<1>7. \A j \in 1 .. Len(t) : t[j] = s[j]
  BY <1>2, <1>3, <1>5, <1>6
<1> QED BY <1>1, <1>2, <1>3, <1>6, <1>7, SeqEqual

\* Lines that were taken from a text have no blank among them.
LEMMA LinesAgain ==
  ASSUME NEW text \in Seq(Pieces)
  PROVE  /\ Lines(text) \in Seq(Pieces) /\ Lines(Lines(text)) = Lines(text)
         /\ ParseUrlList(Lines(text)) = ParseUrlList(text)
<1>1. PICK s \in Seq(Pieces) : s = Lines(text)
  BY WithoutPicks DEF Lines
<1>2. \A j \in 1 .. Len(s) : s[j] # Blank
  <2>1. PICK h : Remains(h, s, text, Blank)
    BY <1>1, WithoutPicks DEF Lines
  <2> QED BY <2>1 DEF Remains, Picked
<1>3. Lines(s) = s
  BY <1>2, NothingDropped DEF Lines
<1>4. ParseUrlList(s) = ParseUrlList(text)
  BY <1>1, <1>3 DEF ParseUrlList
<1> QED BY <1>1, <1>3, <1>4

-----------------------------------------------------------------------------
(* Joining *)

\* No entries are joined to no text.
LEMMA JoinedEmpty == Joined(<<>>) = <<>>
BY DEF Joined, FlattenSeq

\* Joining grows with its entries.
LEMMA JoinedAppend ==
  ASSUME NEW S, NEW s \in Seq(Seq(S)), NEW x \in Seq(S)
  PROVE  Joined(s) \in Seq(S) /\ Joined(Append(s, x)) = Joined(s) \o x
<1>1. PICK n \in Nat : n = Len(s)
  OBVIOUS
<1>2. PICK u \in Seq(Seq(S)) : /\ u = Append(s, x) /\ Len(u) = n + 1 /\ u[n + 1] = x
                               /\ \A i \in 1 .. n : u[i] = s[i] /\ s[i] \in Seq(S)
  <2>1. /\ Append(s, x) \in Seq(Seq(S)) /\ Len(Append(s, x)) = n + 1
        /\ Append(s, x)[n + 1] = x /\ \A i \in 1 .. n : Append(s, x)[i] = s[i]
    BY <1>1, AppendProperties
  <2>2. \A i \in 1 .. n : s[i] \in Seq(S)
    BY <1>1, ElementOfSeq
  <2> QED BY <2>1, <2>2
<1>3. PICK f : /\ f = [m \in 1 .. n + 1 |-> IF m = 1 THEN u[m] ELSE f[m - 1] \o u[m]]
               /\ Joined(u) = f[n + 1]
  <2>1. Len(u) \in Nat \ {0}
    BY <1>2
  <2>2. \E f : /\ f = [m \in 1 .. Len(u) |-> IF m = 1 THEN u[m] ELSE f[m - 1] \o u[m]]
               /\ Joined(u) = f[Len(u)]
    BY <2>1, JoinedUnfolds
  <2> QED BY <1>2, <2>2
<1>4. CASE n = 0
  <2>1. s = <<>>
    BY <1>1, <1>4, EmptySeq
  <2>2. Joined(s) = <<>> /\ <<>> \in Seq(S)
    BY <2>1, JoinedEmpty, EmptySeq
  <2>3. Joined(u) = x
    BY <1>2, <1>3, <1>4
  <2>4. <<>> \o x = x
    BY ConcatEmptySeq
  <2> QED BY <1>2, <2>2, <2>3, <2>4
<1>5. CASE n # 0
  <2>1. PICK h : /\ h = [m \in 1 .. n |-> IF m = 1 THEN s[m] ELSE h[m - 1] \o s[m]]
                 /\ Joined(s) = h[n]
    <3>1. Len(s) \in Nat \ {0}
      BY <1>1, <1>5
    <3>2. \E h : /\ h = [m \in 1 .. Len(s) |-> IF m = 1 THEN s[m] ELSE h[m - 1] \o s[m]]
                 /\ Joined(s) = h[Len(s)]
      BY <3>1, JoinedUnfolds
    <3> QED BY <1>1, <3>2
  <2> DEFINE T == {m \in 0 .. n : m # 0 => f[m] = h[m] /\ h[m] \in Seq(S)}
  <2>2. 0 \in T
    BY <1>1
  <2>3. ASSUME NEW m \in 0 .. n, m \in T, m < n
        PROVE  m + 1 \in T
    <3>1. m + 1 \in 1 .. n /\ m + 1 \in 1 .. n + 1 /\ u[m + 1] = s[m + 1] /\ s[m + 1] \in Seq(S)
      BY <1>1, <1>2, <2>3
    <3>2. CASE m = 0
      <4>1. f[m + 1] = u[m + 1] /\ h[m + 1] = s[m + 1]
        BY <1>3, <2>1, <3>1, <3>2
      <4> QED BY <3>1, <4>1
    <3>3. CASE m # 0
      <4>1. m + 1 # 1 /\ (m + 1) - 1 = m
        BY <3>3
      <4>2. f[m + 1] = f[m] \o u[m + 1]
        BY <1>3, <3>1, <4>1
      <4>3. h[m + 1] = h[m] \o s[m + 1]
        BY <2>1, <3>1, <4>1
      <4>4. PICK v \in Seq(S), y \in Seq(S) : v = h[m] /\ v = f[m] /\ y = s[m + 1]
        BY <2>3, <3>1, <3>3
      <4>5. v \o y \in Seq(S)
        BY ConcatProperties
      <4>6. f[m + 1] = v \o y /\ h[m + 1] = v \o y
        BY <3>1, <4>2, <4>3, <4>4
      <4>7. f[m + 1] = h[m + 1] /\ h[m + 1] \in Seq(S)
        BY <4>5, <4>6
      <4> QED BY <3>1, <4>7
    <3> QED BY <3>2, <3>3
  <2>4. n \in T
    <3> HIDE DEF T
    <3>1. \A m \in 0 .. n : m \in T
      BY <2>2, <2>3, UpTo
    <3> QED BY <3>1
  <2>5. f[n] = h[n] /\ h[n] \in Seq(S)
    BY <1>5, <2>4
  <2>6. f[n + 1] = f[n] \o u[n + 1]
    <3>1. n + 1 \in 1 .. n + 1 /\ n + 1 # 1 /\ (n + 1) - 1 = n
      BY <1>5
    <3> QED BY <1>3, <3>1
  <2> QED BY <1>2, <1>3, <2>1, <2>5, <2>6
<1> QED BY <1>4, <1>5

\* Entries of pieces are joined to pieces.
LEMMA JoinedTyped ==
  ASSUME NEW S, NEW s \in Seq(Seq(S))
  PROVE  Joined(s) \in Seq(S)
<1>1. <<>> \in Seq(S)
  BY EmptySeq
<1> QED BY <1>1, JoinedAppend

\* Empty entries add nothing.
LEMMA JoinedWithout ==
  ASSUME NEW S, NEW s \in Seq(Seq(S))
  PROVE  Without(s, <<>>) \in Seq(Seq(S)) /\ Joined(Without(s, <<>>)) = Joined(s)
<1>1. PICK n \in Nat : n = Len(s)
  OBVIOUS
<1>2. \A i \in 1 .. n : s[i] \in Seq(S)
  BY <1>1, ElementOfSeq
<1>3. PICK f : /\ f = [m \in 0 .. n |-> IF m = 0 THEN <<>> ELSE Kept(f[m - 1], s[m], <<>>)]
               /\ Without(s, <<>>) = f[n]
  <2>1. Len(s) \in Nat
    OBVIOUS
  <2>2. \E f : /\ f = [m \in 0 .. Len(s) |-> IF m = 0 THEN <<>> ELSE Kept(f[m - 1], s[m], <<>>)]
               /\ Without(s, <<>>) = f[Len(s)]
    BY <2>1, WithoutUnfolds
  <2> QED BY <1>1, <2>2
<1>4. f[0] = <<>>
  BY <1>1, <1>3
<1>5. <<>> \in Seq(Seq(S)) /\ <<>> \in Seq(S)
  BY EmptySeq
<1>6. CASE n = 0
  <2>1. s = <<>>
    BY <1>1, <1>6, EmptySeq
  <2> QED BY <1>3, <1>4, <1>5, <1>6, <2>1
<1>7. CASE n # 0
  <2>1. PICK h : /\ h = [m \in 1 .. n |-> IF m = 1 THEN s[m] ELSE h[m - 1] \o s[m]]
                 /\ Joined(s) = h[n]
    <3>1. Len(s) \in Nat \ {0}
      BY <1>1, <1>7
    <3>2. \E h : /\ h = [m \in 1 .. Len(s) |-> IF m = 1 THEN s[m] ELSE h[m - 1] \o s[m]]
                 /\ Joined(s) = h[Len(s)]
      BY <3>1, JoinedUnfolds
    <3> QED BY <1>1, <3>2
  <2> DEFINE T == {m \in 0 .. n :
                     /\ f[m] \in Seq(Seq(S))
                     /\ m # 0 => Joined(f[m]) = h[m] /\ h[m] \in Seq(S)}
  <2>2. 0 \in T
    <3>1. 0 \in 0 .. n /\ f[0] \in Seq(Seq(S)) /\ ~(0 # 0)
      BY <1>4, <1>5
    <3> QED BY <3>1, Zenon
  <2>3. ASSUME NEW m \in 0 .. n, m \in T, m < n
        PROVE  m + 1 \in T
    <3>1. m + 1 \in 1 .. n /\ m + 1 \in 0 .. n /\ m + 1 # 0 /\ (m + 1) - 1 = m
      BY <1>1, <2>3
    <3>2. PICK x \in Seq(S) : x = s[m + 1]
      BY <1>2, <3>1
    <3>3. PICK t \in Seq(Seq(S)) : t = f[m]
      BY <2>3
    <3>4. f[m + 1] = IF x = <<>> THEN t ELSE Append(t, x)
      BY <1>3, <3>1, <3>2, <3>3 DEF Kept
    <3>5. PICK y \in Seq(S) : y = Joined(t)
      BY JoinedTyped
    <3>6. y \o x \in Seq(S) /\ y \o <<>> = y
      BY ConcatProperties, ConcatEmptySeq
    <3>7. h[m + 1] = y \o x
      <4>1. CASE m = 0
        <5>1. y = <<>>
          BY <1>4, <3>3, <3>5, <4>1, JoinedEmpty
        <5>2. h[m + 1] = x
          BY <2>1, <3>1, <3>2, <4>1
        <5>3. <<>> \o x = x
          BY ConcatEmptySeq
        <5> QED BY <5>1, <5>2, <5>3
      <4>2. CASE m # 0
        <5>1. h[m] = y
          BY <2>3, <3>3, <3>5, <4>2
        <5>2. m + 1 # 1
          BY <4>2
        <5>3. h[m + 1] = h[m] \o s[m + 1]
          BY <2>1, <3>1, <5>2
        <5> QED BY <3>2, <5>1, <5>3
      <4> QED BY <4>1, <4>2
    <3>8. f[m + 1] \in Seq(Seq(S)) /\ Joined(f[m + 1]) = y \o x
      <4>1. CASE x = <<>>
        BY <3>3, <3>4, <3>5, <3>6, <4>1
      <4>2. CASE x # <<>>
        <5>1. Append(t, x) \in Seq(Seq(S))
          BY AppendProperties
        <5>2. Joined(Append(t, x)) = y \o x
          BY <3>5, JoinedAppend
        <5> QED BY <3>4, <4>2, <5>1, <5>2
      <4> QED BY <4>1, <4>2
    <3> QED BY <3>1, <3>6, <3>7, <3>8
  <2>4. n \in T
    <3> HIDE DEF T
    <3>1. \A m \in 0 .. n : m \in T
      BY <2>2, <2>3, UpTo
    <3> QED BY <3>1
  <2> QED BY <1>3, <1>7, <2>1, <2>4
<1> QED BY <1>6, <1>7

\* Entries of one piece each are joined to the pieces.
LEMMA JoinedSingles ==
  ASSUME NEW S, NEW s \in Seq(Seq(S)), \A i \in 1 .. Len(s) : Len(s[i]) = 1
  PROVE  Len(Joined(s)) = Len(s) /\ \A i \in 1 .. Len(s) : Joined(s)[i] = s[i][1]
<1>1. PICK n \in Nat : n = Len(s)
  OBVIOUS
<1>2. \A i \in 1 .. n : s[i] \in Seq(S) /\ Len(s[i]) = 1
  BY <1>1, ElementOfSeq
<1>3. CASE n = 0
  <2>1. s = <<>>
    BY <1>1, <1>3, EmptySeq
  <2> QED BY <1>1, <1>3, <2>1, JoinedEmpty
<1>4. CASE n # 0
  <2>1. PICK h : /\ h = [m \in 1 .. n |-> IF m = 1 THEN s[m] ELSE h[m - 1] \o s[m]]
                 /\ Joined(s) = h[n]
    <3>1. Len(s) \in Nat \ {0}
      BY <1>1, <1>4
    <3>2. \E h : /\ h = [m \in 1 .. Len(s) |-> IF m = 1 THEN s[m] ELSE h[m - 1] \o s[m]]
                 /\ Joined(s) = h[Len(s)]
      BY <3>1, JoinedUnfolds
    <3> QED BY <1>1, <3>2
  <2> DEFINE T == {m \in 0 .. n :
                     m # 0 => /\ h[m] \in Seq(S) /\ Len(h[m]) = m
                              /\ \A i \in 1 .. m : h[m][i] = s[i][1]}
  <2>2. 0 \in T
    BY <1>1
  <2>3. ASSUME NEW m \in 0 .. n, m \in T, m < n
        PROVE  m + 1 \in T
    <3>1. m + 1 \in 1 .. n /\ m + 1 \in 0 .. n /\ m + 1 # 0 /\ (m + 1) - 1 = m
      BY <1>1, <2>3
    <3>2. PICK x \in Seq(S) : x = s[m + 1] /\ Len(x) = 1
      BY <1>2, <3>1
    <3>3. CASE m = 0
      <4>1. h[m + 1] = x
        BY <2>1, <3>1, <3>2, <3>3
      <4> QED BY <3>1, <3>2, <3>3, <4>1
    <3>4. CASE m # 0
      <4>1. PICK y \in Seq(S) : y = h[m] /\ Len(y) = m /\ \A i \in 1 .. m : y[i] = s[i][1]
        BY <2>3, <3>4
      <4>2. m + 1 # 1
        BY <3>4
      <4>3. h[m + 1] = h[m] \o s[m + 1]
        BY <2>1, <3>1, <4>2
      <4>4. PICK z : z = y \o x
        OBVIOUS
      <4>5. /\ z \in Seq(S) /\ Len(z) = m + 1
            /\ \A i \in 1 .. m + 1 : z[i] = IF i <= m THEN y[i] ELSE x[i - m]
        <5>1. /\ y \o x \in Seq(S) /\ Len(y \o x) = Len(y) + Len(x)
              /\ \A i \in 1 .. Len(y) + Len(x) :
                   (y \o x)[i] = IF i <= Len(y) THEN y[i] ELSE x[i - Len(y)]
          BY ConcatProperties
        <5> QED BY <3>2, <4>1, <4>4, <5>1
      <4>6. \A i \in 1 .. m + 1 : z[i] = s[i][1]
        <5>1. \A i \in 1 .. m + 1 : (i \in 1 .. m /\ i <= m) \/ (i = m + 1 /\ ~(i <= m) /\ i - m = 1)
          BY <1>1
        <5> QED BY <3>2, <4>1, <4>5, <5>1
      <4>7. h[m + 1] = z
        BY <3>2, <4>1, <4>3, <4>4
      <4> QED BY <3>1, <4>5, <4>6, <4>7
    <3> QED BY <3>3, <3>4
  <2>4. n \in T
    <3> HIDE DEF T
    <3>1. \A m \in 0 .. n : m \in T
      BY <2>2, <2>3, UpTo
    <3> QED BY <3>1
  <2> QED BY <1>1, <1>4, <2>1, <2>4
<1> QED BY <1>3, <1>4

-----------------------------------------------------------------------------
(* What parseUrlList returns *)

Entries == [url : Pieces, normalized : Written]
Lists == [valid : Seq(Entries), invalid : Seq(Pieces), duplicates : Seq(Written),
          seen : SUBSET Written]

\* The loop of parseUrlList starts with empty lists.
LEMMA NothingParsedParts ==
  NothingParsed \in Lists /\ NothingParsed.valid = <<>> /\ NothingParsed.seen = {}
BY EmptySeq DEF NothingParsed, Lists

\* An invalid line changes neither the URLs kept nor those seen,
LEMMA LineInvalid ==
  ASSUME NEW l \in Lists, NEW p \in Pieces, ~Valid(p)
  PROVE  /\ ParsedLine(l, p) \in Lists
         /\ ParsedLine(l, p).valid = l.valid /\ ParsedLine(l, p).seen = l.seen
<1>1. PICK s \in Seq(Pieces) : s = Append(l.invalid, p)
  BY AppendProperties DEF Lists
<1>2. ParsedLine(l, p) = [l EXCEPT !.invalid = s]
  BY <1>1 DEF ParsedLine
<1> QED BY <1>2 DEF Lists

\* nor does a duplicate;
LEMMA LineDuplicate ==
  ASSUME NEW l \in Lists, NEW p \in Written, Valid(p), Normal(p) \in l.seen
  PROVE  /\ ParsedLine(l, p) \in Lists
         /\ ParsedLine(l, p).valid = l.valid /\ ParsedLine(l, p).seen = l.seen
<1>0. Normal(p) \in Written
  BY NormalParts
<1>1. PICK s \in Seq(Written) : s = Append(l.duplicates, Normal(p))
  BY <1>0, AppendProperties DEF Lists
<1>2. ParsedLine(l, p) = [l EXCEPT !.duplicates = s]
  BY <1>1 DEF ParsedLine
<1> QED BY <1>2 DEF Lists

\* a new URL is appended to the first and added to the others.
LEMMA LineNew ==
  ASSUME NEW l \in Lists, NEW p \in Written, Valid(p), Normal(p) \notin l.seen
  PROVE  /\ ParsedLine(l, p) \in Lists
         /\ ParsedLine(l, p).valid = Append(l.valid, [url |-> p, normalized |-> Normal(p)])
         /\ ParsedLine(l, p).seen = l.seen \cup {Normal(p)}
<1>0. PICK n \in Written : n = Normal(p)
  BY NormalParts
<1>1. PICK x \in Entries : x = [url |-> p, normalized |-> n]
  BY <1>0 DEF Entries, Pieces
<1>2. PICK s \in Seq(Entries) : s = Append(l.valid, x)
  BY AppendProperties DEF Lists
<1>3. PICK T \in SUBSET Written : T = l.seen \cup {n}
  BY DEF Lists
<1>4. ParsedLine(l, p) = [l EXCEPT !.valid = s, !.seen = T]
  BY <1>0, <1>1, <1>2, <1>3 DEF ParsedLine
<1>5. /\ ParsedLine(l, p) \in Lists
      /\ ParsedLine(l, p).valid = s /\ ParsedLine(l, p).seen = T
  BY <1>4 DEF Lists
<1> QED BY <1>0, <1>1, <1>2, <1>3, <1>5

\* The valid pieces among the first n that no earlier piece is a spelling of.
First(s, n) ==
  {i \in 1 .. n :
     Valid(s[i]) /\ \A j \in 1 .. i - 1 : Valid(s[j]) => Meaning(s[j]) # Meaning(s[i])}

\* The normal forms of the valid pieces among the first n.
Forms(s, n) == {Normal(s[i]) : i \in {j \in 1 .. n : Valid(s[j])}}

\* A blank is not valid.
LEMMA ValidIsWritten ==
  ASSUME NEW p \in Pieces, Valid(p)
  PROVE  p \in Written
BY DEF Valid, Pieces

\* The next piece is a new URL exactly if its normal form is none of the list's.
LEMMA FirstIsNew ==
  ASSUME NEW s \in Seq(Pieces), NEW n \in Nat, n < Len(s)
  PROVE  /\ First(s, n + 1) = IF Valid(s[n + 1]) /\ Normal(s[n + 1]) \notin Forms(s, n)
                              THEN First(s, n) \cup {n + 1} ELSE First(s, n)
         /\ Forms(s, n + 1) = IF Valid(s[n + 1]) THEN Forms(s, n) \cup {Normal(s[n + 1])}
                              ELSE Forms(s, n)
<1>1. \A i \in 1 .. n + 1 : s[i] \in Pieces
  OBVIOUS
<1>2. \A i \in 1 .. n + 1 : i \in 1 .. n \/ i = n + 1
  OBVIOUS
<1>3. 1 .. n \subseteq 1 .. n + 1 /\ n + 1 \in 1 .. n + 1 /\ 1 .. (n + 1) - 1 = 1 .. n
  OBVIOUS
<1>4. Forms(s, n + 1) = IF Valid(s[n + 1]) THEN Forms(s, n) \cup {Normal(s[n + 1])}
                        ELSE Forms(s, n)
  BY <1>2, <1>3 DEF Forms
<1>5. n + 1 \in First(s, n + 1) <=>
        Valid(s[n + 1]) /\ \A j \in 1 .. n : Valid(s[j]) => Meaning(s[j]) # Meaning(s[n + 1])
  BY <1>3 DEF First
<1>6. ASSUME Valid(s[n + 1]), NEW j \in 1 .. n, Valid(s[j])
      PROVE  Normal(s[j]) = Normal(s[n + 1]) <=> Meaning(s[j]) = Meaning(s[n + 1])
  <2>1. PICK p \in Written : p = s[j]
    BY <1>1, <1>3, <1>6, ValidIsWritten
  <2>2. PICK q \in Written : q = s[n + 1]
    BY <1>1, <1>3, <1>6, ValidIsWritten
  <2>3. Valid(p) /\ Valid(q)
    BY <1>6, <2>1, <2>2
  <2>4. Normal(p) = Normal(q) <=> Meaning(p) = Meaning(q)
    BY <2>3, NormalFormIsMeaning
  <2> QED BY <2>1, <2>2, <2>4
<1>7. n + 1 \in First(s, n + 1) <=> Valid(s[n + 1]) /\ Normal(s[n + 1]) \notin Forms(s, n)
  BY <1>5, <1>6 DEF Forms
<1>8. \A i \in 1 .. n : i \in First(s, n + 1) <=> i \in First(s, n)
  BY <1>3 DEF First
<1>9. First(s, n) \subseteq 1 .. n /\ First(s, n + 1) \subseteq 1 .. n + 1
  BY DEF First
<1>10. First(s, n + 1) = IF Valid(s[n + 1]) /\ Normal(s[n + 1]) \notin Forms(s, n)
                         THEN First(s, n) \cup {n + 1} ELSE First(s, n)
  <2>1. CASE n + 1 \in First(s, n + 1)
    <3>1. First(s, n + 1) = First(s, n) \cup {n + 1}
      BY <1>2, <1>8, <1>9, <2>1
    <3> QED BY <1>7, <2>1, <3>1
  <2>2. CASE n + 1 \notin First(s, n + 1)
    <3>1. First(s, n + 1) = First(s, n)
      BY <1>2, <1>8, <1>9, <2>2
    <3> QED BY <1>7, <2>2, <3>1
  <2> QED BY <2>1, <2>2
<1> QED BY <1>4, <1>10

\* Over a list of lines, the result lists the first spellings in their order.
LEMMA LinesPick ==
  ASSUME NEW text \in Seq(Pieces), NEW s \in Seq(Pieces), s = Lines(text)
  PROVE  /\ ParseUrlList(text) \in Lists
         /\ \E g : /\ Picked(g, Len(ParseUrlList(text).valid), Len(s), First(s, Len(s)))
                   /\ \A j \in 1 .. Len(ParseUrlList(text).valid) :
                        ParseUrlList(text).valid[j].normalized = Normal(s[g[j]])
<1>1. PICK N \in Nat : N = Len(s)
  OBVIOUS
<1>2. PICK f : /\ f = [n \in 0 .. N |-> IF n = 0 THEN NothingParsed ELSE ParsedLine(f[n - 1], s[n])]
               /\ ParseUrlList(text) = f[N]
  <2>1. Len(Lines(text)) \in Nat
    BY <1>1
  <2>2. \E f : /\ f = [n \in 0 .. Len(Lines(text)) |->
                        IF n = 0 THEN NothingParsed ELSE ParsedLine(f[n - 1], Lines(text)[n])]
               /\ ParseUrlList(text) = f[Len(Lines(text))]
    BY <2>1, ParseUnfolds
  <2> QED BY <1>1, <2>2
<1> DEFINE Normals(v, n) ==
             \E g : /\ Picked(g, Len(v), n, First(s, n))
                    /\ \A j \in 1 .. Len(v) : v[j].normalized = Normal(s[g[j]])
           T == {n \in 0 .. N : f[n] \in Lists /\ f[n].seen = Forms(s, n)
                                /\ Normals(f[n].valid, n)}
<1>3. 0 \in T
  <2>1. f[0] = NothingParsed /\ 0 \in 0 .. N
    BY <1>1, <1>2
  <2>2. Forms(s, 0) = {} /\ First(s, 0) = {}
    BY DEF Forms, First
  <2>3. PICK v : v = f[0].valid
    OBVIOUS
  <2>4. v = <<>> /\ Len(v) = 0
    BY <2>1, <2>3, NothingParsedParts
  <2>5. PICK g : Picked(g, 0, 0, {})
    BY PickNothing
  <2>6. Picked(g, Len(v), 0, First(s, 0))
    BY <2>2, <2>4, <2>5
  <2>7. \A j \in 1 .. Len(v) : v[j].normalized = Normal(s[g[j]])
    BY <2>4
  <2>8. Normals(v, 0)
    BY <2>6, <2>7
  <2> HIDE DEF Normals
  <2> QED BY <2>1, <2>2, <2>3, <2>8, NothingParsedParts
<1>4. ASSUME NEW n \in 0 .. N, n \in T, n < N
      PROVE  n + 1 \in T
  <2>1. /\ n + 1 \in 0 .. N /\ n + 1 # 0 /\ (n + 1) - 1 = n /\ n \in Nat /\ n < Len(s)
        /\ n + 1 \in 1 .. Len(s)
    BY <1>1, <1>4
  <2>2. PICK l \in Lists : l = f[n] /\ l.seen = Forms(s, n) /\ Normals(l.valid, n)
    BY <1>4
  <2>3. PICK p \in Pieces : p = s[n + 1]
    BY <2>1
  <2>4. f[n + 1] = ParsedLine(l, p)
    BY <1>2, <2>1, <2>2, <2>3
  <2>5. /\ First(s, n + 1) = IF Valid(p) /\ Normal(p) \notin Forms(s, n)
                             THEN First(s, n) \cup {n + 1} ELSE First(s, n)
        /\ Forms(s, n + 1) = IF Valid(p) THEN Forms(s, n) \cup {Normal(p)} ELSE Forms(s, n)
    BY <2>1, <2>3, FirstIsNew
  <2>6. PICK v \in Seq(Entries) : v = l.valid
    BY DEF Lists
  <2>7. PICK k \in Nat : k = Len(v)
    BY <2>6
  <2>8. PICK J : J = First(s, n)
    OBVIOUS
  <2>9. PICK g : Picked(g, k, n, J) /\ \A j \in 1 .. k : v[j].normalized = Normal(s[g[j]])
    BY <2>2, <2>6, <2>7, <2>8
  <2>10. CASE ~(Valid(p) /\ Normal(p) \notin Forms(s, n))
    <3>1. f[n + 1] \in Lists /\ f[n + 1].valid = v /\ f[n + 1].seen = l.seen
      <4>1. CASE ~Valid(p)
        BY <2>4, <2>6, <4>1, LineInvalid
      <4>2. CASE Valid(p)
        <5>1. p \in Written /\ Normal(p) \in l.seen
          BY <2>2, <2>10, <4>2, ValidIsWritten
        <5> QED BY <2>4, <2>6, <4>2, <5>1, LineDuplicate
      <4> QED BY <4>1, <4>2
    <3>2. Forms(s, n + 1) = l.seen /\ First(s, n + 1) = J
      BY <2>2, <2>5, <2>8, <2>10
    <3>3. Picked(g, k, n + 1, J)
      BY <2>1, <2>9, PickSkip
    <3>4. Normals(v, n + 1)
      BY <2>7, <2>9, <3>2, <3>3
    <3> HIDE DEF Normals
    <3> QED BY <2>1, <3>1, <3>2, <3>4
  <2>11. CASE Valid(p) /\ Normal(p) \notin Forms(s, n)
    <3>1. p \in Written /\ Normal(p) \notin l.seen
      BY <2>2, <2>11, ValidIsWritten
    <3>2. PICK x \in Entries : x = [url |-> p, normalized |-> Normal(p)]
      BY <3>1, <2>11, NormalParts DEF Entries, Pieces
    <3>3. PICK w \in Seq(Entries) : /\ w = Append(v, x) /\ Len(w) = k + 1 /\ w[k + 1] = x
                                    /\ \A j \in 1 .. k : w[j] = v[j]
      <4>1. /\ Append(v, x) \in Seq(Entries) /\ Len(Append(v, x)) = k + 1
            /\ Append(v, x)[k + 1] = x /\ \A j \in 1 .. k : Append(v, x)[j] = v[j]
        BY <2>7, AppendProperties
      <4> QED BY <4>1
    <3>4. f[n + 1] \in Lists /\ f[n + 1].valid = w /\ f[n + 1].seen = l.seen \cup {Normal(p)}
      <4>1. /\ ParsedLine(l, p) \in Lists
            /\ ParsedLine(l, p).valid = Append(l.valid, [url |-> p, normalized |-> Normal(p)])
            /\ ParsedLine(l, p).seen = l.seen \cup {Normal(p)}
        BY <3>1, <2>11, LineNew
      <4> QED BY <2>4, <2>6, <3>2, <3>3, <4>1
    <3>5. Forms(s, n + 1) = l.seen \cup {Normal(p)} /\ First(s, n + 1) = J \cup {n + 1}
      BY <2>2, <2>5, <2>8, <2>11
    <3>6. PICK d : /\ Picked(d, k + 1, n + 1, J \cup {n + 1}) /\ d[k + 1] = n + 1
                   /\ \A j \in 1 .. k : d[j] = g[j]
      <4>1. n \in Nat
        BY <2>1
      <4>2. \E d : GoesOn(d, g, k, n, J)
        BY <2>9, <4>1, PickNext
      <4> QED BY <4>2 DEF GoesOn
    <3>7. \A j \in 1 .. k + 1 : w[j].normalized = Normal(s[d[j]])
      <4>1. \A j \in 1 .. k + 1 : j \in 1 .. k \/ j = k + 1
        OBVIOUS
      <4>2. x.normalized = Normal(s[n + 1])
        BY <2>3, <3>2
      <4> QED BY <2>9, <3>3, <3>6, <4>1, <4>2
    <3>8. Picked(d, Len(w), n + 1, First(s, n + 1))
      BY <3>3, <3>5, <3>6
    <3>9. Normals(w, n + 1)
      BY <3>3, <3>7, <3>8
    <3> HIDE DEF Normals
    <3> QED BY <2>1, <3>4, <3>5, <3>9
  <2> QED BY <2>10, <2>11
<1>5. N \in T
  <2> HIDE DEF T
  <2>1. \A n \in 0 .. N : n \in T
    BY <1>3, <1>4, UpTo
  <2> QED BY <2>1
<1>6. f[N] \in Lists /\ Normals(f[N].valid, N)
  BY <1>5
<1> QED BY <1>1, <1>2, <1>6

\* Over the text itself, blanks included.
LEMMA TextPicks ==
  ASSUME NEW text \in Seq(Pieces), NEW v, v = ParseUrlList(text).valid
  PROVE  /\ v \in Seq(Entries)
         /\ \E d : /\ Picked(d, Len(v), Len(text), FirstSpellings(text))
                   /\ \A j \in 1 .. Len(v) : v[j].normalized = Normal(text[d[j]])
<1>1. PICK s \in Seq(Pieces) : s = Lines(text)
  BY WithoutPicks DEF Lines
<1>2. v \in Seq(Entries)
  BY <1>1, LinesPick DEF Lists
<1>3. PICK m \in Nat : m = Len(v)
  BY <1>2
<1>4. PICK k \in Nat : k = Len(s)
  OBVIOUS
<1>5. PICK n \in Nat : n = Len(text)
  OBVIOUS
<1>6. PICK J : J = First(s, k)
  OBVIOUS
<1>7. PICK g : Picked(g, m, k, J) /\ \A j \in 1 .. m : v[j].normalized = Normal(s[g[j]])
  <2>1. \E g : /\ Picked(g, Len(ParseUrlList(text).valid), Len(s), First(s, Len(s)))
               /\ \A j \in 1 .. Len(ParseUrlList(text).valid) :
                    ParseUrlList(text).valid[j].normalized = Normal(s[g[j]])
    BY <1>1, LinesPick
  <2> QED BY <1>3, <1>4, <1>6, <2>1
<1>8. PICK I : I = {i \in 1 .. n : text[i] # Blank}
  OBVIOUS
<1>9. PICK h : Picked(h, k, n, I) /\ \A j \in 1 .. k : s[j] = text[h[j]]
  <2>1. PICK h : Remains(h, s, text, Blank)
    BY <1>1, WithoutPicks DEF Lines
  <2> QED BY <1>4, <1>5, <1>8, <2>1 DEF Remains
<1>10. PICK d : Picked(d, m, n, {h[j] : j \in J}) /\ \A j \in 1 .. m : d[j] = h[g[j]]
  <2>1. \E d : Composes(d, h, g, m, n, J)
    BY <1>7, <1>9, PickCompose
  <2> QED BY <2>1 DEF Composes
<1>11. {h[j] : j \in J} = FirstSpellings(text)
  <2>1. /\ \A j \in 1 .. k : h[j] \in 1 .. n /\ text[h[j]] = s[j]
        /\ \A i, j \in 1 .. k : i < j <=> h[i] < h[j]
        /\ \A i \in I : \E j \in 1 .. k : h[j] = i
    BY <1>9 DEF Picked
  <2>2. DOMAIN text = 1 .. n
    BY <1>5
  <2>3. ASSUME NEW j \in J PROVE h[j] \in FirstSpellings(text)
    <3>1. /\ j \in 1 .. k /\ Valid(s[j])
          /\ \A i \in 1 .. j - 1 : Valid(s[i]) => Meaning(s[i]) # Meaning(s[j])
      BY <1>6 DEF First
    <3>2. ASSUME NEW i \in 1 .. h[j] - 1, Valid(text[i])
          PROVE  Meaning(text[i]) # Meaning(text[h[j]])
      <4>1. i \in I
        BY <1>8, <2>1, <3>1, <3>2 DEF Valid
      <4>2. PICK x \in 1 .. k : h[x] = i
        BY <2>1, <4>1
      <4>3. h[x] < h[j] /\ text[h[x]] = s[x]
        <5>1. h[j] \in Nat
          BY <2>1, <3>1
        <5> QED BY <2>1, <4>2, <5>1
      <4>4. x < j
        BY <2>1, <3>1, <4>3
      <4>5. x \in 1 .. j - 1
        BY <3>1, <4>4
      <4>6. Meaning(s[x]) # Meaning(s[j])
        BY <3>1, <3>2, <4>2, <4>3, <4>5
      <4> QED BY <2>1, <3>1, <4>2, <4>3, <4>6
    <3> QED BY <2>1, <2>2, <3>1, <3>2 DEF FirstSpellings
  <2>4. ASSUME NEW i \in FirstSpellings(text) PROVE \E j \in J : h[j] = i
    <3>1. /\ i \in 1 .. n /\ Valid(text[i])
          /\ \A x \in 1 .. i - 1 : Valid(text[x]) => Meaning(text[x]) # Meaning(text[i])
      BY <2>2 DEF FirstSpellings
    <3>2. i \in I
      BY <1>8, <3>1 DEF Valid
    <3>3. PICK j \in 1 .. k : h[j] = i
      BY <2>1, <3>2
    <3>4. ASSUME NEW x \in 1 .. j - 1, Valid(s[x]) PROVE Meaning(s[x]) # Meaning(s[j])
      <4>1. x \in 1 .. k /\ x < j
        OBVIOUS
      <4>2. h[x] < h[j] /\ h[x] \in 1 .. n /\ text[h[x]] = s[x] /\ text[i] = s[j]
        BY <2>1, <3>3, <4>1
      <4>3. h[x] \in 1 .. i - 1
        BY <3>1, <3>3, <4>2
      <4> QED BY <3>1, <3>4, <4>2, <4>3
    <3>5. j \in J
      BY <1>6, <2>1, <3>1, <3>3, <3>4 DEF First
    <3> QED BY <3>3, <3>5
  <2> QED BY <2>3, <2>4
<1>12. \A j \in 1 .. m : v[j].normalized = Normal(text[d[j]])
  <2>1. \A j \in 1 .. m : g[j] \in 1 .. k
    BY <1>7 DEF Picked
  <2> QED BY <1>7, <1>9, <1>10, <2>1
<1>13. Picked(d, Len(v), Len(text), FirstSpellings(text))
  BY <1>3, <1>5, <1>10, <1>11
<1> QED BY <1>2, <1>3, <1>12, <1>13

\* The n-th number counted is the n-th of the set.
LEMMA PickNth ==
  ASSUME NEW k \in Nat, NEW n \in Nat, NEW g, NEW I, Picked(g, k, n, I), NEW m \in 1 .. k
  PROVE  Nth(I, m) = g[m]
<1>1. g[m] \in I /\ Rank(I, g[m]) = m
  <2>1. Rank(I, g[m]) = m
    BY PickCount
  <2> QED BY <2>1 DEF Picked
<1>2. ASSUME NEW i \in I, Rank(I, i) = m PROVE i = g[m]
  <2>1. PICK x \in 1 .. k : g[x] = i
    BY DEF Picked
  <2>2. Rank(I, g[x]) = x
    BY PickCount
  <2> QED BY <1>2, <2>1, <2>2
<1> QED BY <1>1, <1>2 DEF Nth, Rank

\* parseUrlList keeps of every text one normal form for each URL written, in
\* the order in which they were first written, whatever their spellings; each
\* of them parses again.
THEOREM ListIsWhatWasWritten ==
  ASSUME NEW text \in Seq(Pieces), NEW v, v = ParseUrlList(text).valid
  PROVE  /\ v \in Seq(Entries) /\ Len(v) = Cardinality(FirstSpellings(text))
         /\ Len(v) <= Len(text)
         /\ \A n \in 1 .. Len(v) :
              /\ Parses(v[n].normalized)
              /\ Meaning(v[n].normalized) = Meaning(text[Nth(FirstSpellings(text), n)])
<1>1. v \in Seq(Entries)
  BY TextPicks
<1>2. PICK k \in Nat : k = Len(v)
  BY <1>1
<1>3. PICK m \in Nat : m = Len(text)
  OBVIOUS
<1>4. PICK I : I = FirstSpellings(text)
  OBVIOUS
<1>5. PICK d : Picked(d, k, m, I) /\ \A j \in 1 .. k : v[j].normalized = Normal(text[d[j]])
  <2>1. \E d : /\ Picked(d, Len(v), Len(text), FirstSpellings(text))
               /\ \A j \in 1 .. Len(v) : v[j].normalized = Normal(text[d[j]])
    BY TextPicks
  <2> QED BY <1>2, <1>3, <1>4, <2>1
<1>6. k = Cardinality(I) /\ k <= m
  BY <1>5, PickCount, PickAtMost
<1>7. ASSUME NEW n \in 1 .. k
      PROVE  /\ Parses(v[n].normalized)
             /\ Meaning(v[n].normalized) = Meaning(text[Nth(I, n)])
  <2>1. Nth(I, n) = d[n]
    BY <1>5, PickNth
  <2>2. d[n] \in I /\ d[n] \in 1 .. m
    BY <1>5 DEF Picked
  <2>3. PICK p \in Pieces : p = text[d[n]]
    BY <1>3, <2>2
  <2>4. Valid(p)
    BY <1>4, <2>2, <2>3 DEF FirstSpellings
  <2>5. p \in Written
    BY <2>4, ValidIsWritten
  <2>6. PICK q : q = Normal(p)
    OBVIOUS
  <2>7. q \in Written /\ Parses(q) /\ Valid(q) /\ Normal(q) = q
    BY <2>4, <2>5, <2>6, NormalFormIsStable
  <2>8. Normal(q) = Normal(p) <=> Meaning(q) = Meaning(p)
    BY <2>4, <2>5, <2>7, NormalFormIsMeaning
  <2>9. v[n].normalized = q
    BY <1>5, <2>3, <2>6
  <2> QED BY <2>1, <2>3, <2>6, <2>7, <2>8, <2>9
<1> QED BY <1>1, <1>2, <1>3, <1>4, <1>6, <1>7

-----------------------------------------------------------------------------
(* From what the user wrote to the rows of the batch *)

\* The column of the URLs in every record.
CellsOf(records, k) ==
  [i \in DOMAIN records |-> IF k \in DOMAIN records[i] THEN records[i][k] ELSE <<>>]

\* A column of a file is a list of entries.
LEMMA CellsTyped ==
  ASSUME NEW S, NEW records \in Seq(Seq(Seq(S))), NEW k
  PROVE  CellsOf(records, k) \in Seq(Seq(S))
<1>1. PICK n \in Nat : n = Len(records) /\ DOMAIN records = 1 .. n
  BY LenProperties
<1>2. ASSUME NEW i \in 1 .. n
      PROVE  (IF k \in DOMAIN records[i] THEN records[i][k] ELSE <<>>) \in Seq(S)
  <2>1. PICK r \in Seq(Seq(S)) : r = records[i]
    BY <1>1, ElementOfSeq
  <2>2. DOMAIN r = 1 .. Len(r)
    BY LenProperties
  <2>3. k \in DOMAIN r => r[k] \in Seq(S)
    BY <2>2, ElementOfSeq
  <2>4. <<>> \in Seq(S)
    BY EmptySeq
  <2> QED BY <2>1, <2>3, <2>4
<1>3. PICK f : f = [i \in 1 .. n |-> IF k \in DOMAIN records[i] THEN records[i][k] ELSE <<>>]
  OBVIOUS
<1>4. f \in [1 .. n -> Seq(S)]
  BY <1>2, <1>3
<1>5. f \in Seq(Seq(S))
  BY <1>4, SeqDef
<1> QED BY <1>1, <1>3, <1>5 DEF CellsOf

\* A set of numbers with a bound has a greatest element.
LEMMA Greatest ==
  ASSUME NEW n \in Nat, NEW T \in SUBSET (1 .. n), T # {}
  PROVE  Max(T) \in T
<1> DEFINE D == {m \in 0 .. n : n - m \in T}
<1>1. PICK y : y \in T
  OBVIOUS
<1>2. n - (n - y) = y /\ n - y \in 0 .. n
  BY <1>1
<1>3. D \in SUBSET Nat /\ D # {}
  <2>1. n - y \in D
    BY <1>1, <1>2
  <2>2. D \in SUBSET Nat
    OBVIOUS
  <2> HIDE DEF D
  <2> QED BY <2>1, <2>2
<1>4. PICK d \in D : \A m \in D : d <= m
  <2> HIDE DEF D
  <2> QED BY <1>3, Least
<1>5. PICK x \in T : x = n - d
  BY <1>4
<1>6. ASSUME NEW z \in T PROVE x >= z
  <2>1. z \in 1 .. n /\ n - z \in 0 .. n /\ n - (n - z) = z
    OBVIOUS
  <2>2. n - z \in D
    BY <2>1
  <2>3. d <= n - z /\ d \in 0 .. n
    BY <1>4, <2>2
  <2> QED BY <1>5, <2>1, <2>3
<1> QED BY <1>5, <1>6 DEF Max

\* Whatever its header, the cell of a record is an entry.
LEMMA UrlCellTyped ==
  ASSUME NEW file, NEW S, NEW record \in Seq(Seq(S))
  PROVE  UrlCell(file, record) \in Seq(S)
<1> DEFINE columns == {k \in DOMAIN file.header \cap DOMAIN record :
                         file.header[k] = file.header[UrlColumn(file)]}
<1>1. PICK n \in Nat : n = Len(record) /\ DOMAIN record = 1 .. n
  BY LenProperties
<1>2. columns \in SUBSET (1 .. n)
  BY <1>1
<1>3. UrlCell(file, record) = IF columns = {} THEN <<>> ELSE record[Max(columns)]
  BY DEF UrlCell
<1>4. columns # {} => Max(columns) \in 1 .. n
  <2> HIDE DEF columns
  <2> QED BY <1>2, Greatest
<1>5. columns # {} => record[Max(columns)] \in Seq(S)
  <2> HIDE DEF columns
  <2> QED BY <1>1, <1>4, ElementOfSeq
<1>6. <<>> \in Seq(S)
  BY EmptySeq
<1> HIDE DEF columns
<1> QED BY <1>3, <1>5, <1>6

\* A first record that reaches the column named url shows it to the route.
LEMMA ColumnIsFound ==
  ASSUME NEW file \in Files, file.records # <<>>, ColumnIsClear(file)
  PROVE  UrlColumn(file) = Column(file)
<1> DEFINE named == {k \in DOMAIN file.header : file.header[k] \in UrlNames}
           seen == {k \in DOMAIN file.header \cap DOMAIN file.records[1] :
                      file.header[k] \in UrlNames}
<1>1. file.header \in Seq(STRING)
  BY InputsAssumption
<1>2. named \in SUBSET Nat
  BY <1>1
<1>3. Column(file) = IF named = {} THEN 1 ELSE Min(named)
  BY DEF Column
<1>4. UrlColumn(file) = IF seen = {} THEN 1 ELSE Min(seen)
  BY DEF UrlColumn
<1>5. seen \subseteq named
  OBVIOUS
<1>6. CASE named = {}
  BY <1>3, <1>4, <1>5, <1>6
<1>7. CASE named # {}
  <2>1. PICK c \in named : \A y \in named : c <= y
    <3> HIDE DEF named
    <3> QED BY <1>2, <1>7, Least
  <2>2. Min(named) = c
    <3>1. \A x \in named : (\A y \in named : x =< y) => x = c
      BY <1>2, <2>1
    <3> HIDE DEF named
    <3> QED BY <2>1, <3>1 DEF Min
  <2>3. c \in seen
    <3>1. Column(file) \in DOMAIN file.records[1]
      BY DEF ColumnIsClear
    <3> QED BY <1>3, <1>7, <2>1, <2>2, <3>1
  <2>4. Min(seen) = c
    <3>1. \A x \in seen : (\A y \in seen : x =< y) => x = c
      BY <1>2, <1>5, <2>1, <2>3
    <3>2. \A y \in seen : c <= y
      BY <1>5, <2>1
    <3> HIDE DEF seen
    <3> QED BY <2>3, <3>1, <3>2 DEF Min
  <2> QED BY <1>3, <1>4, <1>7, <2>2, <2>3, <2>4
<1> QED BY <1>6, <1>7

\* Of a column whose header cell is no other's, a record holds one cell at most.
LEMMA ClearCell ==
  ASSUME NEW file \in Files, file.records # <<>>, ColumnIsClear(file), NEW record
  PROVE  UrlCell(file, record)
           = IF Column(file) \in DOMAIN record THEN record[Column(file)] ELSE <<>>
<1>1. PICK c : c = Column(file)
  OBVIOUS
<1>2. /\ UrlColumn(file) = c /\ c \in DOMAIN file.header
      /\ \A k \in DOMAIN file.header : file.header[k] = file.header[c] => k = c
  BY <1>1, ColumnIsFound DEF ColumnIsClear
<1>3. DOMAIN file.header \in SUBSET Nat
  BY InputsAssumption
<1>4. c \in Nat
  BY <1>2, <1>3
<1>5. Max({c}) = c
  <2>1. c >= c
    BY <1>4
  <2> QED BY <2>1 DEF Max
<1>6. PICK columns : columns = {k \in DOMAIN file.header \cap DOMAIN record :
                                  file.header[k] = file.header[c]}
  OBVIOUS
<1>7. columns = IF c \in DOMAIN record THEN {c} ELSE {}
  BY <1>2, <1>6
<1>8. UrlCell(file, record) = IF columns = {} THEN <<>> ELSE record[Max(columns)]
  BY <1>2, <1>6 DEF UrlCell
<1> QED BY <1>1, <1>5, <1>7, <1>8

\* The entries of a request once its body has been read.
Wrote(from, content, entries) ==
  \/ /\ from = "paste" /\ content \in Texts
     /\ entries = [i \in DOMAIN Lines(content) |-> <<Lines(content)[i]>>]
  \/ from = "json" /\ content \in Bodies /\ entries = content
  \/ from = "csv" /\ content \in Files /\ entries = ExtractUrlColumn(content)

\* The lines the page sends one by one are joined to the same lines.
LEMMA PastedEntries ==
  ASSUME NEW s \in Seq(Pieces)
  PROVE  /\ [i \in DOMAIN s |-> <<s[i]>>] \in Seq(Seq(Pieces))
         /\ Len([i \in DOMAIN s |-> <<s[i]>>]) = Len(s)
         /\ Joined([i \in DOMAIN s |-> <<s[i]>>]) = s
<1>1. PICK n \in Nat : n = Len(s) /\ DOMAIN s = 1 .. n
  BY LenProperties
<1>2. PICK e : e = [i \in DOMAIN s |-> <<s[i]>>]
  OBVIOUS
<1>3. \A i \in 1 .. n : s[i] \in Pieces
  BY <1>1
<1>4. \A i \in 1 .. n : <<s[i]>> \in Seq(Pieces) /\ Len(<<s[i]>>) = 1 /\ <<s[i]>>[1] = s[i]
  BY <1>3
<1>5. e \in [1 .. n -> Seq(Pieces)]
  BY <1>1, <1>2, <1>4
<1>6. e \in Seq(Seq(Pieces)) /\ Len(e) = n
  BY <1>5, SeqDef
<1>7. \A i \in 1 .. Len(e) : e[i] = <<s[i]>>
  BY <1>1, <1>2, <1>6
<1>8. \A i \in 1 .. Len(e) : Len(e[i]) = 1 /\ e[i][1] = s[i]
  BY <1>4, <1>6, <1>7
<1>9. Len(Joined(e)) = n /\ \A i \in 1 .. n : Joined(e)[i] = s[i]
  <2>1. Len(Joined(e)) = Len(e) /\ \A i \in 1 .. Len(e) : Joined(e)[i] = e[i][1]
    BY <1>6, <1>8, JoinedSingles
  <2> QED BY <1>6, <1>8, <2>1
<1>10. Joined(e) \in Seq(Pieces)
  BY <1>6, JoinedTyped
<1>11. Joined(e) = s
  BY <1>1, <1>9, <1>10, SeqEqual
<1> QED BY <1>1, <1>2, <1>6, <1>11

\* The entries taken from a file are those of the column that was meant, without the
\* empty ones, if the first record reaches it and it is the only one of its name.
LEMMA FileEntries ==
  ASSUME NEW file \in Files
  PROVE  /\ ExtractUrlColumn(file) \in Seq(Seq(Pieces)) /\ Meant("csv", file) \in Seq(Pieces)
         /\ ColumnIsClear(file) => Joined(ExtractUrlColumn(file)) = Meant("csv", file)
<1>1. PICK records \in Seq(Seq(Seq(Pieces))) : records = file.records
  BY InputsAssumption
<1>2. Meant("csv", file) = Joined(CellsOf(records, Column(file)))
  BY <1>1 DEF Meant, CellsOf
<1>3. PICK cells \in Seq(Seq(Pieces)) : cells = CellsOf(records, Column(file))
  BY CellsTyped
<1>4. Joined(cells) \in Seq(Pieces)
  BY JoinedTyped
<1>5. PICK n \in Nat : n = Len(records) /\ DOMAIN records = 1 .. n
  BY LenProperties
<1>6. PICK seen : seen = [i \in DOMAIN records |-> UrlCell(file, records[i])]
  OBVIOUS
<1>7. seen \in Seq(Seq(Pieces))
  <2>1. ASSUME NEW i \in 1 .. n PROVE UrlCell(file, records[i]) \in Seq(Pieces)
    <3>1. records[i] \in Seq(Seq(Pieces))
      BY <1>5, ElementOfSeq
    <3> QED BY <3>1, UrlCellTyped
  <2>2. seen \in [1 .. n -> Seq(Pieces)]
    BY <1>5, <1>6, <2>1
  <2> QED BY <2>2, SeqDef
<1>8. ExtractUrlColumn(file) = Without(seen, <<>>)
  BY <1>1, <1>6 DEF ExtractUrlColumn
<1>9. Without(seen, <<>>) \in Seq(Seq(Pieces)) /\ Joined(Without(seen, <<>>)) = Joined(seen)
  BY <1>7, JoinedWithout
<1>10. ASSUME ColumnIsClear(file) PROVE seen = cells
  <2>1. CASE records = <<>>
    BY <1>3, <1>6, <2>1 DEF CellsOf
  <2>2. CASE records # <<>>
    <3>1. \A i \in DOMAIN records :
            UrlCell(file, records[i])
              = IF Column(file) \in DOMAIN records[i] THEN records[i][Column(file)] ELSE <<>>
      BY <1>1, <1>10, <2>2, ClearCell
    <3> QED BY <1>3, <1>6, <3>1 DEF CellsOf
  <2> QED BY <2>1, <2>2
<1> QED BY <1>2, <1>3, <1>4, <1>8, <1>9, <1>10

\* The entries say what their sender meant, except those of a file whose first
\* record is too short for the column or which has two such columns.
LEMMA EntriesAreMeant ==
  ASSUME NEW from, NEW content, NEW entries, Wrote(from, content, entries)
  PROVE  /\ entries \in Seq(Seq(Pieces)) /\ Joined(entries) \in Seq(Pieces)
         /\ Meant(from, content) \in Seq(Pieces)
         /\ from # "csv" \/ ColumnIsClear(content)
              => ParseUrlList(Joined(entries)) = ParseUrlList(Meant(from, content))
<1>1. CASE from = "paste"
  <2>1. content \in Seq(Pieces) /\ Meant(from, content) = content
    BY <1>1, InputsAssumption DEF Wrote, Meant
  <2>2. PICK s \in Seq(Pieces) : s = Lines(content) /\ ParseUrlList(s) = ParseUrlList(content)
    BY <2>1, LinesAgain
  <2>3. entries = [i \in DOMAIN s |-> <<s[i]>>]
    BY <1>1, <2>2 DEF Wrote
  <2>4. entries \in Seq(Seq(Pieces)) /\ Joined(entries) = s
    BY <2>3, PastedEntries
  <2> QED BY <2>1, <2>2, <2>4
<1>2. CASE from = "json"
  <2>1. content \in Seq(Seq(Pieces)) /\ entries = content
    BY <1>2, InputsAssumption DEF Wrote
  <2>2. Meant(from, content) = Joined(entries)
    BY <1>2, <2>1 DEF Meant
  <2>3. Joined(entries) \in Seq(Pieces)
    BY <2>1, JoinedTyped
  <2> QED BY <2>1, <2>2, <2>3
<1>3. CASE from = "csv"
  <2>1. content \in Files /\ entries = ExtractUrlColumn(content)
    BY <1>3 DEF Wrote
  <2>2. /\ entries \in Seq(Seq(Pieces)) /\ Meant(from, content) \in Seq(Pieces)
        /\ ColumnIsClear(content) => Joined(entries) = Meant(from, content)
    BY <1>3, <2>1, FileEntries
  <2>3. Joined(entries) \in Seq(Pieces)
    BY <2>2, JoinedTyped
  <2> QED BY <1>3, <2>2, <2>3
<1> QED BY <1>1, <1>2, <1>3 DEF Wrote

\* A request holds what its sender wrote, within the limit once it is checked.
Sent(c) ==
  /\ c.stage = "route" => (c.from = "csv" /\ c.content \in Files) \/ Wrote(c.from, c.content, c.entries)
  /\ c.stage \in {"counted", "parsed"} => Wrote(c.from, c.content, c.entries)
  /\ c.stage = "parsed" => ~TooMany(c.entries)

\* A batch holds what parseUrlList made of such a request.
Holds(b, from, content, entries) ==
  LET v == ParseUrlList(Joined(entries)).valid
  IN  /\ b.from = from /\ b.content = content
      /\ Wrote(from, content, entries) /\ ~TooMany(entries)
      /\ b.total = Len(v) /\ b.rows = [k \in DOMAIN v |-> v[k].normalized]

Inserted(b) == \E entries : Holds(b, b.from, b.content, entries)

AllSent == \A i \in DOMAIN calls : Sent(calls[i])
AllInserted == \A k \in DOMAIN batches : Inserted(batches[k])

ContentInv == Accounted /\ AllSent /\ AllInserted

\* A request that goes on still holds what its sender wrote.
LEMMA SentAlong ==
  ASSUME Listed, AllSent, NEW i \in DOMAIN calls, NEW entries, NEW stage, NEW outcome,
         Writes(i, entries, stage, outcome), stage # "route",
         stage \in {"counted", "parsed"} => Wrote(calls[i].from, calls[i].content, entries),
         stage = "parsed" => ~TooMany(entries)
  PROVE  AllSent'
<1>1. PICK S : calls \in Seq(S)
  BY DEF Listed
<1>2. PICK c : c = [from |-> calls[i].from, content |-> calls[i].content,
                    entries |-> entries, stage |-> stage, outcome |-> outcome]
  OBVIOUS
<1>3. Sent(c)
  BY <1>2 DEF Sent
<1>4. DOMAIN calls' = DOMAIN calls /\ \A j \in DOMAIN calls : calls'[j] = IF j = i THEN c ELSE calls[j]
  BY <1>1, <1>2 DEF Writes
<1>5. \A j \in DOMAIN calls' : Sent(calls'[j])
  BY <1>3, <1>4 DEF AllSent
<1> QED BY <1>5 DEF AllSent, Sent, Wrote

\* Every step of the route and of createBatch keeps that.
LEMMA CallStepSent ==
  ASSUME Listed, AllSent, NEW i \in DOMAIN calls,
         \/ RefuseUpload(i) \/ AcceptUpload(i) \/ CheckBody(i) \/ CheckEntries(i)
         \/ Insert(i) \/ InsertFails(i) \/ Complete(i) \/ FailAfterCommit(i)
         \/ Answer(i) \/ LoseAnswer(i)
  PROVE  AllSent'
<1>0. Sent(calls[i])
  BY DEF AllSent
<1>1. ASSUME NEW stage, NEW outcome, Concludes(i, stage, outcome), stage \in {"answered", "done"}
      PROVE  AllSent'
  <2>1. Writes(i, calls[i].entries, stage, outcome)
    BY <1>1, ConcludesWrites
  <2>2. stage \notin {"route", "counted", "parsed"}
    BY <1>1
  <2> QED BY <2>1, <2>2, SentAlong
<1>2. ASSUME NEW outcome, Ends(i, outcome) PROVE AllSent'
  <2>1. Concludes(i, "answered", outcome)
    BY <1>2 DEF Ends, Concludes
  <2> QED BY <1>1, <2>1
<1>3. ASSUME NEW stage, Goes(i, stage), stage \in {"counted", "parsed", "committed"},
             stage \in {"counted", "parsed"} =>
               Wrote(calls[i].from, calls[i].content, calls[i].entries),
             stage = "parsed" => ~TooMany(calls[i].entries)
      PROVE  AllSent'
  <2>1. Writes(i, calls[i].entries, stage, calls[i].outcome)
    BY <1>3, GoesWrites
  <2>2. stage # "route"
    BY <1>3
  <2> QED BY <1>3, <2>1, <2>2, SentAlong
<1>4. CASE RefuseUpload(i)
  BY <1>2, <1>4 DEF RefuseUpload
<1>5. CASE AcceptUpload(i)
  <2>1. PICK e : e = ExtractUrlColumn(calls[i].content)
    OBVIOUS
  <2>2. Extracts(i, e)
    BY <1>5, <2>1 DEF AcceptUpload, Extracts
  <2>3. Writes(i, e, "counted", calls[i].outcome)
    BY <2>2, ExtractsWrites
  <2>4. calls[i].from = "csv" /\ calls[i].content \in Files
    BY <1>0, <1>5 DEF AcceptUpload, Sent, Wrote
  <2>5. Wrote(calls[i].from, calls[i].content, e)
    BY <2>1, <2>4 DEF Wrote
  <2> QED BY <2>3, <2>5, SentAlong
<1>6. CASE CheckBody(i)
  <2>1. Wrote(calls[i].from, calls[i].content, calls[i].entries)
    BY <1>0, <1>6 DEF CheckBody, Sent
  <2>2. Goes(i, "counted") \/ Ends(i, "refused")
    BY <1>6 DEF CheckBody
  <2> QED BY <1>2, <1>3, <2>1, <2>2
<1>7. CASE CheckEntries(i)
  <2>1. Wrote(calls[i].from, calls[i].content, calls[i].entries)
    BY <1>0, <1>7 DEF CheckEntries, Sent
  <2>2. Ends(i, "refused") \/ (Goes(i, "parsed") /\ ~TooMany(calls[i].entries))
    BY <1>7 DEF CheckEntries
  <2> QED BY <1>2, <1>3, <2>1, <2>2
<1>8. CASE Insert(i)
  BY <1>3, <1>8 DEF Insert
<1>9. CASE InsertFails(i)
  BY <1>2, <1>9 DEF InsertFails
<1>10. CASE Complete(i) \/ FailAfterCommit(i)
  BY <1>2, <1>10 DEF Complete, FailAfterCommit
<1>11. ASSUME NEW outcome, Shows(i, outcome) PROVE AllSent'
  <2>1. Concludes(i, "done", outcome)
    BY <1>11 DEF Shows, Concludes
  <2> QED BY <1>1, <2>1
<1>12. CASE Answer(i) \/ LoseAnswer(i)
  BY <1>11, <1>12 DEF Answer, LoseAnswer
<1> QED BY <1>4, <1>5, <1>6, <1>7, <1>8, <1>9, <1>10, <1>12

\* A request that is sent holds what its sender writes.
LEMMA SendSent ==
  ASSUME Listed, AllSent, NEW from, NEW content, NEW entries,
         Send(Request(from, content, entries)),
         (from = "csv" /\ content \in Files) \/ Wrote(from, content, entries)
  PROVE  AllSent'
<1>1. PICK S : calls \in Seq(S)
  BY DEF Listed
<1>2. PICK c : c = Request(from, content, entries)
  OBVIOUS
<1>3. Sent(c)
  BY <1>2 DEF Sent, Request
<1>4. calls' = Append(calls, c)
  BY <1>2 DEF Send
<1>5. calls \in Seq(S \cup {c})
  BY <1>1, SeqMonotonic
<1>6. /\ calls' \in Seq(S \cup {c}) /\ Len(calls') = Len(calls) + 1
      /\ \A i \in 1 .. Len(calls) : calls'[i] = calls[i]
      /\ calls'[Len(calls) + 1] = c
  BY <1>4, <1>5
<1>7. /\ DOMAIN calls = 1 .. Len(calls) /\ DOMAIN calls' = 1 .. Len(calls) + 1
      /\ Len(calls) \in Nat
  BY <1>1, <1>6, LenProperties
<1>8. \A i \in DOMAIN calls' : (i \in DOMAIN calls /\ calls'[i] = calls[i]) \/ calls'[i] = c
  BY <1>6, <1>7
<1>9. \A i \in DOMAIN calls' : Sent(calls'[i])
  BY <1>3, <1>8 DEF AllSent
<1> QED BY <1>9 DEF AllSent, Sent, Wrote

\* What is inserted is what was sent.
LEMMA InsertInserted ==
  ASSUME Listed, AllSent, AllInserted, NEW i \in DOMAIN calls, Insert(i)
  PROVE  AllInserted'
<1>1. PICK S : batches \in Seq(S)
  BY DEF Listed
<1>2. PICK b : b = NewBatch(i)
  OBVIOUS
<1>3. PICK e : e = calls[i].entries
  OBVIOUS
<1>4. Wrote(calls[i].from, calls[i].content, e) /\ ~TooMany(e)
  BY <1>3 DEF AllSent, Sent, Insert
<1>5. b.from = calls[i].from /\ b.content = calls[i].content
  BY <1>2 DEF NewBatch
<1>6. Holds(b, calls[i].from, calls[i].content, e)
  BY <1>2, <1>3, <1>4, <1>5 DEF Holds, NewBatch, List
<1>7. Inserted(b)
  BY <1>5, <1>6 DEF Inserted
<1>8. batches \in Seq(S \cup {b})
  BY <1>1, SeqMonotonic
<1>9. batches' = Append(batches, b)
  BY <1>2 DEF Insert
<1>10. /\ batches' \in Seq(S \cup {b}) /\ Len(batches') = Len(batches) + 1
       /\ \A k \in 1 .. Len(batches) : batches'[k] = batches[k]
       /\ batches'[Len(batches) + 1] = b
  BY <1>8, <1>9
<1>11. /\ DOMAIN batches = 1 .. Len(batches) /\ DOMAIN batches' = 1 .. Len(batches) + 1
       /\ Len(batches) \in Nat
  BY <1>1, <1>10, LenProperties
<1>12. \A k \in DOMAIN batches' : (k \in DOMAIN batches /\ batches'[k] = batches[k]) \/ batches'[k] = b
  BY <1>10, <1>11
<1>13. \A k \in DOMAIN batches' : Inserted(batches'[k])
  BY <1>7, <1>12 DEF AllInserted
<1> QED BY <1>13 DEF AllInserted, Inserted, Holds, Wrote

\* Every step keeps requests and batches true to what was written.
LEMMA NextContent == ContentInv /\ [Next]_vars => ContentInv'
<1> SUFFICES ASSUME ContentInv, [Next]_vars PROVE ContentInv'
  OBVIOUS
<1> USE DEF ContentInv
<1>1. Accounted' /\ Listed
  BY NextAccounted DEF Accounted
<1>2. ASSUME UNCHANGED batches PROVE AllInserted'
  <2>1. \A k \in DOMAIN batches' : Inserted(batches'[k])
    BY <1>2 DEF AllInserted
  <2> QED BY <2>1 DEF AllInserted, Inserted, Holds, Wrote
<1>3. CASE UNCHANGED <<calls, batches>>
  <2>1. AllSent'
    BY <1>3 DEF AllSent, Sent, Wrote
  <2> QED BY <1>1, <1>2, <1>3, <2>1
<1>4. CASE Perform
  <2>1. calls' = <<>> /\ batches' = <<>>
    BY <1>4 DEF Perform
  <2>2. DOMAIN calls' = {} /\ DOMAIN batches' = {}
    BY <2>1
  <2>3. AllSent' /\ AllInserted'
    BY <2>2 DEF AllSent, AllInserted
  <2> QED BY <1>1, <2>3
<1>5. CASE Submit
  <2>1. ASSUME NEW text \in Texts, Paste(text) PROVE ContentInv'
    <3>1. PICK e : e = [i \in DOMAIN Lines(text) |-> <<Lines(text)[i]>>]
      OBVIOUS
    <3>2. Wrote("paste", text, e)
      BY <3>1 DEF Wrote
    <3>3. Send(Request("paste", text, e))
      BY <2>1, <3>1 DEF Paste
    <3>4. AllSent'
      BY <1>1, <3>2, <3>3, SendSent
    <3> QED BY <1>1, <1>2, <3>3, <3>4 DEF Send
  <2>2. ASSUME NEW file \in Files, Upload(file) PROVE ContentInv'
    <3>1. Send(Request("csv", file, <<>>))
      BY <2>2 DEF Upload
    <3>2. AllSent'
      BY <1>1, <3>1, SendSent
    <3> QED BY <1>1, <1>2, <3>1, <3>2 DEF Send
  <2>3. ASSUME NEW body \in Bodies, PostJson(body) PROVE ContentInv'
    <3>1. Send(Request("json", body, body)) /\ Wrote("json", body, body)
      BY <2>3 DEF PostJson, Wrote
    <3>2. AllSent'
      BY <1>1, <3>1, SendSent
    <3> QED BY <1>1, <1>2, <3>1, <3>2 DEF Send
  <2>4. CASE Reopen
    BY <1>3, <2>4 DEF Reopen
  <2>5. ASSUME NEW i \in DOMAIN calls,
               \/ RefuseUpload(i) \/ AcceptUpload(i) \/ CheckBody(i) \/ CheckEntries(i)
               \/ InsertFails(i) \/ Complete(i) \/ FailAfterCommit(i)
               \/ Answer(i) \/ LoseAnswer(i)
        PROVE  ContentInv'
    <3>1. UNCHANGED batches
      BY <2>5 DEF RefuseUpload, AcceptUpload, CheckBody, CheckEntries, InsertFails, Complete,
                  FailAfterCommit, Answer, LoseAnswer, Shows
    <3>2. AllSent'
      BY <1>1, <2>5, CallStepSent
    <3> QED BY <1>1, <1>2, <3>1, <3>2
  <2>6. ASSUME NEW i \in DOMAIN calls, Insert(i) PROVE ContentInv'
    BY <1>1, <2>6, CallStepSent, InsertInserted
  <2> QED BY <1>5, <2>1, <2>2, <2>3, <2>4, <2>5, <2>6 DEF Submit, SubmissionNext
<1> QED BY <1>3, <1>4, <1>5 DEF Next, Check, vars, submissionVars

\* There are no requests and no batches at first.
LEMMA InitContent == Init => ContentInv
<1> SUFFICES ASSUME Init PROVE ContentInv
  OBVIOUS
<1>1. calls = <<>> /\ batches = <<>> /\ mishaps = 0
  BY DEF Init, SubmissionInit
<1>2. DOMAIN calls = {} /\ DOMAIN batches = {}
  BY <1>1
<1> QED BY <1>1, <1>2, NothingAccountedInit DEF ContentInv, AllSent, AllInserted

\* A batch holds one row for each URL that was written, whatever the spellings.
THEOREM RowsAreWhatWasWritten == Spec => []BatchIsWhatWasWritten
<1>1. ContentInv => BatchIsWhatWasWritten
  <2> SUFFICES ASSUME ContentInv, NEW k \in DOMAIN batches, NEW b, b = batches[k],
                      b.from # "csv" \/ ColumnIsClear(b.content),
                      NEW text, text = Meant(b.from, b.content),
                      NEW first, first = FirstSpellings(text)
               PROVE  /\ b.total = Cardinality(first) /\ Len(b.rows) = b.total
                      /\ \A n \in DOMAIN b.rows :
                           Meaning(b.rows[n]) = Meaning(text[Nth(first, n)])
    BY DEF BatchIsWhatWasWritten
  <2>1. PICK entries : Holds(b, b.from, b.content, entries)
    BY DEF ContentInv, AllInserted, Inserted
  <2>2. Wrote(b.from, b.content, entries)
    BY <2>1 DEF Holds
  <2>3. /\ text \in Seq(Pieces) /\ ParseUrlList(Joined(entries)) = ParseUrlList(text)
    BY <2>2, EntriesAreMeant
  <2>4. PICK v : v = ParseUrlList(text).valid
    OBVIOUS
  <2>5. b.total = Len(v) /\ b.rows = [n \in DOMAIN v |-> v[n].normalized]
    BY <2>1, <2>3, <2>4 DEF Holds
  <2>6. /\ v \in Seq(Entries) /\ Len(v) = Cardinality(first)
        /\ \A n \in 1 .. Len(v) : Meaning(v[n].normalized) = Meaning(text[Nth(first, n)])
    BY <2>3, <2>4, ListIsWhatWasWritten
  <2>7. DOMAIN v = 1 .. Len(v) /\ Len(v) \in Nat
    BY <2>6, LenProperties
  <2>8. DOMAIN b.rows = 1 .. Len(v) /\ Len(b.rows) = Len(v)
    BY <2>5, <2>7
  <2>9. ASSUME NEW n \in DOMAIN b.rows
        PROVE  Meaning(b.rows[n]) = Meaning(text[Nth(first, n)])
    BY <2>5, <2>6, <2>7, <2>8
  <2> QED BY <2>5, <2>6, <2>8, <2>9
<1> QED BY <1>1, InitContent, NextContent, PTL DEF Spec

\* Entries of one piece each keep the limit of the route.
THEOREM SplitBatchesKeepTheLimit == Spec => []SplitBatchesAreLimited
<1>1. ContentInv => SplitBatchesAreLimited
  <2> SUFFICES ASSUME ContentInv, NEW k \in DOMAIN batches, NEW b, b = batches[k],
                      \/ b.from = "paste"
                      \/ b.from = "json" /\ \A e \in DOMAIN b.content : Len(b.content[e]) = 1
               PROVE  b.total <= MaxUrls
    BY DEF SplitBatchesAreLimited
  <2>1. PICK entries : Holds(b, b.from, b.content, entries)
    BY DEF ContentInv, AllInserted, Inserted
  <2>2. Wrote(b.from, b.content, entries) /\ ~TooMany(entries)
    BY <2>1 DEF Holds
  <2>3. entries \in Seq(Seq(Pieces)) /\ Joined(entries) \in Seq(Pieces)
    BY <2>2, EntriesAreMeant
  <2>4. Len(entries) \in Nat /\ DOMAIN entries = 1 .. Len(entries)
    BY <2>3, LenProperties
  <2>5. Len(entries) <= MaxUrls
    BY <2>2, <2>4, SubmissionAssumption DEF TooMany
  <2>6. Len(Joined(entries)) = Len(entries)
    <3>1. CASE b.from = "paste"
      <4>1. b.content \in Seq(Pieces)
        BY <2>2, <3>1, InputsAssumption DEF Wrote
      <4>2. PICK s \in Seq(Pieces) : s = Lines(b.content)
        BY <4>1, LinesAgain
      <4>3. entries = [i \in DOMAIN s |-> <<s[i]>>]
        BY <2>2, <3>1, <4>2 DEF Wrote
      <4>4. Len(entries) = Len(s) /\ Joined(entries) = s
        BY <4>3, PastedEntries
      <4> QED BY <4>4
    <3>2. CASE b.from = "json" /\ \A e \in DOMAIN b.content : Len(b.content[e]) = 1
      <4>1. entries = b.content
        BY <2>2, <3>2 DEF Wrote
      <4>2. \A e \in 1 .. Len(entries) : Len(entries[e]) = 1
        BY <2>4, <3>2, <4>1
      <4> QED BY <2>3, <4>2, JoinedSingles
    <3> QED BY <3>1, <3>2
  <2>7. PICK v : v = ParseUrlList(Joined(entries)).valid
    OBVIOUS
  <2>8. v \in Seq(Entries) /\ Len(v) <= Len(Joined(entries))
    BY <2>3, <2>7, ListIsWhatWasWritten
  <2>9. b.total = Len(v) /\ Len(v) \in Nat
    BY <2>1, <2>7, <2>8 DEF Holds
  <2> QED BY <2>4, <2>5, <2>6, <2>8, <2>9, SubmissionAssumption
<1> QED BY <1>1, InitContent, NextContent, PTL DEF Spec

\* Every row of every batch parses when its check starts.
LEMMA RowsParse ==
  ASSUME ContentInv, NEW k \in DOMAIN batches, NEW n \in DOMAIN batches[k].rows
  PROVE  Parses(batches[k].rows[n])
<1>0. PICK b : b = batches[k]
  OBVIOUS
<1>1. PICK entries : Holds(b, b.from, b.content, entries)
  BY <1>0 DEF ContentInv, AllInserted, Inserted
<1>2. Joined(entries) \in Seq(Pieces)
  <2>1. Wrote(b.from, b.content, entries)
    BY <1>1 DEF Holds
  <2> QED BY <2>1, EntriesAreMeant
<1>3. PICK v : v = ParseUrlList(Joined(entries)).valid
  OBVIOUS
<1>4. v \in Seq(Entries) /\ \A j \in 1 .. Len(v) : Parses(v[j].normalized)
  BY <1>2, <1>3, ListIsWhatWasWritten
<1>5. DOMAIN v = 1 .. Len(v)
  BY <1>4, LenProperties
<1>6. b.rows = [j \in DOMAIN v |-> v[j].normalized]
  BY <1>1, <1>3 DEF Holds
<1> QED BY <1>0, <1>4, <1>5, <1>6

\* No payload makes the handler throw before it has a claim to give back.
THEOREM PayloadsParse == Spec => []NeverThrows
<1> DEFINE Inv == ContentInv /\ NeverThrows
<1>1. Init => Inv
  BY InitContent DEF Init, HealthInit, NeverThrows
<1>2. Inv /\ [Next]_vars => Inv'
  <2> SUFFICES ASSUME ContentInv, NeverThrows, [Next]_vars PROVE NeverThrows'
    BY NextContent
  <2> USE DEF NeverThrows
  <2>1. CASE UNCHANGED step
    BY <2>1
  <2>2. CASE Perform
    <3>1. PICK k \in DOMAIN batches : \E n \in DOMAIN batches[k].rows : Start(batches[k].rows[n])
      BY <2>2 DEF Perform
    <3>2. PICK n \in DOMAIN batches[k].rows : Start(batches[k].rows[n])
      BY <3>1
    <3>3. Parses(batches[k].rows[n])
      BY RowsParse
    <3> QED BY <3>2, <3>3 DEF Start
  <2>3. CASE Check
    BY <2>3 DEF Check, HealthNext, GuardLiteral, GuardLocal, LookupAnswers, LookupFails, GuardSees,
             Refuse, MissingLocation, FinalWithoutTitle, NetworkError, AbortError, BodyDone,
             Redirected, Redirect, FinalWithBody, ReadChunk, Abort, Tick, Finish, Return
  <2>4. CASE Submit
    BY <2>1, <2>4 DEF Submit, healthVars
  <2> QED BY <2>1, <2>2, <2>3, <2>4 DEF Next, vars
<1> QED BY <1>1, <1>2, PTL DEF Spec

=============================================================================
