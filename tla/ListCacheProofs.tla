-------------------------- MODULE ListCacheProofs --------------------------
(***************************************************************************)
(* How stale the cached list may be, and why, for any numbers of readers,  *)
(* writers and changes and any times.                                      *)
(*                                                                         *)
(* Both arguments carry what is claimed of the cached list back to the     *)
(* list a reader holds between its SELECT and its SET: at most that old,   *)
(* and outdated only for the same reasons.                                 *)
(***************************************************************************)
EXTENDS ListCache, TLAPS

Types ==
  /\ version \in Versions
  /\ age \in [Versions -> Nat]
  /\ cache \in [list : Versions, ttl : Nat, crossed : BOOLEAN]
  /\ reader \in [Readers -> [step : {"idle", "select", "set"}, list : Versions,
                             since : Nat, crossed : BOOLEAN]]
  /\ pending \in [Writers -> Versions]
  /\ unannounced \subseteq Versions

Setting(r) == reader[r].step = "set"

\* A list is no older than the time since its SELECT.
ReadersAreRecent ==
  \A r \in Readers : Setting(r) => /\ age[reader[r].list] <= reader[r].since
                                   /\ reader[r].since <= MaxRead

CurrentIsNew == \A v \in Versions : v >= version => age[v] = 0

Recent == ReadersAreRecent /\ CurrentIsNew /\ StalenessBounded

ReadersHaveReason ==
  \A r \in Readers : Setting(r) /\ reader[r].list < version
                     => Excused(reader[r].list) \/ reader[r].crossed

IInv == Types /\ Recent /\ ReadersHaveReason /\ StaleHasReason

-----------------------------------------------------------------------------
\* Initially nothing is cached.
LEMMA InitIInv == Init => IInv
<1> USE CacheAssumption
<1> SUFFICES ASSUME Init PROVE IInv
  OBVIOUS
<1>1. 0 \in Versions
  BY DEF Versions
<1>2. Types
  BY <1>1 DEF Init, Types, NoList, Idle
<1>3. Recent /\ ReadersHaveReason /\ StaleHasReason
  BY <1>1 DEF Init, Recent, ReadersAreRecent, CurrentIsNew, StalenessBounded,
              ReadersHaveReason, StaleHasReason, Setting, Cached, NoList, Idle
<1> QED BY <1>2, <1>3 DEF IInv

\* A change gets the next number, which is a version.
LEMMA NextVersion ==
  ASSUME Types, Changes
  PROVE  /\ version' \in Versions /\ version \in Nat
         /\ version' = version + 1
BY CacheAssumption DEF Types, Changes, Versions

\* A time that passes makes a list at most one tick older.
LEMMA AgedByOne ==
  ASSUME Types, NEW v \in Versions
  PROVE  Aged[v] \in Nat /\ Aged[v] <= age[v] + 1
BY CacheAssumption DEF Types, Aged, Oldest, Versions

\* Every step keeps the types.
LEMMA NextTypes == Types /\ [Next]_vars => Types'
<1> USE CacheAssumption
<1> SUFFICES ASSUME Types, [Next]_vars PROVE Types'
  OBVIOUS
<1>0. 0 \in Versions
  BY DEF Versions
<1>1. CASE UNCHANGED vars
  BY <1>1 DEF vars, Types
<1>2. ASSUME NEW r \in Readers, Miss(r) \/ Select(r) \/ Set(r) \/ ReadFails(r)
      PROVE  Types'
  <2>1. CASE Miss(r)
    BY <2>1 DEF Types, Miss
  <2>2. CASE Select(r)
    BY <1>0, <2>2 DEF Types, Select
  <2>3. CASE Set(r)
    <3>1. cache' \in [list : Versions, ttl : Nat, crossed : BOOLEAN]
      BY <2>3 DEF Types, Set, Fresh
    <3>2. reader' \in [Readers -> [step : {"idle", "select", "set"}, list : Versions,
                                  since : Nat, crossed : BOOLEAN]]
      <4>1. Idle \in [step : {"idle", "select", "set"}, list : Versions, since : Nat,
                      crossed : BOOLEAN]
        BY <1>0 DEF Idle
      <4> QED BY <2>3, <4>1 DEF Types, Set
    <3> QED BY <2>3, <3>1, <3>2 DEF Types, Set
  <2>4. CASE ReadFails(r)
    BY <1>0, <2>4 DEF Types, ReadFails, Idle
  <2> QED BY <1>2, <2>1, <2>2, <2>3, <2>4
<1>3. ASSUME NEW w \in Writers, Commit(w) PROVE Types'
  BY <1>3, NextVersion DEF Types, Commit
<1>4. ASSUME NEW w \in Writers, Invalidate(w) PROVE Types'
  BY <1>0, <1>4 DEF Types, Invalidate, NoList
<1>5. ASSUME NEW w \in Writers, Forget(w) PROVE Types'
  BY <1>0, <1>5 DEF Types, Forget
<1>6. CASE ChangeSilently
  BY <1>6, NextVersion DEF Types, ChangeSilently
<1>7. CASE Tick
  <2>1. age' \in [Versions -> Nat]
    BY <1>7, AgedByOne DEF Tick, Aged
  <2>2. cache' \in [list : Versions, ttl : Nat, crossed : BOOLEAN]
    BY <1>0, <1>7 DEF Tick, NoList, Types
  <2> QED BY <1>7, <2>1, <2>2 DEF Tick, Types
<1> QED BY <1>1, <1>2, <1>3, <1>4, <1>5, <1>6, <1>7 DEF Next

\* Every step keeps lists recent: a SET stores one that is at most a read old,
\* and time takes from its rest what it adds to its age.
LEMMA NextRecent == Types /\ Recent /\ [Next]_vars => Recent'
<1> USE CacheAssumption
<1> SUFFICES ASSUME Types, Recent, [Next]_vars PROVE Recent'
  OBVIOUS
<1>0. Types'
  BY NextTypes
<1>1. CASE UNCHANGED vars
  BY <1>1 DEF vars, Recent, ReadersAreRecent, CurrentIsNew, StalenessBounded, Setting, Cached
<1>2. ASSUME NEW r \in Readers, Miss(r) \/ Select(r) \/ ReadFails(r)
      PROVE  Recent'
  <2>1. UNCHANGED <<version, age, cache>>
    BY <1>2 DEF Miss, Select, ReadFails
  <2>2. \A q \in Readers : Setting(q)' =>
          \/ reader'[q] = reader[q]
          \/ reader'[q].list = version /\ reader'[q].since = 0
    BY <1>2 DEF Types, Setting, Miss, Select, ReadFails, Idle
  <2>3. age[version] = 0
    BY DEF Recent, CurrentIsNew, Types, Versions
  <2>4. ReadersAreRecent'
    BY <2>1, <2>2, <2>3 DEF Recent, ReadersAreRecent, Setting
  <2> QED BY <2>1, <2>4 DEF Recent, CurrentIsNew, StalenessBounded, Cached
<1>3. ASSUME NEW r \in Readers, Set(r) PROVE Recent'
  <2>1. /\ age[reader[r].list] <= MaxRead
        /\ cache'.list = reader[r].list /\ cache'.ttl = Ttl /\ age' = age
    BY <1>3 DEF Types, Recent, ReadersAreRecent, Setting, Set, Fresh
  <2>2. StalenessBounded'
    BY <2>1 DEF StalenessBounded, Types
  <2> QED BY <1>3, <2>2 DEF Types, Recent, ReadersAreRecent, CurrentIsNew, Setting, Set, Idle
<1>4. ASSUME Changes, UNCHANGED <<age, cache, reader>> PROVE Recent'
  BY <1>4, NextVersion DEF Recent, ReadersAreRecent, CurrentIsNew, StalenessBounded,
                           Setting, Cached, Versions
<1>5. ASSUME NEW w \in Writers, Invalidate(w) PROVE Recent'
  <2>1. \A r \in Readers : /\ reader'[r].step = reader[r].step
                            /\ reader'[r].list = reader[r].list
                            /\ reader'[r].since = reader[r].since
    BY <1>5 DEF Types, Invalidate
  <2>2. ~Cached' /\ version' = version /\ age' = age
    BY <1>5 DEF Invalidate, NoList, Cached
  <2> QED BY <2>1, <2>2 DEF Recent, ReadersAreRecent, CurrentIsNew, StalenessBounded, Setting
<1>6. ASSUME NEW w \in Writers, Forget(w) PROVE Recent'
  BY <1>6 DEF Recent, ReadersAreRecent, CurrentIsNew, StalenessBounded, Setting, Cached, Forget
<1>7. CASE Tick
  <2>1. \A v \in Versions : age'[v] \in Nat /\ age'[v] <= age[v] + 1 /\ age[v] \in Nat
    BY <1>7, AgedByOne DEF Tick, Types
  <2>2. CurrentIsNew'
    BY <1>7 DEF Tick, Aged, Recent, CurrentIsNew, Types, Versions
  <2>3. ReadersAreRecent'
    <3> SUFFICES ASSUME NEW r \in Readers, Setting(r)'
                 PROVE  age'[reader'[r].list] <= reader'[r].since /\ reader'[r].since <= MaxRead
      BY DEF ReadersAreRecent
    <3>1. /\ Setting(r) /\ reader'[r].list = reader[r].list
          /\ reader'[r].since = reader[r].since + 1
      BY <1>7 DEF Tick, Setting, Types
    <3>2. reader[r].since < MaxRead /\ age[reader[r].list] <= reader[r].since
      BY <1>7, <3>1 DEF Tick, Setting, Recent, ReadersAreRecent
    <3> QED BY <2>1, <3>1, <3>2 DEF Types
  <2>4. StalenessBounded'
    <3> SUFFICES ASSUME Cached' PROVE age'[cache'.list] + cache'.ttl <= MaxRead + Ttl
      BY DEF StalenessBounded
    <3>1. cache.ttl > 1 /\ cache'.list = cache.list /\ cache'.ttl = cache.ttl - 1
      BY <1>7 DEF Tick, Cached, NoList, Types
    <3>2. age[cache.list] + cache.ttl <= MaxRead + Ttl
      BY <3>1 DEF Recent, StalenessBounded, Cached, Types
    <3> QED BY <2>1, <3>1, <3>2 DEF Types
  <2> QED BY <2>2, <2>3, <2>4 DEF Recent
<1> QED BY <1>1, <1>2, <1>3, <1>4, <1>5, <1>6, <1>7
        DEF Next, Commit, ChangeSilently

\* What excuses a list is not taken back but by a DEL.
LEMMA ExcuseStays ==
  ASSUME Types, [Next]_vars, \A w \in Writers : ~Invalidate(w),
         NEW l \in Versions, Excused(l)
  PROVE  Excused(l)'
<1> SUFFICES (\A w \in Writers : pending[w] > l => pending'[w] > l \/ pending[w] \in unannounced')
             /\ unannounced \subseteq unannounced'
  BY DEF Excused
<1> USE CacheAssumption DEF Versions
<1>1. CASE UNCHANGED vars
  BY <1>1 DEF vars
<1>2. ASSUME NEW w \in Writers, Commit(w)
      PROVE  (\A x \in Writers : pending[x] > l => pending'[x] > l) /\ unannounced' = unannounced
  BY <1>2 DEF Commit, Types
<1>3. ASSUME NEW w \in Writers, Forget(w)
      PROVE  /\ \A x \in Writers : pending[x] > l => pending'[x] > l \/ pending[x] \in unannounced'
             /\ unannounced \subseteq unannounced'
  BY <1>3 DEF Forget, Types
<1>4. ASSUME NEW r \in Readers, Miss(r) \/ Select(r) \/ Set(r) \/ ReadFails(r)
      PROVE  pending' = pending /\ unannounced' = unannounced
  BY <1>4 DEF Miss, Select, Set, ReadFails
<1>5. CASE ChangeSilently
  BY <1>5 DEF ChangeSilently
<1>6. CASE Tick
  BY <1>6 DEF Tick
<1> QED BY <1>1, <1>2, <1>3, <1>4, <1>5, <1>6 DEF Next

\* A new change is the writer's to announce, or nobody's.
LEMMA ChangeExcuses ==
  ASSUME Types, Changes, NEW l \in Versions, l <= version,
         (\E w \in Writers : Commit(w)) \/ ChangeSilently
  PROVE  Excused(l)'
<1> USE DEF Versions
<1>1. version' = version + 1 /\ version' > l
  BY NextVersion DEF Types
<1>2. ASSUME NEW w \in Writers, Commit(w) PROVE pending'[w] > l
  BY <1>1, <1>2 DEF Commit, Types
<1>3. ASSUME ChangeSilently PROVE version' \in unannounced'
  BY <1>1, <1>3 DEF ChangeSilently
<1> QED BY <1>1, <1>2, <1>3 DEF Excused

-----------------------------------------------------------------------------
(* Lists are not from the future *)

FromThePast ==
  /\ Cached => cache.list <= version
  /\ \A r \in Readers : Setting(r) => reader[r].list <= version

\* Every step keeps that.
LEMMA NextFromThePast == Types /\ FromThePast /\ [Next]_vars => FromThePast'
<1> SUFFICES ASSUME Types, FromThePast, [Next]_vars PROVE FromThePast'
  OBVIOUS
<1> USE CacheAssumption DEF FromThePast, Setting, Cached
<1>1. CASE UNCHANGED vars
  BY <1>1 DEF vars
<1>2. ASSUME NEW r \in Readers, Miss(r) \/ Select(r) \/ Set(r) \/ ReadFails(r)
      PROVE  FromThePast'
  BY <1>2, SMTT(30) DEF Types, Versions, Miss, Select, Set, ReadFails, Fresh, Idle
<1>3. ASSUME Changes, UNCHANGED <<cache, reader>> PROVE FromThePast'
  BY <1>3, NextVersion DEF Types, Versions
<1>4. ASSUME NEW w \in Writers, Invalidate(w) \/ Forget(w) PROVE FromThePast'
  BY <1>4 DEF Types, Invalidate, Forget, NoList
<1>5. CASE Tick
  BY <1>5 DEF Types, Tick, NoList
<1> QED BY <1>1, <1>2, <1>3, <1>4, <1>5 DEF Next, Commit, ChangeSilently

RInv == Types /\ FromThePast /\ ReadersHaveReason /\ StaleHasReason

\* Every step keeps the reasons: a change adds one, a DEL empties the cache and
\* marks the readers it crosses, and a SET hands on its reader's.
LEMMA NextReason == RInv /\ [Next]_vars => RInv'
<1> USE CacheAssumption
<1> SUFFICES ASSUME RInv, [Next]_vars PROVE ReadersHaveReason' /\ StaleHasReason'
  BY NextTypes, NextFromThePast DEF RInv
<1>0. Types /\ FromThePast /\ ReadersHaveReason /\ StaleHasReason
  BY DEF RInv
<1>1. CASE \E w \in Writers : Invalidate(w)
  <2>1. ~Cached'
    BY <1>1 DEF Invalidate, NoList, Cached
  <2>2. \A r \in Readers : /\ reader'[r].step = reader[r].step
                            /\ reader'[r].crossed = (reader[r].step = "set")
    BY <1>0, <1>1 DEF Invalidate, Types
  <2> QED BY <2>1, <2>2 DEF ReadersHaveReason, StaleHasReason, Setting
<1>2. CASE (\E w \in Writers : Commit(w)) \/ ChangeSilently
  <2>1. Changes /\ cache' = cache /\ reader' = reader
    BY <1>2 DEF Commit, ChangeSilently
  <2> QED BY <1>0, <1>2, <2>1, ChangeExcuses
          DEF FromThePast, ReadersHaveReason, StaleHasReason, Setting, Cached, Types
<1>3. CASE /\ \A w \in Writers : ~Invalidate(w) /\ ~Commit(w)
           /\ ~ChangeSilently
  <2>1. \A l \in Versions : Excused(l) => Excused(l)'
    BY <1>0, <1>3, ExcuseStays
  <2>2. version' = version
    BY <1>3 DEF Next, vars, Miss, Select, Set, ReadFails, Forget, Tick
  <2>3. \A r \in Readers : Setting(r)' =>
          \/ reader'[r].list = version
          \/ Setting(r) /\ reader'[r].list = reader[r].list /\ reader'[r].crossed = reader[r].crossed
    BY <1>0, <1>3 DEF Next, vars, Miss, Select, Set, ReadFails, Forget, Tick, Setting, Types, Idle
  <2>4. ReadersHaveReason'
    BY <1>0, <2>1, <2>2, <2>3 DEF ReadersHaveReason, Types, Versions
  <2>5. Cached' =>
          \/ Cached /\ cache'.list = cache.list /\ cache'.crossed = cache.crossed
          \/ \E r \in Readers : Setting(r) /\ cache'.list = reader[r].list
                                           /\ cache'.crossed = reader[r].crossed
    BY <1>0, <1>3 DEF Next, vars, Miss, Select, Set, ReadFails, Forget, Tick, Setting,
                      Cached, Fresh, NoList, Types
  <2>6. StaleHasReason'
    BY <1>0, <2>1, <2>2, <2>5 DEF StaleHasReason, ReadersHaveReason, Types
  <2> QED BY <2>4, <2>6
<1> QED BY <1>1, <1>2, <1>3

-----------------------------------------------------------------------------
\* The cached list is at most Ttl and one read out of date, however readers and
\* writers interleave and even if no writer ever deletes the key.
THEOREM StalenessIsBounded == Spec => []StalenessBounded
<1>1. Init => Types /\ Recent
  BY InitIInv DEF IInv
<1>2. Types /\ Recent /\ [Next]_vars => (Types /\ Recent)'
  BY NextTypes, NextRecent
<1>3. Types /\ Recent => StalenessBounded
  BY DEF Recent
<1> QED BY <1>1, <1>2, <1>3, PTL DEF Spec

\* A stale list has a change that is not yet, or never, announced, or was read
\* before and stored after a DEL: there is no other way.
THEOREM StalenessHasReason == Spec => []StaleHasReason
<1>1. Init => RInv
  BY InitIInv DEF IInv, RInv, Init, FromThePast, Cached, Setting, NoList, Idle
<1>2. RInv => StaleHasReason
  BY DEF RInv
<1> QED BY <1>1, <1>2, NextReason, PTL DEF Spec

=============================================================================
