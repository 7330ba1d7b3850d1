----------------------------- MODULE ListCache -----------------------------
(***************************************************************************)
(* The cached first page of GET /api/batches (apps/api/src/lib/cache.ts,   *)
(* listBatches) and what invalidates it: API requests and workers that     *)
(* commit a change of a batch and then delete the key.                     *)
(*                                                                         *)
(* The list is the number of changes committed so far.  Time passes in     *)
(* ticks; a reader takes at most MaxRead from its SELECT to the end of its *)
(* SET, while a DEL may be delayed for ever (maxRetriesPerRequest: null).  *)
(***************************************************************************)
EXTENDS Naturals

CONSTANTS
  Readers,   \* requests for the list
  Writers,   \* requests and workers that change a batch
  Ttl,       \* BATCH_LIST_CACHE_TTL_SECONDS, in ticks
  MaxRead,   \* the longest time from a SELECT to the SET of its list
  MaxWrites  \* bound: changes

ASSUME CacheAssumption == Ttl \in Nat \ {0} /\ MaxRead \in Nat /\ MaxWrites \in Nat

VARIABLES
  version,      \* of the list in the database
  age,          \* for how long each version has not been the current one
  cache,        \* the key: the list and the time it has left
  reader,       \* where each reader is, what it has selected and when
  pending,      \* the change each writer has committed and not yet announced, or 0
  unannounced   \* the changes nobody deletes the key for

vars == <<version, age, cache, reader, pending, unannounced>>

Versions == 0 .. MaxWrites
NoList == [list |-> 0, ttl |-> 0, crossed |-> FALSE]
Idle == [step |-> "idle", list |-> 0, since |-> 0, crossed |-> FALSE]

Init ==
  /\ version = 0 /\ age = [v \in Versions |-> 0] /\ cache = NoList
  /\ reader = [r \in Readers |-> Idle]
  /\ pending = [w \in Writers |-> 0] /\ unannounced = {}

Cached == cache.ttl > 0

-----------------------------------------------------------------------------
(* listBatches *)

\* getCachedBatchList finds nothing.  (A hit ends the request.)
Miss(r) ==
  /\ reader[r].step = "idle" /\ ~Cached
  /\ reader' = [reader EXCEPT ![r].step = "select"]
  /\ UNCHANGED <<version, age, cache, pending, unannounced>>

\* The SELECT.  crossed is history: a DEL comes before the SET of this list.
Select(r) ==
  /\ reader[r].step = "select"
  /\ reader' = [reader EXCEPT ![r] = [step |-> "set", list |-> version, since |-> 0,
                                      crossed |-> FALSE]]
  /\ UNCHANGED <<version, age, cache, pending, unannounced>>

\* Mutant of Fresh: seconds taken for milliseconds.
FreshForLong(r) ==
  [list |-> reader[r].list, ttl |-> 1000 * Ttl, crossed |-> reader[r].crossed]

Fresh(r) == [list |-> reader[r].list, ttl |-> Ttl, crossed |-> reader[r].crossed]

\* setCachedBatchList: SET EX.  Unanswered, the client sends it again.
Set(r) ==
  /\ reader[r].step = "set"
  /\ cache' = Fresh(r)
  /\ \/ reader' = [reader EXCEPT ![r] = Idle]
     \/ UNCHANGED reader
  /\ UNCHANGED <<version, age, pending, unannounced>>

\* The SELECT throws, or the API dies.
ReadFails(r) ==
  /\ reader[r].step # "idle"
  /\ reader' = [reader EXCEPT ![r] = Idle]
  /\ UNCHANGED <<version, age, cache, pending, unannounced>>

-----------------------------------------------------------------------------
(* Changes *)

Changes ==
  /\ version < MaxWrites
  /\ version' = version + 1

\* Mutant of Commit: the key is deleted before the commit.
CommitAfterDelete(w) ==
  /\ pending[w] = 0
  /\ Changes
  /\ cache' = NoList
  /\ UNCHANGED <<age, reader, pending, unannounced>>

\* createBatch, cancelBatch, retryFailedUrls, and the worker's finalizers commit.
Commit(w) ==
  /\ pending[w] = 0
  /\ Changes
  /\ pending' = [pending EXCEPT ![w] = version + 1]
  /\ UNCHANGED <<age, cache, reader, unannounced>>

\* After enqueueing or publishing they delete the key ...
Invalidate(w) ==
  /\ pending[w] # 0
  /\ cache' = NoList
  /\ reader' = [r \in Readers |-> [reader[r] EXCEPT !.crossed = reader[r].step = "set"]]
  /\ pending' = [pending EXCEPT ![w] = 0]
  /\ UNCHANGED <<version, age, unannounced>>

\* ... unless an enqueue call or a publication throws, or the process dies.
Forget(w) ==
  /\ pending[w] # 0
  /\ unannounced' = unannounced \cup {pending[w]}
  /\ pending' = [pending EXCEPT ![w] = 0]
  /\ UNCHANGED <<version, age, cache, reader>>

\* markBatchRunning deletes nothing.
ChangeSilently ==
  /\ Changes
  /\ unannounced' = unannounced \cup {version + 1}
  /\ UNCHANGED <<age, cache, reader, pending>>

-----------------------------------------------------------------------------
(* Time *)

\* Ages are not told apart past Oldest.
Oldest == MaxRead + Ttl + 1

Aged == [v \in Versions |-> IF v < version /\ age[v] < Oldest THEN age[v] + 1 ELSE age[v]]

Tick ==
  /\ \A r \in Readers : reader[r].step = "set" => reader[r].since < MaxRead
  /\ age' = Aged
  /\ reader' = [r \in Readers |-> [reader[r] EXCEPT
                  !.since = IF reader[r].step = "set" THEN reader[r].since + 1 ELSE reader[r].since]]
  /\ cache' = IF cache.ttl > 1 THEN [cache EXCEPT !.ttl = cache.ttl - 1] ELSE NoList
  /\ UNCHANGED <<version, pending, unannounced>>

Next ==
  \/ \E r \in Readers : Miss(r) \/ Select(r) \/ Set(r) \/ ReadFails(r)
  \/ \E w \in Writers : Commit(w) \/ Invalidate(w) \/ Forget(w)
  \/ ChangeSilently
  \/ Tick

Spec == Init /\ [][Next]_vars

-----------------------------------------------------------------------------
(* Properties *)

\* What the cache holds was superseded at most Ttl and one read ago, and by the
\* time it expires still is: whatever the interleaving, and even if no writer
\* ever deletes the key.
StalenessBounded == Cached => age[cache.list] + cache.ttl <= MaxRead + Ttl

\* Some change that a list does not have is still to be announced, or never is.
Excused(list) ==
  \/ \E w \in Writers : pending[w] > list
  \/ \E v \in unannounced : v > list

\* A cached list is out of date only until the writer has deleted the key, unless
\* the writer failed or never does; the one gap is a reader that was between its
\* SELECT and its SET at a DEL.
StaleHasReason == Cached /\ cache.list < version => Excused(cache.list) \/ cache.crossed

=============================================================================
