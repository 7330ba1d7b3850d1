# TLA+ model of the bulk URL health checker

Specifications, model-checking configurations and proofs for the logic of this
repository that is concurrent, distributed or retried. Paths are relative to
the repository root (`src/`).

## 1. The system

| Part | State | Operations | Talks to |
|---|---|---|---|
| Batch service (`apps/api/src/services/batchService.ts`) | rows of `batches` and `url_checks` (Postgres) | create, list, detail, cancel, retry-failed, reconcile | Postgres, the queue, the list cache, Redis pub/sub |
| Queue (`apps/api/src/lib/queue.ts`, BullMQ) | job per (check, run generation): state, attempts made, stalled counter, lock | add (deduplicated by job id), deliver, acknowledge, stalled-job check, retention | API and workers |
| Worker (`apps/worker/src/index.ts`, `processUrl.ts`) | deliveries being executed | leased claim, interim result, two finalizers, recomputation of the batch | Postgres, queue, limiters, target sites |
| Concurrency limiter (`concurrencyLimiter.ts`) | one sorted set in Redis | acquire script, release | all worker processes |
| Rate limiter (`rateLimiter.ts`) | one token bucket in Redis | acquire script | all worker processes |
| Health check (`healthCheck.ts`, `ssrf.ts`) | one call: target, redirects followed, abort timer, body read so far | guard and lookup, request, redirect, body, classification of errors | target sites, DNS |
| List cache (`lib/cache.ts`) | one Redis key | read, fill, invalidate, TTL | API and workers |
| Live updates (`routes/events.ts`, `publishUpdate`, `BatchDetailClient.tsx`) | subscription buffers, the browser's copy of a batch | publish, subscribe, snapshot, merge | Redis pub/sub, Postgres |
| Submission (`web/.../batches/new/page.tsx`, `routes/batches.ts`) | the page's mode and whether it is submitting; requests under way | paste, upload, validate, create, answer | batch service |
| URL list parsing (`packages/shared/src/url.ts`) | none | split, normalize, deduplicate | batch service |
| Migrations (`db/migrate.ts`) | `schema_migrations` | apply missing files | Postgres |

What is hard about it: several API instances and workers act on the same rows;
deliveries are at least once, with stalls, crashes and retries; the queue is not
transactional with the database; READ COMMITTED statements see different
snapshots inside one transaction; the limiters work with the callers' clocks.
`PROJECT.json` lists each hazard with its line and the properties that cover it.

### What makes each part correct

- *Checks*: a finished check holds what its last attempt saw and is not written
  again except by retry-failed; cancellation is complete and final; every check
  finishes; no check is requested twice at the same time.
- *Batch*: status and counters follow the checks.
- *Queue recovery*: a check that waits or is processed always has something that
  will pick it up.
- *Limiters*: never more than N open requests; never more grants than the rate
  allows; nobody starves behind a dead process.
- *Submission*: a batch has one row for each URL the user wrote, whatever its
  spellings; the user learns of every batch; every row can be checked.
- *Health check*: every hop passes the guard; the check ends in time, and a
  check that was cut off is tried again.
- *List cache*: a stale list is short-lived and has a reason.
- *Migrations*: the record of applied files is true, whoever dies.

## 2. Modules

| Module | Models |
|---|---|
| `CheckLifecycle` | What is promised for the checks of one batch: an abstract specification without queue, workers, leases or transactions |
| `UrlCheckExecution` | The core: rows, jobs, deliveries, enqueue calls; create, cancel, retry, reconcile; claim to acknowledgement; every kind of fault |
| `UrlCheckExecutionProofs` | Theorems about `UrlCheckExecution` |
| `BatchAggregates`, `BatchAggregatesProofs` | The batch row: status and counters under overlapping finalizers, rollback, cancel and retry |
| `ConcurrencyLimiter`, `ConcurrencyLimiterProofs` | The semaphore in Redis |
| `RateLimiter`, `RateLimiterProofs` | The token bucket in Redis |
| `LiveUpdates`, `LiveUpdatesProofs` | How one page follows one batch: publications, the event route, reconnection, the page's merge and its own requests |
| `UrlList` | `normalizeUrl` and `parseUrlList` as operators |
| `Submission` | The page, `POST /api/batches` and `createBatch` up to its commit |
| `HealthCheck` | One call of `performHealthCheck` with the guard of `ssrf.ts`, against arbitrary servers |
| `UrlJourney`, `UrlJourneyProofs` | The composition of the two: from what a user writes to the verdict on one of its rows |
| `ListCache`, `ListCacheProofs` | The cached batch list, its readers and those who invalidate it |
| `Migrations`, `MigrationsProofs` | Instances of the migrations runner |
| `MC...` | Instances for TLC: fault budgets, symmetry sets, and the texts, files, addresses and redirects of `MCUrlJourney` |

### UrlCheckExecution

One action is the code between two awaits, or one database transaction.

| Variable | In the system |
|---|---|
| `batch` | `batches.status` |
| `rows[c]` | `status`, `run_generation`, `attempt`, `processing_claim_token`, `processing_lease_until`, and the result columns as what was seen and by which attempt |
| `jobs[<<c, g>>]` | the BullMQ job `url-check-c-run-g`: state, `attemptsMade`, stalled counter, lock owner |
| `execs[w]` | the delivery a worker slot executes: the next call, payload, outcome, counted verdict |
| `adds` | enqueue calls under way, by request handlers and reconciliation passes |
| `creating` | createBatch has not yet set RUNNING |
| `faults` | faults so far, by kind, bounded by `FaultBudget` |

- *Finalizing* (`finalizeCheck`, `finalizeExhaustedRetries`) takes two actions:
  `Finalize` is the conditional UPDATE of the check and the SELECT of the
  counts; `Commit` is the UPDATE of the batch and the COMMIT. In between the row
  is locked and its new value invisible, and other transactions commit.
- *Cancel and retry* hold the batch row and touch only QUEUED or FAILED checks,
  which no finalizer has locked (those are PROCESSING), so each is one action.
- *The claim token* is fresh for every delivery. A slot runs one delivery at a
  time and its conditional writes come after its own claim, so the slot's name
  stands for the token.
- *Reconciliation* is `ReconcileSelects` (the row was QUEUED and getJob found no
  job) and a later `AddJob`. Jobs are kept for at least an hour after they end,
  so none disappears between the two reads of a pass.
- *Acknowledgement*: BullMQ listens only to the owner of the lock and counts an
  attempt only when the handler threw; a stalled job keeps its `attemptsMade`
  and fails once it stalled more than `MaxStalls` times (the worker leaves
  BullMQ's default of 1). Waiting for the backoff delay is part of "waiting".
- *Faults*: `crash` (a worker dies, its transaction rolls back), `stall` (the
  lock of a live worker runs out), `error` (a call of the handler fails with an
  error that carries no claim token), `enqueue` (an enqueue call fails or the
  API dies before it), `evict` (retention removes an ended job). A COMMIT whose
  reply is lost is the error one step later, after the commit.
- `StallAfterLease` says that the queue gives up on a worker only after the
  claim's lease: true of the defaults (lease 20 s, BullMQ's lock 30 s), not of
  every value `config.ts` accepts.

### BatchAggregates

Keeps `counted`, the snapshot of the checks from which the three counters of
the batch row were counted, instead of three numbers, so that "the counters
are right" is `counted = status`. A finalizer is named by its check. `overlap`
is a history variable. A finalizer counts only when the batch has left PENDING,
because its own delivery ran `markBatchRunning` before.

### ConcurrencyLimiter

A caller is one call of `withSlot`. Time passes in ticks; `MayWait` bounds how
long a step may take (the abort timer of a request, the delay of a call to
Redis, the wait for a rate token). Each caller's clock may be ahead by
`MaxSkew`. The key expires as a whole. An unanswered script is sent again
(`ReplyLost`), a release may fail, any caller may die.

### RateLimiter

Time in ticks, tokens in parts (the code has floating-point seconds and tokens;
`Parts` and `Refill` make both whole). A caller's time is at most `MaxDelay` old
when its script runs, which covers network delay and clocks that are behind; the
callers belong to any number of worker processes, so scripts run in any order of
their times. The script stores the caller's time even if it is before that of the
last script, and the next one refills the interval again: the history variable
`rewound` sums up those intervals. The window (`from`, `seen`, `rewound`) is an
observer that may start at any time. Two bounds are stated over it: `LimitIsGlobal`
is the documented limit, which the code does not keep (section 6), and
`GrantsBounded` what holds however scripts overtake each other: the excess is at
most what `rewound` refills.

### LiveUpdates

| Variable | In the system |
|---|---|
| `db[x]` | the committed version of a piece: the batch's summary, or one check |
| `carries[p]`, `hand[p]` | what a worker (`publishUpdate`) or the API (`publishBatchUpdate`) has committed and still publishes; what it has read of it so far |
| `line`, `snapshot`, `wire` | the route of `events.ts`: not subscribed, buffering, live; the first read of its snapshot; the buffer and the connection |
| `view`, `reply` | the page's state; its own GET after a cancel or a retry, under way |
| `doubtful` | history: pieces for which nobody is going to send the newest version |

Every read of `getBatchDetail` is two statements, so it may mix versions.
A piece becomes doubtful when its write is published by nobody (a claim, an
interim result, `markBatchRunning`), when its publication fails, or when it was
committed while somebody else held an older copy to be delivered later: those
are real gaps of the code, since neither events nor fetches carry anything to
compare. Reading the piece again for the page ends the doubt. The comment in
`events.ts` that the client's view "can only move forward" is not what the code
does: an event that was buffered before the snapshot was read is sent after it
and takes the view back. What holds is `CurrentIsComing`: the newer version
follows.

### UrlList, Submission, HealthCheck and UrlJourney

A URL is a record of the parts the code tells apart, and a text is the sequence
of its pieces, so splitting is given by the shape of the input while trimming,
filtering, normalizing and removing duplicates are done by the model. (Its
loops are recursive functions, `Without` and `ParseUrlList`, because the prover
cannot look into `SelectSeq` and the folds of the community modules.) Two
records mean the same URL when they agree after a missing scheme, port and path
are filled in (`Meaning`); this reference is independent of `Normal`. What the
platform's URL parser does is modelled in `Parses` and `Parsed`: it lowers the
host, drops default ports and gives a bare authority the path `/`.

| Variable | In the system |
|---|---|
| `page` | `NewBatchPage`: editing, submitting (the button is disabled), left |
| `calls[i]` | one request: its sender's input, its entries, and how far the route has come |
| `batches` | committed batches with their rows and `total_urls` |
| `mishaps` | history: answers of created batches that were lost, and errors after a commit |
| `step`, `target`, `hop` | where `performHealthCheck` awaits, `currentUrl`, `redirects` |
| `time`, `since`, `aborted` | since the call began, at the last entry of the guard, and whether the timer has fired |
| `resolved`, `received`, `result` | history: the addresses the guard saw; bytes of the body in parts; the result |

A request may fail at every step: refused by the upload checks, the schema or
the limit; rolled back by the database; thrown after the commit; answered and
lost. Other clients than the page may send entries that hold several pieces.
`UrlJourney` hands the normal form in a committed row to the health check and
forgets the submission, because the worker sees nothing else of it; queue, claim
and limiters between the two do not look at the URL.

The page splits a text before it sends it, so a text that is all commas is sent
as an empty list and refused by the schema. For a file, the route looks for the
column `url` among the keys of the first record, and the CSV parser makes an
object of each record, so of two columns with one name the last counts
(`UrlColumn`, `UrlCell`). The properties compare with `Column`, the first column
of that name in the header, for files in which it is clear which one is meant
(`ColumnIsClear`).

An address is its first three bytes, or the first two groups of an IPv6 address
and whether the rest is 0, 1 or more. That is more than `ssrf.ts` looks at, and
enough for what its result is compared with: the special-purpose blocks of the
registries (`SpecialBlocks`, and `Reserved` for IPv6), written down from RFC 6890
and 5771 and not from the code. `Overlooked` and `Overblocked` name the blocks in
which the two differ (section 6). Only a lookup is not interrupted by the abort signal, and it starts before the timer
has fired, hence `Timeout + MaxLookup`; that sum is what `RequestTimeout` of
`ConcurrencyLimiter` stands for. `config.ts:13` leaves 5 s between
`REQUEST_TIMEOUT_MS` and the lease for everything else, lookups included; a
resolver that needs longer breaks `LeaseCovers`.

### ListCache

The list is the number of changes committed when it was selected. `age[v]` is
how long version `v` has been superseded, `crossed` marks a reader between its
SELECT and its SET when somebody deleted the key, and `unannounced` holds the
changes nobody will delete the key for: those of `markBatchRunning`, and those
of a writer that died or threw before it came to the DEL. A SET may be sent
twice, a DEL may be delayed for ever.

### Migrations

One action is one query of `main()`. A file's SQL is reduced to three facts of
the four files: none can be applied twice, all but the first need the first, and
each takes locks that make the SQL of another instance wait until the
transaction ends. An instance may be started again whenever it has exited.

## 3. Runs

`tlc -workers 2 -config X.cfg M` with the names below. Deadlock is not checked
anywhere: a batch whose checks are finished, and callers that are done, really
stop, and time is bounded.

| Run | Bounds | Properties |
|---|---|---|
| `MCExecRaces` | 2 checks, 2 slots, 2 attempts, 1 retry, 1 stall of a live worker or 1 failing call; `OneCheckOrOneSlot` | `TypeOK`, `ResultIsLastAttempts`, `FinishedRowsStay`, `NoDuplicateRequest`, `ImplementsLifecycle`, `CancelReachesQueuedChecks`, `QueuedIsNotDone`, `CancelledIsFinal` |
| `MCExecSettles` | 1 check, 1 slot, 2 attempts, 1 retry, 1 crash, 1 lost enqueue, 1 eviction; fairness | `ProcessingIsCovered`, `QueuedIsRecoverable`, `ChecksSettle` |
| `MCAggregates` | 3 checks, 2 retries | `TypeOK`, `FinishedBatchIsExact`, `SuccessesAreReal`, `BatchFollowsChecks`, `ReopenedWithItsChecks` |
| `MCSlots` | 2 callers, 1 slot, skew and delay of 1 tick, lease of 4; fairness | `InFlightBounded`, `OpenRequestsAreCounted`, `CallersGetThrough` |
| `MCRateLimiter` | 3 callers, 2 tokens, 7 ticks, 1 lost reply | `GrantsBounded`, `TokensComeBack` |
| `MCLiveUpdates` | 2 checks, 2 workers, 2 writes, 1 lost connection | `TypeOK`, `NothingMissed`, `CurrentIsComing` |
| `MCListCache` | 2 readers, 2 writers, 3 changes, TTL of 3 ticks, reads of at most 2 | `StalenessBounded`, `StaleHasReason` |
| `MCMigrations` | 3 instances, 4 files, 2 faults; fairness | `SchemaIsRecorded`, `AppliedInOrder`, `FailedWasOvertaken`, `SchemaGetsComplete` |
| `MCUrlJourney` | 2 submissions out of 19 texts, lists and files; limit of 3 URLs, schema limit of 4; 5 redirects, 7 locations, both sides of every address boundary; timeout of 3 ticks, lookups of at most 2; fairness | `HealthTypeOK`, `BatchIsWhatWasWritten`, `SplitBatchesAreLimited`, `NoUnknownBatches`, `TargetsAreGuarded`, `EndsInTime`, `TimedOutIsRetried`, `NeverThrows`, `ChecksEnd` |

The bounds: checks interact only through the batch and the queue's slots, so
two (three for the counters) show every pairwise race; stale deliveries need
two slots, two attempts and two generations. `MCExecRaces` has them all, within a
constraint that TLC can exhaust: either both slots work on one check while the
other waits untouched to be enqueued (stale deliveries, duplicate requests), or
one slot works on both checks and repeats no attempt (cancellation and retry
against open finalizers and reconciliation). A fault of each kind once is
enough to separate the steps of a handler, and the proofs below do not depend
on any of these numbers. In `MCLiveUpdates` two writes are an older and a newer
version of a piece, and one lost connection has a snapshot before and after it.
`CallersGetThrough` needs time to outlast one lease per earlier caller, which
`MaxTime` gives. In `MCListCache` three changes by two writers and a silent one
let a list be two versions old; nothing depends on more. `MCMigrations` has the
repository's four files. The inputs of `MCUrlJourney` are chosen by hand: two
spellings of one URL, one that differs only by an empty query, one by its
scheme, an unsupported scheme, a malformed port; lists below, at and above both
limits; a text of commas; files without records, without a column `url`, with
two of them, and with a first record that does not reach it. What becomes of all texts, lists and files is proved.

What some properties exclude by name is what the code does not give: files
whose first record is short or whose column `url` is not unique
(`BatchIsWhatWasWritten`), blocks the guard overlooks or refuses by mistake
(`TargetsAreGuarded`), refills of an interval that a script has moved back over
(`GrantsBounded`), pieces in doubt (`NothingMissed`, `CurrentIsComing`), entries with several
pieces (`SplitBatchesAreLimited`), errors after the commit and lost answers
(`NoUnknownBatches`), refusals (`TimedOutIsRetried`), readers that cross a DEL
(`StaleHasReason`). Section 6 lists these.

Runs that end in a violation show where the code does something else than a
comment or the repository's README says (`findings` in `PROJECT.json`):

| Run | Shows |
|---|---|
| `MCExecWriteSkew` | Two finalizers count before either commits; each misses the other's check and the batch stays RUNNING for ever. `BatchFollowsChecks` holds as long as finalizers do not overlap (`MCAggregates`, and proved). |
| `MCExecLastAttemptError` | A database error on the last attempt carries no claim token, so nothing finalizes the check: it stays PROCESSING with a failed job. |
| `MCRateSeveralWorkers` | Two workers' scripts run in the other order than they read their clocks: the bucket's time moves back, an interval is refilled twice, and more tokens are handed out than `GLOBAL_RATE_LIMIT_PER_SEC` allows. `GrantsBounded` bounds the excess (`MCRateLimiter`, and proved). |

`ProcessingIsCovered` and `QueuedIsRecoverable` therefore hold under the faults
of `MCExecSettles` (one crash, one lost enqueue, an eviction, `StallAfterLease`)
and are violated by failing calls (`MCExecLastAttemptError`, and section 6). The
theorems about them (section 4) name the same condition, `Calm`, without the
numbers.

### Fairness

`MCExecSettles`: live workers proceed; the queue delivers a waiting job as long
as a slot is free, and checks for stalled jobs; leases run out; an enqueue call
that was made returns; and every API instance runs the reconciliation every
10 s (`apps/api/src/index.ts:49-66`). No fault has to happen and no user has to
act. `MCSlots`: time passes and a caller that has started goes on (it polls
every 50 ms, and requests end by the abort timer). `MCUrlJourney`: time passes,
the timer fires, a lookup ends (getaddrinfo has a timeout of its own); no server
ever has to answer. `MCMigrations`: an instance that runs goes on, and each is
started once; none has to be started again.

## 4. Proofs

`tlapm` checks every theorem for all values of the constants.

**UrlCheckExecution.** `TypeCorrect` is proved from a strengthening with the
ranges of the counters that bounded faults imply. The safety theorems
(`FinishedResults`, `CancelIsComplete`, `CompletedJobsHideNothing`,
`FinishedRowsAreFrozen`, `CancelIsFinal`) and the refinement (`Implementation`,
every step is a step of `CheckLifecycle` or a stutter) share one inductive
invariant, `IInv`. Its parts say why the conditional writes are enough: a
delivery that has claimed and still holds the token of its row is the only one
that may write it; a row's attempt number never goes below that of a delivery
of its generation that claimed it; an open finalizer holds its row; deliveries
and ended jobs belong to generations the row has reached; a generation that was
never claimed has no completed job. The properties alone are not inductive: a
stale delivery in an arbitrary state could hold a token it never acquired.

`OneRequestAtATime` adds `OwnInv`: as long as no job was taken from a living
worker, a busy delivery owns the job it runs, and one that is past its claim
holds the claim of its row. Two open requests for one check would both hold that
claim. `QueuedIsRepairable` and `ProcessingHasALiveJob` are about runs that are `Calm`: no call of a handler fails, no job is taken from a
living worker, and workers crash at most `MaxStalls` times, so that BullMQ fails
no job. Lost enqueue calls, evictions, cancellation and retries are unrestricted.
`CalmInv` says that stalls count crashes, that no job has failed, that a
delivery runs the attempt its job is at, and, if `StallAfterLease`, that the next
delivery of the job of a check in progress can take the row over and that a
delivery that is done has finished its row. No part of `Calm` can be dropped:
with two workers and the other constants of `MCExecSettles`, TLC finds a
violation after failing calls (section 6), after one job taken from a living
worker (a budget of one stall), and after one crash more than `MaxStalls`.

**BatchAggregates.** `SuccessesStay` rests on two facts about open finalizers:
their check is PROCESSING, and the successes they saw are real. `FinishedIsExact`
adds, until the first retry, that settled checks stay as they were seen, so a
finalizer that saw everything settled is the only one open.
`BatchFinishesWithChecks` adds, until the first overlap, that a lone
finalizer's snapshot misses nothing but cancellations. `OnlyRetryReopens` is an
action property and needs the types only.

**ConcurrencyLimiter.** `SlotsAreCounted` and `AtMostMaxInFlight` assume
`LeaseCovers`: delay, wait for a token, request timeout and skew together are
shorter than the lease. The invariant follows the deadlines of `MayWait`: the
slot of an open request was stamped recently enough for every clock, and the
key expires later than it. Then every open request is a member of the set, and
a new member is added only below the limit.

**RateLimiter.** Neither theorem assumes anything of the order of the scripts.
The invariant of `NotTooMany` is a budget: what was handed out since the window
began and what is in the bucket are together at most a full bucket and the refill
of `ts + rewound` since. A script adds to that sum exactly the time it refills,
whether the bucket's time moves forward or back, and a bucket that expires would
have been full.
`NotTooFew` needs no order: a refusal leaves the bucket with all the refill
since the last script that ran.

**UrlJourney.** `NormalFormIsStable` and `NormalFormIsMeaning` are about single
pieces, for any set of hosts: they are argued part by part, from the fact that
a valid piece has one of two schemes and a port that parses. Together they say
that a set of normal forms is a set of URLs, which is why `seen` is enough to
remove duplicates. `ChecksEndInTime` needs that the last guard was entered
before the timer fired (`since <= Timeout`); `CutOffIsRetried` that after it
has fired only an abort or a refusal ends the check.

*The guard.* `GuardSeesEveryTarget` compares the chain of comparisons of `ssrf.ts`
with the registry's blocks, for every three bytes and every two groups
(`GuardOnIpv4`, `GuardOnIpv6`), and carries along the redirects that what is
requested is what the guard has seen. It assumes that literals and answers are addresses
(`AddressesAssumption`). `HealthTypeCorrect` bounds the redirects followed and
the bytes read.

*Batches and senders.* `NoBatchIsLost` counts: the batches committed are the
mishaps and the requests that know their batch (`Accounted`). A commit adds one
on both sides, and each way to lose an answer moves one from the requests to the
mishaps.

*What was written.* `ListIsWhatWasWritten` is about `ParseUrlList` on every text.
The induction over the text is done in `UpTo`, over a set of numbers instead of
a predicate and from the well-foundedness of their order, since the provers cannot
instantiate the library's induction rules; `WithoutUnfolds`, `ParseUnfolds` and
`JoinedUnfolds` show in the same way that the recursive functions exist and so
satisfy their equations. The loop invariant is `Picked`: the URLs kept are listed
by an increasing function onto the first spellings (`First`) among the lines
read so far, and `seen` is the set of their normal forms, which by
`NormalFormIsMeaning` is a set of URLs. Composing it with what filtering keeps
(`WithoutPicks`) gives the same for the text with its blanks. `ContentInv` then
follows a request from the page to the commit: its entries are what its sender
wrote (`EntriesAreMeant`, for a file with `ColumnIsFound`, `ClearCell` and
`JoinedWithout`),
and a batch holds what `parseUrlList` makes of them. `RowsAreWhatWasWritten`,
`SplitBatchesKeepTheLimit` and `PayloadsParse` are read off it.
`InputsAssumption` types the inputs: texts are sequences of pieces, lists are
sequences of texts, files have a header and records.

**LiveUpdates.** A piece that is not in doubt is followed (`Followed`): its newest
version is still to be published, or is on the wire behind all older copies, or
is not on its way and the page has it or will read it. `CopiesAreCurrent` adds
that what a publisher has read, and the page's own reply, are current for the
pieces not in doubt, which is why a copy that overtakes another does no harm. `PageCatchesUp` and
`LastWordIsCurrent` are two readings of it: with nothing under way the page is
current, and if it is not, the newest version is coming.

**ListCache.** The bound on staleness is carried by three ages: of the list in
the cache with the time it has left, of the list a reader holds with the time
since its SELECT, and of versions in general (an older version has been
superseded for longer). `StalenessHasReason` counts: every committed version
above a list that was not crossed is pending or unannounced.

**Migrations.** The invariant says what a transaction knows: who has run its
SQL is alone, and its file is neither applied nor recorded, and everything
before it is. A failing instance has then been overtaken.

Only model-checked: the liveness properties (`ChecksSettle`,
`CallersGetThrough`, `SchemaGetsComplete`, `ChecksEnd`), because fairness and
ENABLED are beyond the prover. Every invariant and every action property that a
passing run checks is proved as well. Some theorems hold under a named condition
on the constants (`LeaseCovers`, `StallAfterLease`) or on the faults
so far (`Calm`), which the property or the theorem states; sections 2 and 6 say
when the code does not meet it.

## 5. Not modelled

- What Postgres, Redis and BullMQ promise is assumed: row locks, READ
  COMMITTED, atomic scripts, the job life cycle. Loss of Redis data is not
  modelled; deadlock between transactions is excluded by the argument in
  section 2, not by a check.
- Text: what the URL parser does with credentials, internationalized hosts,
  percent-encoding and the like; the syntax of CSV; the written forms of IPv6
  addresses; titles, error messages and timings. Entries longer than 2048
  characters.
- Which network errors are transient: both are possible at every request.
- The socket's own lookup after the guard's, which `ssrf.ts` and the
  repository's README name as a limit.
- `UrlCheckExecution` takes the outcome of a health check as free and does not
  instantiate `HealthCheck`: the product has too many states for TLC, and the
  two share no state but the result.
- Start-up, shutdown, routes that only pass an id on, rendering, deployment.

## 6. Divergences

Where the code does something else than its comments, tests or the
repository's README say. The first three are runs; the others show with a change
of a configuration, or are what a property excepts.

| What the code does | Where | What shows it |
|---|---|---|
| The batch stays RUNNING after its last check | `processUrl.ts:263` | `MCExecWriteSkew` |
| A database error on the last attempt leaves the check PROCESSING | `index.ts:47` of the worker | `MCExecLastAttemptError` |
| A script with an older time moves the bucket's time backward, one interval is refilled twice, and several workers start more requests than the class comment and the repository's README allow | `rateLimiter.ts:62` | `MCRateSeveralWorkers` |
| A job that failed without claiming its row hides it from reconciliation, contrary to `batchService.ts:346` | `batchService.ts:390` | `QueuedIsRecoverable` in `MCExecLastAttemptError.cfg` with a budget of two errors |
| `completed_urls` does not count what cancellation settles or retry reopens, contrary to `types.ts:24` | `batchService.ts:237`, `:296` | `CompletedCountsSettled` in `MCAggregates.cfg` |
| An event older than the snapshot is sent after it, contrary to `events.ts` | `events.ts:111` | `LiveUpdates`, above |
| A reader that crosses an invalidation caches the old list for the TTL; so does a writer that fails before it, and a batch marked RUNNING by a worker. `cache.ts:7-12` rules this out | `batchService.ts:169`, `processUrl.ts:252` | `StaleHasReason` without `crossed` or `unannounced` |
| A failed lookup ends the check for good; the repository's README (206, 394) and `healthCheck.ts:144` call it transient | `ssrf.ts:101` | `TimedOutIsRetried` without refusals |
| The guard lets through 192.88.99.0/24, 198.51.100.0/24, 203.0.113.0/24 and reserved IPv6 blocks (documentation, 6to4, everything outside 2000::/3 but for the ranges it names), contrary to "otherwise reserved" in `ssrf.ts:5-8` | `ssrf.ts:29`, `ssrf.ts:72` | `TargetsAreGuarded` without `Overlooked` |
| The guard refuses all of 192.0.0.0/16, of which only 192.0.0.0/24 and 192.0.2.0/24 are reserved | `ssrf.ts:36` | `TargetsAreGuarded` without `Overblocked` |
| A check outlasts `REQUEST_TIMEOUT_MS` by the rest of a lookup | `healthCheck.ts:39` | `EndsInTime` with `MaxLookup` left out |
| A batch has more than `MAX_URLS_PER_BATCH` URLs if entries hold commas | `routes/batches.ts:72` | `SplitBatchesAreLimited` for all batches |
| A file whose first record is shorter than its header is read from another column, contrary to the page's label; of two columns `url` the last is read | `routes/batches.ts:17`, `:48` | `BatchIsWhatWasWritten` without `ColumnIsClear` |
| An error is shown for a batch that exists | `batchService.ts:126`, `page.tsx:40` | `NoUnknownBatches` without `mishaps` |
| The repository's README (line 391) lets `getCachedBatchList` throw and fall back to the database; no caller catches it, and with `maxRetriesPerRequest: null` it waits instead | `cache.ts:20` | not modelled |

## 7. Plan

1. Proofs: that `HealthCheck` alone implements an abstract check (one outcome,
   after the guard), to replace the free outcome in `UrlCheckExecution`.
2. Runs worth exchanging for others: a second crash on one job fails it in the
   queue while its row is PROCESSING (`MaxStalls`); a lease longer than the
   queue's lock (`StallAfterLease` FALSE) lets a redelivery be refused and the
   job complete; a retry between the count and the commit of a finalizer makes
   the batch terminal with a QUEUED check; a Redis outage longer than the lease
   lets more than the limit of requests open; two workers that publish in
   another order than they read leave a page behind.
