---------------------------- MODULE LiveUpdates ----------------------------
(***************************************************************************)
(* How one browser's view of one batch follows Postgres: the publications  *)
(* of workers and of the API after their commits, Redis pub/sub, the       *)
(* subscribe-then-snapshot route of the event stream, and the page that    *)
(* merges what it receives and fetches for itself after its own actions.   *)
(*                                                                         *)
(* What is shown consists of pieces: the summary of the batch, and every   *)
(* check.  A piece is represented by its version, which each write to it   *)
(* raises.  A message maps the pieces it carries to their versions, and    *)
(* the client overrides its view with it.                                  *)
(*                                                                         *)
(* `doubtful` is history: the pieces whose last write was not published,   *)
(* or was committed while somebody else still had an older copy to deliver *)
(* by another path.  Reading a piece again for the page ends the doubt,    *)
(* unless such a copy is still to come.                                    *)
(***************************************************************************)
EXTENDS Naturals, Sequences

CONSTANTS
  Checks,     \* url_checks rows of the batch
  Workers,    \* worker slots that publish
  MaxWrites,  \* bound: writes, in all
  MaxDrops    \* bound: connections lost

ASSUME BoundsAssumption == MaxWrites \in Nat /\ MaxDrops \in Nat

VARIABLES
  db,        \* piece -> its committed version
  carries,   \* publisher -> the pieces it still has to publish
  hand,      \* publisher -> what it has read of them
  line,      \* the event stream: where GET /api/batches/:id/events stands
  snapshot,  \* what the route has read for its first event
  wire,      \* events on their way to the page, or buffered by the route
  view,      \* piece -> the version the page shows
  reply,     \* what the page's own request has read, until it arrives
  doubtful,  \* history: pieces nobody is going to bring up to date
  writes,    \* writes so far
  drops      \* connections lost so far

vars == <<db, carries, hand, line, snapshot, wire, view, reply, doubtful,
          writes, drops>>

Publishers == Workers \cup {"api"}
Pieces == Checks \cup {"batch"}
Nothing == [x \in {} |-> 0]
Messages == UNION {[S -> 0..MaxWrites] : S \in SUBSET Pieces}

\* What the page shows and what travels to it are versions of pieces, and the
\* page always shows every piece (applyEvent merges, it does not replace).
TypeOK ==
  /\ db \in [Pieces -> 0..MaxWrites]
  /\ carries \in [Publishers -> SUBSET Pieces]
  /\ hand \in [Publishers -> Messages]
  /\ line \in {"off", "subscribed", "live"}
  /\ snapshot \in Messages
  /\ \A i \in DOMAIN wire : wire[i] \in Messages
  /\ view \in [Pieces -> 0..MaxWrites]
  /\ reply \in Messages
  /\ doubtful \subseteq Pieces
  /\ writes \in 0..MaxWrites /\ drops \in 0..MaxDrops

-----------------------------------------------------------------------------
\* The page was rendered from the current state and has not connected yet.
Init ==
  /\ db = [x \in Pieces |-> 0]
  /\ carries = [p \in Publishers |-> {}]
  /\ hand = [p \in Publishers |-> Nothing]
  /\ line = "off"
  /\ snapshot = Nothing
  /\ wire = <<>>
  /\ view = db
  /\ reply = Nothing
  /\ doubtful = {}
  /\ writes = 0 /\ drops = 0

Copy(S) == [x \in S |-> db[x]]

\* What two copies hold, in the version of the first where both hold a piece.
Over(new, old) ==
  [x \in DOMAIN new \cup DOMAIN old |->
     IF x \in DOMAIN new THEN new[x] ELSE old[x]]

Without(copy, S) == [x \in DOMAIN copy \ S |-> copy[x]]
CopiesBesides(p) ==
  DOMAIN reply \cup UNION {DOMAIN hand[q] : q \in Publishers \ {p}}

Outstanding ==
  {snapshot, reply} \cup {hand[p] : p \in Publishers}
  \cup {wire[i] : i \in DOMAIN wire}

\* The doubts left when the pieces S are read for the page.
DoubtsAfterReading(S) ==
  doubtful \ {x \in S : \A m \in Outstanding : x \in DOMAIN m => m[x] = db[x]}

(* Writers *)

Write(W) ==
  /\ writes < MaxWrites
  /\ writes' = writes + 1
  /\ db' = [x \in Pieces |-> IF x \in W THEN db[x] + 1 ELSE db[x]]

\* A commit of the pieces W, to be published as the pieces S.
Commit(p, W, S) ==
  /\ carries[p] = {}
  /\ Write(W)
  /\ carries' = [carries EXCEPT ![p] = S]
  /\ doubtful' = (doubtful \ W) \cup (W \cap CopiesBesides(p))
  /\ UNCHANGED <<hand, line, snapshot, wire, view, reply, drops>>

\* finalizeCheck, before publishUpdate: it publishes even what the
\* conditional UPDATE did not write.
FinalizeCheck(w, c) ==
  \E W \in {{}, {"batch", c}} : Commit(w, W, {"batch", c})

\* createBatch, cancelBatch, retryFailedUrls, before publishBatchUpdate; a
\* repeated cancel publishes without having written.
ApiWrites(S) == Commit("api", S, Pieces)

\* The claim, its interim result, markBatchRunning: nothing is published.
WriteSilently(x) ==
  /\ Write({x})
  /\ doubtful' = doubtful \cup {x}
  /\ UNCHANGED <<carries, hand, line, snapshot, wire, view, reply, drops>>

(* Publications *)

ReadPieces(p, S) ==
  /\ S # {}
  /\ hand' = [hand EXCEPT ![p] = Over(Copy(S), @)]
  /\ UNCHANGED <<db, carries, line, snapshot, wire, view, reply, doubtful,
                 writes, drops>>

Unread(p) == carries[p] \ DOMAIN hand[p]

\* publishUpdate reads the batch and the check on two connections at once.
WorkerReads(w) == \E x \in Unread(w) : ReadPieces(w, {x})

\* getBatchDetail reads the batch, then its checks.
ApiReads ==
  ReadPieces("api", IF "batch" \in Unread("api") THEN {"batch"} ELSE Unread("api"))

\* Mutant of Broadcast: what arrives before the snapshot is not buffered.
BroadcastUnbuffered(message) ==
  wire' = IF line = "live" THEN Append(wire, message) ELSE wire

\* Redis hands a message to the connections subscribed now.
Broadcast(message) ==
  wire' = IF line = "off" THEN wire ELSE Append(wire, message)

Publish(p, S) ==
  /\ S # {} /\ Unread(p) = {}
  /\ Broadcast([x \in S |-> hand[p][x]])
  /\ hand' = [hand EXCEPT ![p] = Without(@, S)]
  /\ carries' = [carries EXCEPT ![p] = @ \ S]
  /\ UNCHANGED <<db, line, snapshot, view, reply, doubtful, writes, drops>>

\* The url-updated event, then the batch-updated event without checks.
WorkerPublishes(w) ==
  Publish(w, IF carries[w] = {"batch"} THEN {"batch"} ELSE carries[w] \cap Checks)

ApiPublishes == Publish("api", carries["api"])

\* A read or a publish fails, or the process dies: nobody tries again.
PublicationFails(p) ==
  /\ carries[p] # {}
  /\ doubtful' = doubtful \cup carries[p]
  /\ carries' = [carries EXCEPT ![p] = {}]
  /\ hand' = [hand EXCEPT ![p] = Nothing]
  /\ UNCHANGED <<db, line, snapshot, wire, view, reply, writes, drops>>

(* The event stream *)

Subscribe ==
  /\ line = "off"
  /\ line' = "subscribed"
  /\ UNCHANGED <<db, carries, hand, snapshot, wire, view, reply, doubtful,
                 writes, drops>>

\* The first of the two reads of getBatchDetail.
ReadSnapshot ==
  /\ line = "subscribed" /\ snapshot = Nothing
  /\ snapshot' = Copy({"batch"})
  /\ doubtful' = DoubtsAfterReading({"batch"})
  /\ UNCHANGED <<db, carries, hand, line, wire, view, reply, writes, drops>>

\* Mutant of Flushed: the buffer is sent before the snapshot.
FlushedFirst(message) == Append(wire, message)

\* The snapshot is sent, and the buffer after it.
Flushed(message) == <<message>> \o wire

\* The second read.
SendSnapshot ==
  /\ line = "subscribed" /\ snapshot # Nothing
  /\ wire' = Flushed(Over(Copy(Checks), snapshot))
  /\ doubtful' = DoubtsAfterReading(Checks)
  /\ snapshot' = Nothing
  /\ line' = "live"
  /\ UNCHANGED <<db, carries, hand, view, reply, writes, drops>>

\* getBatchDetail throws: the stream goes on without a snapshot.
SnapshotFails ==
  /\ line = "subscribed"
  /\ snapshot' = Nothing
  /\ line' = "live"
  /\ doubtful' = Pieces
  /\ UNCHANGED <<db, carries, hand, wire, view, reply, writes, drops>>

\* The connection is lost, with what is on it; EventSource connects again.
Drop ==
  /\ line # "off" /\ drops < MaxDrops
  /\ drops' = drops + 1
  /\ line' = "off" /\ snapshot' = Nothing /\ wire' = <<>>
  /\ UNCHANGED <<db, carries, hand, view, reply, doubtful, writes>>

(* The page *)

\* Mutant of Merged: the event replaces what is shown.
MergedOver(message) == message

\* A batch-updated event without checks leaves them alone, a url-updated
\* event replaces one.
Merged(message) == Over(message, view)

ApplyEvent ==
  /\ line = "live" /\ wire # <<>>
  /\ view' = Merged(Head(wire))
  /\ wire' = Tail(wire)
  /\ UNCHANGED <<db, carries, hand, line, snapshot, reply, doubtful, writes, drops>>

\* fetchBatchDetailClient after a cancel or a retry: two reads again.
Fetch ==
  /\ reply' = IF reply = Nothing THEN Copy({"batch"}) ELSE Over(Copy(Checks), reply)
  /\ DOMAIN reply # Pieces
  /\ doubtful' =
       DoubtsAfterReading(IF reply = Nothing THEN {"batch"} ELSE Checks)
  /\ UNCHANGED <<db, carries, hand, line, snapshot, wire, view, writes, drops>>

\* setBatch(fresh), whatever came over the stream meanwhile.
FetchArrives ==
  /\ DOMAIN reply = Pieces
  /\ view' = reply
  /\ reply' = Nothing
  /\ UNCHANGED <<db, carries, hand, line, snapshot, wire, doubtful, writes, drops>>

Next ==
  \/ \E w \in Workers :
       \/ \E c \in Checks : FinalizeCheck(w, c)
       \/ WorkerReads(w) \/ WorkerPublishes(w)
  \/ \E S \in SUBSET Checks : ApiWrites(S \cup {"batch"})
  \/ ApiWrites({}) \/ ApiReads \/ ApiPublishes
  \/ \E x \in Pieces : WriteSilently(x)
  \/ \E p \in Publishers : PublicationFails(p)
  \/ Subscribe \/ ReadSnapshot \/ SendSnapshot \/ SnapshotFails \/ Drop
  \/ ApplyEvent \/ Fetch \/ FetchArrives

Spec == Init /\ [][Next]_vars

-----------------------------------------------------------------------------
Quiet ==
  /\ line = "live" /\ wire = <<>> /\ reply = Nothing
  /\ \A p \in Publishers : carries[p] = {}

\* When a connected page has received everything, it shows the database,
\* however connections dropped and writes fell between the subscription and
\* the snapshot; what was never published it shows as soon as it connects
\* again (events.ts, "Missed-event recovery, and the init-order race").
NothingMissed == Quiet => \A x \in Pieces \ doubtful : view[x] = db[x]

\* A page that shows an old piece has the current one on its way: an event
\* may take the view back for a moment, but never as the last word.
CurrentIsComing ==
  \A x \in Pieces \ doubtful :
    line = "live" /\ view[x] # db[x] =>
      \/ \E i \in DOMAIN wire : x \in DOMAIN wire[i] /\ wire[i][x] = db[x]
      \/ \E p \in Publishers : x \in carries[p]
      \/ x \in DOMAIN reply /\ reply[x] = db[x]

=============================================================================
