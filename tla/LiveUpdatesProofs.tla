------------------------- MODULE LiveUpdatesProofs -------------------------
(***************************************************************************)
(* What LiveUpdates guarantees for any number of checks, workers, writes   *)
(* and lost connections: a piece that is not in doubt is followed through  *)
(* its publisher, the wire or the page's own request, so that the page     *)
(* ends up with it.                                                        *)
(***************************************************************************)
EXTENDS LiveUpdates, TLAPS

-----------------------------------------------------------------------------
(* Messages *)

\* A message is a function from some of the pieces to versions.
LEMMA MessageParts ==
  ASSUME NEW m
  PROVE  m \in Messages <=> /\ DOMAIN m \subseteq Pieces
                            /\ m = [x \in DOMAIN m |-> m[x]]
                            /\ \A x \in DOMAIN m : m[x] \in 0..MaxWrites
<1>1. ASSUME m \in Messages
      PROVE  /\ DOMAIN m \subseteq Pieces
             /\ m = [x \in DOMAIN m |-> m[x]]
             /\ \A x \in DOMAIN m : m[x] \in 0..MaxWrites
  <2>1. PICK S \in SUBSET Pieces : m \in [S -> 0..MaxWrites]
    BY <1>1 DEF Messages
  <2> QED BY <2>1
<1>2. ASSUME DOMAIN m \subseteq Pieces, m = [x \in DOMAIN m |-> m[x]],
             \A x \in DOMAIN m : m[x] \in 0..MaxWrites
      PROVE  m \in Messages
  <2>1. m \in [DOMAIN m -> 0..MaxWrites]
    BY <1>2
  <2> QED BY <1>2, <2>1 DEF Messages
<1> QED BY <1>1, <1>2

\* Nothing is the message without pieces.
LEMMA NothingParts ==
  /\ Nothing \in Messages /\ DOMAIN Nothing = {}
  /\ \A m \in Messages : DOMAIN m = {} => m = Nothing
<1>1. DOMAIN Nothing = {}
  BY DEF Nothing
<1>2. Nothing \in Messages
  BY <1>1, MessageParts DEF Nothing
<1>3. ASSUME NEW m \in Messages, DOMAIN m = {} PROVE m = Nothing
  <2>1. m = [x \in DOMAIN m |-> m[x]]
    BY MessageParts
  <2> QED BY <1>3, <2>1 DEF Nothing
<1> QED BY <1>1, <1>2, <1>3

\* One copy over another has the pieces of both, and the first's versions.
LEMMA OverlayParts ==
  ASSUME NEW m \in Messages, NEW n \in Messages
  PROVE  /\ Over(m, n) \in Messages /\ DOMAIN Over(m, n) = DOMAIN m \cup DOMAIN n
         /\ \A x \in DOMAIN m : Over(m, n)[x] = m[x]
         /\ \A x \in DOMAIN n \ DOMAIN m : Over(m, n)[x] = n[x]
<1>1. /\ DOMAIN Over(m, n) = DOMAIN m \cup DOMAIN n
      /\ \A x \in DOMAIN m : Over(m, n)[x] = m[x]
      /\ \A x \in DOMAIN n \ DOMAIN m : Over(m, n)[x] = n[x]
      /\ Over(m, n) = [x \in DOMAIN Over(m, n) |-> Over(m, n)[x]]
  BY DEF Over
<1>2. /\ DOMAIN Over(m, n) \subseteq Pieces
      /\ \A x \in DOMAIN Over(m, n) : Over(m, n)[x] \in 0..MaxWrites
  BY <1>1, MessageParts
<1> QED BY <1>1, <1>2, MessageParts

-----------------------------------------------------------------------------
(* Types *)

\* The order in which route and page read bounds what their copies hold.
Shape ==
  /\ db \in [Pieces -> 0..MaxWrites]
  /\ carries \in [Publishers -> SUBSET Pieces]
  /\ hand \in [Publishers -> Messages]
  /\ line \in {"off", "subscribed", "live"}
  /\ snapshot \in Messages
  /\ wire \in Seq(Messages)
  /\ view \in [Pieces -> 0..MaxWrites]
  /\ reply \in Messages
  /\ doubtful \subseteq Pieces
  /\ writes \in 0..MaxWrites /\ drops \in 0..MaxDrops
  /\ \A x \in Pieces : db[x] <= writes
  /\ \A p \in Publishers : DOMAIN hand[p] \subseteq carries[p]
  /\ DOMAIN snapshot \in {{}, {"batch"}}
  /\ line # "subscribed" => snapshot = Nothing
  /\ line = "off" => wire = <<>>
  /\ DOMAIN reply \in {{}, {"batch"}, Pieces}

\* What is read now is a message.
LEMMA CopyParts ==
  ASSUME Shape, NEW S \in SUBSET Pieces
  PROVE  /\ Copy(S) \in Messages /\ DOMAIN Copy(S) = S
         /\ \A x \in S : Copy(S)[x] = db[x]
<1>1. DOMAIN Copy(S) = S /\ \A x \in S : Copy(S)[x] = db[x]
  BY DEF Copy
<1>2. Copy(S) = [x \in DOMAIN Copy(S) |-> Copy(S)[x]]
  BY DEF Copy
<1>3. \A x \in DOMAIN Copy(S) : Copy(S)[x] \in 0..MaxWrites
  BY <1>1 DEF Shape
<1> QED BY <1>1, <1>2, <1>3, MessageParts

\* What is read now over an older copy.
LEMMA FreshParts ==
  ASSUME Shape, NEW S \in SUBSET Pieces, NEW m \in Messages
  PROVE  /\ Over(Copy(S), m) \in Messages
         /\ DOMAIN Over(Copy(S), m) = S \cup DOMAIN m
         /\ \A x \in S : Over(Copy(S), m)[x] = db[x]
         /\ \A x \in DOMAIN m \ S : Over(Copy(S), m)[x] = m[x]
<1>1. PICK n \in Messages : n = Copy(S)
  BY CopyParts
<1>2. DOMAIN n = S /\ \A x \in S : n[x] = db[x]
  BY <1>1, CopyParts
<1> QED BY <1>1, <1>2, OverlayParts

\* A new page shows nothing but the current state, and nothing is under way.
LEMMA InitShape == Init => Shape
<1> SUFFICES ASSUME Init PROVE Shape
  OBVIOUS
<1>1. 0 \in 0..MaxWrites /\ 0 \in 0..MaxDrops
  BY BoundsAssumption
<1>2. wire \in Seq(Messages)
  BY DEF Init
<1> QED BY <1>1, <1>2, NothingParts DEF Init, Shape

\* A write leaves versions within the number of writes.
LEMMA WriteShape ==
  ASSUME Shape, NEW W \in SUBSET Pieces, Write(W)
  PROVE  /\ db' \in [Pieces -> 0..MaxWrites] /\ writes' \in 0..MaxWrites
         /\ \A x \in Pieces : db'[x] <= writes'
         /\ \A x \in Pieces \ W : db'[x] = db[x]
<1>1. MaxWrites \in Nat /\ writes \in Nat /\ writes' = writes + 1 /\ writes' <= MaxWrites
  BY BoundsAssumption DEF Shape, Write
<1>2. \A x \in Pieces : db'[x] = IF x \in W THEN db[x] + 1 ELSE db[x]
  BY DEF Write
<1>3. \A x \in Pieces : db[x] \in Nat /\ db[x] <= writes
  BY BoundsAssumption DEF Shape
<1>4. \A x \in Pieces : db'[x] \in 0..MaxWrites /\ db'[x] <= writes'
  BY <1>1, <1>2, <1>3
<1> QED BY <1>1, <1>2, <1>4 DEF Write

\* Overlaying one copy of a publisher's, or taking pieces from it, is a message.
LEMMA WithoutParts ==
  ASSUME NEW m \in Messages, NEW S
  PROVE  /\ Without(m, S) \in Messages /\ DOMAIN Without(m, S) = DOMAIN m \ S
         /\ \A x \in DOMAIN m \ S : Without(m, S)[x] = m[x]
<1>1. /\ DOMAIN Without(m, S) = DOMAIN m \ S
      /\ \A x \in DOMAIN m \ S : Without(m, S)[x] = m[x]
      /\ Without(m, S) = [x \in DOMAIN Without(m, S) |-> Without(m, S)[x]]
  BY DEF Without
<1>2. /\ DOMAIN Without(m, S) \subseteq Pieces
      /\ \A x \in DOMAIN Without(m, S) : Without(m, S)[x] \in 0..MaxWrites
  BY <1>1, MessageParts
<1> QED BY <1>1, <1>2, MessageParts

\* A commit changes the versions and what its publisher carries.
LEMMA CommitShape ==
  ASSUME Shape, NEW p \in Publishers, NEW W \in SUBSET Pieces, NEW S \in SUBSET Pieces,
         Commit(p, W, S)
  PROVE  Shape'
<1>1. /\ db' \in [Pieces -> 0..MaxWrites] /\ writes' \in 0..MaxWrites
      /\ \A x \in Pieces : db'[x] <= writes'
  BY WriteShape DEF Commit
<1>2. /\ carries' \in [Publishers -> SUBSET Pieces] /\ doubtful' \subseteq Pieces
      /\ UNCHANGED <<hand, line, snapshot, wire, view, reply, drops>>
  BY DEF Commit, Shape
<1>3. \A q \in Publishers : DOMAIN hand'[q] \subseteq carries'[q]
  BY DEF Commit, Shape
<1> QED BY <1>1, <1>2, <1>3 DEF Shape

\* Reading adds pieces to what a publisher holds.
LEMMA ReadShape ==
  ASSUME Shape, NEW p \in Publishers, NEW S \in SUBSET Unread(p), ReadPieces(p, S)
  PROVE  Shape'
<1>1. S \in SUBSET Pieces /\ S \subseteq carries[p]
  BY DEF Shape, Unread
<1>2. hand[p] \in Messages /\ DOMAIN hand[p] \subseteq carries[p]
  BY DEF Shape
<1>3. hand' = [hand EXCEPT ![p] = Over(Copy(S), hand[p])]
  BY DEF ReadPieces
<1>4. /\ Over(Copy(S), hand[p]) \in Messages
      /\ DOMAIN Over(Copy(S), hand[p]) \subseteq carries[p]
  <2>1. /\ Over(Copy(S), hand[p]) \in Messages
        /\ DOMAIN Over(Copy(S), hand[p]) = S \cup DOMAIN hand[p]
    BY <1>1, <1>2, FreshParts
  <2> QED BY <1>1, <1>2, <2>1
<1>5. /\ hand' \in [Publishers -> Messages]
      /\ \A q \in Publishers : DOMAIN hand'[q] \subseteq carries[q]
  BY <1>3, <1>4 DEF Shape
<1> QED BY <1>5 DEF ReadPieces, Shape

\* Publishing takes pieces from the publisher and puts them on the wire.
LEMMA PublishParts ==
  ASSUME Shape, NEW p \in Publishers, NEW S \in SUBSET carries[p], Publish(p, S)
  PROVE  \E m \in Messages :
           /\ DOMAIN m = S /\ \A x \in S : x \in DOMAIN hand[p] /\ m[x] = hand[p][x]
           /\ wire' = IF line = "off" THEN wire ELSE Append(wire, m)
<1> DEFINE m == [x \in S |-> hand[p][x]]
<1>1. S \subseteq DOMAIN hand[p] /\ hand[p] \in Messages
  BY DEF Publish, Unread, Shape
<1>2. /\ DOMAIN m = S /\ m = [x \in DOMAIN m |-> m[x]]
      /\ \A x \in S : m[x] = hand[p][x]
  OBVIOUS
<1>3. wire' = IF line = "off" THEN wire ELSE Append(wire, m)
  BY DEF Publish, Broadcast
<1> HIDE DEF m
<1>4. m \in Messages
  <2>1. DOMAIN m \subseteq Pieces /\ \A x \in DOMAIN m : m[x] \in 0..MaxWrites
    BY <1>1, <1>2, MessageParts
  <2> QED BY <1>2, <2>1, MessageParts
<1> QED BY <1>1, <1>2, <1>3, <1>4

\* A publication keeps the shape of buffers and wire.
LEMMA PublishShape ==
  ASSUME Shape, NEW p \in Publishers, NEW S \in SUBSET carries[p], Publish(p, S)
  PROVE  Shape'
<1>1. wire' \in Seq(Messages) /\ (line = "off" => wire' = <<>>)
  <2>1. PICK m \in Messages : wire' = IF line = "off" THEN wire ELSE Append(wire, m)
    BY PublishParts
  <2> QED BY <2>1 DEF Shape
<1>2. hand[p] \in Messages /\ DOMAIN hand[p] \subseteq carries[p]
  BY DEF Shape
<1>3. /\ Without(hand[p], S) \in Messages
      /\ DOMAIN Without(hand[p], S) \subseteq carries[p] \ S
  BY <1>2, WithoutParts, ZenonT(40)
<1>4. /\ hand' = [hand EXCEPT ![p] = Without(hand[p], S)]
      /\ carries' = [carries EXCEPT ![p] = carries[p] \ S]
  BY DEF Publish
<1>5. /\ hand' \in [Publishers -> Messages]
      /\ carries' \in [Publishers -> SUBSET Pieces]
      /\ \A q \in Publishers : DOMAIN hand'[q] \subseteq carries'[q]
  BY <1>3, <1>4 DEF Shape
<1> QED BY <1>1, <1>5 DEF Publish, Shape

\* Every step keeps the types.
LEMMA NextShape == Shape /\ [Next]_vars => Shape'
<1> SUFFICES ASSUME Shape, [Next]_vars PROVE Shape'
  OBVIOUS
<1>1. CASE UNCHANGED vars
  BY <1>1 DEF vars, Shape
<1>2. ASSUME NEW w \in Workers, NEW c \in Checks, FinalizeCheck(w, c) PROVE Shape'
  BY <1>2, CommitShape DEF FinalizeCheck, Publishers, Pieces
<1>3. ASSUME NEW w \in Workers, WorkerReads(w) PROVE Shape'
  BY <1>3, ReadShape DEF WorkerReads, Publishers
<1>4. ASSUME NEW w \in Workers, WorkerPublishes(w) PROVE Shape'
  BY <1>4, PublishShape DEF WorkerPublishes, Publishers
<1>5. ASSUME NEW S \in SUBSET Pieces, ApiWrites(S) PROVE Shape'
  BY <1>5, CommitShape DEF ApiWrites, Publishers
<1>6. CASE ApiReads
  <2>1. (IF "batch" \in Unread("api") THEN {"batch"} ELSE Unread("api")) \in SUBSET Unread("api")
    OBVIOUS
  <2> QED BY <1>6, <2>1, ReadShape DEF ApiReads, Publishers
<1>7. CASE ApiPublishes
  BY <1>7, PublishShape DEF ApiPublishes, Publishers
<1>8. ASSUME NEW x \in Pieces, WriteSilently(x) PROVE Shape'
  <2>1. /\ db' \in [Pieces -> 0..MaxWrites] /\ writes' \in 0..MaxWrites
        /\ \A y \in Pieces : db'[y] <= writes'
    BY <1>8, WriteShape DEF WriteSilently
  <2> QED BY <1>8, <2>1 DEF WriteSilently, Shape
<1>9. ASSUME NEW p \in Publishers, PublicationFails(p) PROVE Shape'
  BY <1>9, NothingParts DEF PublicationFails, Shape
<1>10. CASE Subscribe
  BY <1>10 DEF Subscribe, Shape
<1>11. CASE ReadSnapshot
  <2>1. Copy({"batch"}) \in Messages /\ DOMAIN Copy({"batch"}) = {"batch"}
    BY CopyParts DEF Pieces
  <2> QED BY <1>11, <2>1 DEF ReadSnapshot, DoubtsAfterReading, Shape
<1>12. CASE SendSnapshot
  <2>1. Over(Copy(Checks), snapshot) \in Messages
    BY CopyParts, OverlayParts DEF Pieces, Shape
  <2>2. wire' \in Seq(Messages)
    BY <1>12, <2>1 DEF SendSnapshot, Flushed, Shape
  <2> QED BY <1>12, <2>2, NothingParts DEF SendSnapshot, DoubtsAfterReading, Shape
<1>13. CASE SnapshotFails
  BY <1>13, NothingParts DEF SnapshotFails, Shape
<1>14. CASE Drop
  <2>1. drops' \in 0..MaxDrops
    BY <1>14, BoundsAssumption DEF Drop, Shape
  <2> QED BY <1>14, <2>1, NothingParts DEF Drop, Shape
<1>15. CASE ApplyEvent
  <2>1. Head(wire) \in Messages /\ Tail(wire) \in Seq(Messages)
    BY <1>15 DEF ApplyEvent, Shape
  <2>2. view \in Messages
    BY DEF Shape, Messages
  <2>3. Over(Head(wire), view) \in Messages /\ DOMAIN Over(Head(wire), view) = Pieces
    <3>1. DOMAIN view = Pieces
      BY DEF Shape
    <3>2. DOMAIN Head(wire) \subseteq Pieces
      BY <2>1, MessageParts
    <3> QED BY <2>1, <2>2, <3>1, <3>2, OverlayParts
  <2>4. view' \in [Pieces -> 0..MaxWrites]
    BY <1>15, <2>3, MessageParts DEF ApplyEvent, Merged
  <2> QED BY <1>15, <2>1, <2>4 DEF ApplyEvent, Shape
<1>16. CASE Fetch
  <2>1. /\ Copy({"batch"}) \in Messages /\ DOMAIN Copy({"batch"}) = {"batch"}
        /\ Copy(Checks) \in Messages /\ DOMAIN Copy(Checks) = Checks
    BY CopyParts DEF Pieces
  <2>2. reply' \in Messages /\ DOMAIN reply' \in {{"batch"}, Pieces}
    <3>1. CASE reply = Nothing
      BY <1>16, <2>1, <3>1 DEF Fetch
    <3>2. CASE reply # Nothing
      <4>1. DOMAIN reply = {"batch"}
        BY <1>16, <3>2, NothingParts DEF Fetch, Shape
      <4> QED BY <1>16, <2>1, <3>2, <4>1, OverlayParts DEF Fetch, Shape, Pieces
    <3> QED BY <3>1, <3>2
  <2> QED BY <1>16, <2>2 DEF Fetch, DoubtsAfterReading, Shape
<1>17. CASE FetchArrives
  <2>1. view' \in [Pieces -> 0..MaxWrites]
    BY <1>17, MessageParts DEF FetchArrives, Shape
  <2> QED BY <1>17, <2>1, NothingParts DEF FetchArrives, Shape
<1>18. ASSUME NEW S \in SUBSET Checks, ApiWrites(S \cup {"batch"}) PROVE Shape'
  BY <1>5, <1>18 DEF Pieces
<1>19. ASSUME ApiWrites({}) PROVE Shape'
  BY <1>5, <1>19
<1> QED BY <1>1, <1>2, <1>3, <1>4, <1>6, <1>7, <1>8, <1>9, <1>10, <1>11, <1>12,
           <1>13, <1>14, <1>15, <1>16, <1>17, <1>18, <1>19 DEF Next

\* Type correctness: in particular the page always shows every piece.
THEOREM TypeCorrect == Spec => []TypeOK
<1>1. Shape => TypeOK
  BY DEF Shape, TypeOK
<1> QED BY <1>1, InitShape, NextShape, PTL DEF Spec

-----------------------------------------------------------------------------
(* Following a piece *)

\* Copies that reach the page by another way than the wire do not bring back an
\* old version of a piece that is not in doubt.
CopiesAreCurrent ==
  \A x \in Pieces \ doubtful :
    /\ \A p \in Publishers : x \in DOMAIN hand[p] => hand[p][x] = db[x]
    /\ x \in DOMAIN reply => reply[x] = db[x]

Carried(x) == \E p \in Publishers : x \in carries[p]

\* A message has the version of the database, and so has every later one that
\* has the piece.
CurrentFrom(x, i) ==
  /\ x \in DOMAIN wire[i]
  /\ \A j \in DOMAIN wire : j >= i /\ x \in DOMAIN wire[j] => wire[j][x] = db[x]

OnWire(x) == \E i \in DOMAIN wire : CurrentFrom(x, i)

NotOnWire(x) == \A i \in DOMAIN wire : x \notin DOMAIN wire[i]

\* The page has the version of the database, or is about to read it.
AtPage(x) ==
  /\ line = "live" => view[x] = db[x] \/ x \in DOMAIN reply
  /\ x \in DOMAIN snapshot => snapshot[x] = db[x]

Followed ==
  \A x \in Pieces \ doubtful :
    Carried(x) \/ OnWire(x) \/ (NotOnWire(x) /\ AtPage(x))

IInv == Shape /\ CopiesAreCurrent /\ Followed

\* The invariant holds before the page connects.
LEMMA InitIInv == Init => IInv
<1> SUFFICES ASSUME Init PROVE IInv
  OBVIOUS
<1>1. CopiesAreCurrent
  BY NothingParts DEF Init, CopiesAreCurrent
<1>2. Followed
  BY NothingParts DEF Init, Followed, NotOnWire, AtPage
<1> QED BY <1>1, <1>2, InitShape DEF IInv

\* Every copy of the piece that is under way has the version of the database.
Agreed(x) ==
  /\ \A p \in Publishers : x \in DOMAIN hand[p] => hand[p][x] = db[x]
  /\ \A i \in DOMAIN wire : x \in DOMAIN wire[i] => wire[i][x] = db[x]
  /\ x \in DOMAIN reply => reply[x] = db[x]
  /\ x \in DOMAIN snapshot => snapshot[x] = db[x]

\* Reading for the page ends a doubt only if all copies under way agree.
LEMMA DoubtEnds ==
  ASSUME NEW S, NEW x \in Pieces \ DoubtsAfterReading(S)
  PROVE  x \notin doubtful \/ (x \in S /\ Agreed(x))
BY DEF DoubtsAfterReading, Outstanding, Agreed

\* A piece whose copies all agree is followed if the page will have it.
LEMMA AgreedIsFollowed ==
  ASSUME Shape, NEW x \in Pieces, Agreed(x)
  PROVE  OnWire(x) \/ NotOnWire(x)
BY DEF Shape, Agreed, OnWire, CurrentFrom, NotOnWire

\* Whatever is added behind, a piece that is followed on the wire still is.
LEMMA AppendKeeps ==
  ASSUME Shape, NEW x \in Pieces, NEW m \in Messages, wire' = Append(wire, m), db' = db,
         x \in DOMAIN m => m[x] = db[x]
  PROVE  /\ OnWire(x) => OnWire(x)'
         /\ x \in DOMAIN m => OnWire(x)'
         /\ NotOnWire(x) /\ x \notin DOMAIN m => NotOnWire(x)'
<1>1. /\ wire \in Seq(Messages) /\ Len(wire) \in Nat
      /\ DOMAIN wire = 1..Len(wire) /\ DOMAIN wire' = 1..(Len(wire) + 1)
      /\ \A i \in DOMAIN wire : wire'[i] = wire[i]
      /\ wire'[Len(wire) + 1] = m
  BY DEF Shape
<1>2. ASSUME NEW i \in DOMAIN wire, CurrentFrom(x, i) PROVE OnWire(x)'
  BY <1>1, <1>2 DEF OnWire, CurrentFrom
<1>3. ASSUME x \in DOMAIN m PROVE OnWire(x)'
  <2>1. PICK n \in Nat : n = Len(wire) + 1
    BY <1>1
  <2>2. CurrentFrom(x, n)'
    BY <1>1, <1>3, <2>1 DEF CurrentFrom
  <2> QED BY <1>1, <2>1, <2>2 DEF OnWire
<1>4. ASSUME NotOnWire(x), x \notin DOMAIN m PROVE NotOnWire(x)'
  BY <1>1, <1>4 DEF NotOnWire
<1> QED BY <1>2, <1>3, <1>4 DEF OnWire

-----------------------------------------------------------------------------
(* Copies stay current *)

\* Steps that neither write nor copy keep the copies current.
LEMMA CurrentKept ==
  ASSUME CopiesAreCurrent, UNCHANGED <<db, hand, reply>>,
         \A x \in Pieces \ doubtful' : x \notin doubtful \/ Agreed(x)
  PROVE  CopiesAreCurrent'
BY DEF CopiesAreCurrent, Agreed

\* What is written is copied by nobody but the writer, who has nothing yet.
LEMMA CommitCurrent ==
  ASSUME Shape, CopiesAreCurrent,
         NEW p \in Publishers, NEW W \in SUBSET Pieces, NEW S, Commit(p, W, S)
  PROVE  CopiesAreCurrent'
<1>1. DOMAIN hand[p] = {}
  BY DEF Commit, Shape
<1>2. \A x \in Pieces \ W : db'[x] = db[x]
  BY WriteShape DEF Commit
<1> SUFFICES ASSUME NEW x \in Pieces \ doubtful'
             PROVE  /\ \A q \in Publishers : x \in DOMAIN hand[q] => hand[q][x] = db'[x]
                    /\ x \in DOMAIN reply => reply[x] = db'[x]
  BY DEF Commit, CopiesAreCurrent
<1>3. CASE x \in W
  BY <1>1, <1>3 DEF Commit, CopiesBesides
<1>4. CASE x \notin W
  BY <1>2, <1>4 DEF Commit, CopiesAreCurrent
<1> QED BY <1>3, <1>4

\* Reading keeps every copy current that is not in doubt.
LEMMA ReadCurrent ==
  ASSUME Shape, CopiesAreCurrent,
         NEW p \in Publishers, NEW S \in SUBSET Unread(p), ReadPieces(p, S)
  PROVE  CopiesAreCurrent'
<1>1. S \in SUBSET Pieces
  BY DEF Shape, Unread
<1>2. \A q \in Publishers : hand'[q] = IF q = p THEN Over(Copy(S), hand[p]) ELSE hand[q]
  BY DEF ReadPieces, Shape
<1>3. hand[p] \in Messages
  BY DEF Shape
<1>4. \A x \in DOMAIN hand'[p] : \/ x \in S /\ hand'[p][x] = db[x]
                                 \/ x \in DOMAIN hand[p] /\ hand'[p][x] = hand[p][x]
  <2>1. /\ DOMAIN Over(Copy(S), hand[p]) = S \cup DOMAIN hand[p]
        /\ \A x \in S : Over(Copy(S), hand[p])[x] = db[x]
        /\ \A x \in DOMAIN hand[p] \ S : Over(Copy(S), hand[p])[x] = hand[p][x]
    BY <1>1, <1>3, FreshParts
  <2> QED BY <1>2, <2>1
<1> QED BY <1>2, <1>4 DEF CopiesAreCurrent, ReadPieces

\* So does publishing.
LEMMA PublishCurrent ==
  ASSUME Shape, CopiesAreCurrent, NEW p \in Publishers, NEW S, Publish(p, S)
  PROVE  CopiesAreCurrent'
<1>1. \A q \in Publishers : hand'[q] = IF q = p THEN Without(hand[p], S) ELSE hand[q]
  BY DEF Publish, Shape
<1>2. hand[p] \in Messages
  BY DEF Shape
<1>3. \A x \in DOMAIN hand'[p] : x \in DOMAIN hand[p] /\ hand'[p][x] = hand[p][x]
  <2>1. /\ DOMAIN Without(hand[p], S) = DOMAIN hand[p] \ S
        /\ \A x \in DOMAIN hand[p] \ S : Without(hand[p], S)[x] = hand[p][x]
    BY <1>2, WithoutParts
  <2> QED BY <1>1, <2>1
<1> QED BY <1>1, <1>3 DEF CopiesAreCurrent, Publish

\* Every step keeps the copies current.
LEMMA NextCurrent == Shape /\ CopiesAreCurrent /\ [Next]_vars => CopiesAreCurrent'
<1> SUFFICES ASSUME Shape, CopiesAreCurrent, [Next]_vars PROVE CopiesAreCurrent'
  OBVIOUS
<1>1. CASE UNCHANGED vars \/ Subscribe \/ Drop \/ ApplyEvent \/ SnapshotFails
  <2>1. UNCHANGED <<db, hand, reply>> /\ doubtful \cap Pieces \subseteq doubtful'
    BY <1>1 DEF vars, Subscribe, Drop, ApplyEvent, SnapshotFails, Shape
  <2> QED BY <2>1, CurrentKept
<1>2. ASSUME NEW w \in Workers, NEW c \in Checks, FinalizeCheck(w, c) PROVE CopiesAreCurrent'
  BY <1>2, CommitCurrent DEF FinalizeCheck, Publishers, Pieces
<1>3. ASSUME NEW w \in Workers, WorkerReads(w) PROVE CopiesAreCurrent'
  BY <1>3, ReadCurrent DEF WorkerReads, Publishers
<1>4. ASSUME NEW w \in Workers, WorkerPublishes(w) PROVE CopiesAreCurrent'
  BY <1>4, PublishCurrent DEF WorkerPublishes, Publishers
<1>5. ASSUME NEW S \in SUBSET Pieces, ApiWrites(S) PROVE CopiesAreCurrent'
  BY <1>5, CommitCurrent DEF ApiWrites, Publishers
<1>6. CASE ApiReads
  <2>1. (IF "batch" \in Unread("api") THEN {"batch"} ELSE Unread("api")) \in SUBSET Unread("api")
    OBVIOUS
  <2> QED BY <1>6, <2>1, ReadCurrent DEF ApiReads, Publishers
<1>7. CASE ApiPublishes
  BY <1>7, PublishCurrent DEF ApiPublishes, Publishers
<1>8. ASSUME NEW x \in Pieces, WriteSilently(x) PROVE CopiesAreCurrent'
  <2>1. \A y \in Pieces \ {x} : db'[y] = db[y]
    BY <1>8, WriteShape DEF WriteSilently
  <2> QED BY <1>8, <2>1 DEF WriteSilently, CopiesAreCurrent
<1>9. ASSUME NEW p \in Publishers, PublicationFails(p) PROVE CopiesAreCurrent'
  BY <1>9, NothingParts DEF PublicationFails, Shape, CopiesAreCurrent
<1>10. CASE ReadSnapshot \/ SendSnapshot
  <2>1. UNCHANGED <<db, hand, reply>> /\ \E S : doubtful' = DoubtsAfterReading(S)
    BY <1>10 DEF ReadSnapshot, SendSnapshot
  <2> QED BY <2>1, DoubtEnds, CurrentKept
<1>11. CASE Fetch
  <2> DEFINE S == IF reply = Nothing THEN {"batch"} ELSE Checks
  <2>1. S \in SUBSET Pieces /\ UNCHANGED <<db, hand>> /\ doubtful' = DoubtsAfterReading(S)
    BY <1>11 DEF Fetch, Pieces
  <2>2. Copy(S) \in Messages /\ DOMAIN Copy(S) = S /\ \A x \in S : Copy(S)[x] = db[x]
    BY <2>1, CopyParts
  <2>3. reply' = Copy(S) \/ reply' = Over(Copy(S), reply)
    BY <1>11 DEF Fetch
  <2> HIDE DEF S
  <2>4. \A x \in Pieces \ doubtful' : x \notin doubtful \/ (x \in S /\ Agreed(x))
    BY <2>1, DoubtEnds
  <2>5. \A x \in DOMAIN reply' : \/ x \in S /\ reply'[x] = db[x]
                                 \/ x \in DOMAIN reply /\ reply'[x] = reply[x]
    <3>1. reply \in Messages
      BY DEF Shape
    <3>2. /\ DOMAIN Over(Copy(S), reply) = S \cup DOMAIN reply
          /\ \A x \in S : Over(Copy(S), reply)[x] = db[x]
          /\ \A x \in DOMAIN reply \ S : Over(Copy(S), reply)[x] = reply[x]
      BY <2>1, <3>1, FreshParts
    <3> QED BY <2>2, <2>3, <3>2
  <2> QED BY <2>1, <2>4, <2>5 DEF CopiesAreCurrent, Agreed
<1>12. CASE FetchArrives
  BY <1>12, NothingParts DEF FetchArrives, CopiesAreCurrent
<1>13. ASSUME NEW S \in SUBSET Checks, ApiWrites(S \cup {"batch"}) PROVE CopiesAreCurrent'
  BY <1>5, <1>13 DEF Pieces
<1>14. ASSUME ApiWrites({}) PROVE CopiesAreCurrent'
  BY <1>5, <1>14
<1> QED BY <1>1, <1>2, <1>3, <1>4, <1>6, <1>7, <1>8, <1>9, <1>10, <1>11, <1>12,
           <1>13, <1>14 DEF Next

-----------------------------------------------------------------------------
(* A piece that is not in doubt is followed *)

\* A commit hands what it wrote to its publisher.
LEMMA CommitFollowed ==
  ASSUME Shape, Followed, NEW p \in Publishers, NEW S \in SUBSET Pieces,
         NEW W \in SUBSET S, Commit(p, W, S)
  PROVE  Followed'
<1>1. \A x \in Pieces \ W : db'[x] = db[x]
  BY WriteShape DEF Commit
<1>2. /\ \A q \in Publishers : carries[q] \subseteq carries'[q]
      /\ carries'[p] = S
  BY DEF Commit, Shape
<1> SUFFICES ASSUME NEW x \in Pieces \ doubtful'
             PROVE  Carried(x)' \/ OnWire(x)' \/ (NotOnWire(x)' /\ AtPage(x)')
  BY DEF Followed
<1>3. CASE x \in W
  BY <1>2, <1>3 DEF Carried
<1>4. CASE x \notin W
  <2>1. db'[x] = db[x] /\ x \notin doubtful
    BY <1>1, <1>4 DEF Commit
  <2>2. CASE Carried(x)
    BY <1>2, <2>2 DEF Carried
  <2>3. CASE OnWire(x)
    BY <2>1, <2>3 DEF Commit, OnWire, CurrentFrom
  <2>4. CASE NotOnWire(x) /\ AtPage(x)
    BY <2>1, <2>4 DEF Commit, NotOnWire, AtPage
  <2> QED BY <2>1, <2>2, <2>3, <2>4 DEF Followed
<1> QED BY <1>3, <1>4

\* Publishing moves pieces from the publisher to the wire, unless nobody listens.
LEMMA PublishFollowed ==
  ASSUME Shape, CopiesAreCurrent, Followed,
         NEW p \in Publishers, NEW S \in SUBSET carries[p], Publish(p, S)
  PROVE  Followed'
<1>1. PICK m \in Messages :
        /\ DOMAIN m = S /\ \A x \in S : x \in DOMAIN hand[p] /\ m[x] = hand[p][x]
        /\ wire' = IF line = "off" THEN wire ELSE Append(wire, m)
  BY PublishParts
<1>2. \A q \in Publishers : carries'[q] = IF q = p THEN carries[p] \ S ELSE carries[q]
  BY DEF Publish, Shape
<1>3. UNCHANGED <<db, line, snapshot, view, reply, doubtful>>
  BY DEF Publish
<1> SUFFICES ASSUME NEW x \in Pieces \ doubtful
             PROVE  Carried(x)' \/ OnWire(x)' \/ (NotOnWire(x)' /\ AtPage(x)')
  BY <1>3 DEF Followed
<1>4. CASE line = "off"
  BY <1>1, <1>3, <1>4 DEF Shape, NotOnWire, AtPage, Nothing
<1>5. CASE line # "off"
  <2>1. wire' = Append(wire, m) /\ db' = db
    BY <1>1, <1>3, <1>5
  <2>2. x \in DOMAIN m => m[x] = db[x]
    BY <1>1 DEF CopiesAreCurrent
  <2>3. /\ OnWire(x) => OnWire(x)'
        /\ x \in DOMAIN m => OnWire(x)'
        /\ NotOnWire(x) /\ x \notin DOMAIN m => NotOnWire(x)'
    BY <2>1, <2>2, AppendKeeps
  <2>4. Carried(x) /\ x \notin DOMAIN m => Carried(x)'
    BY <1>1, <1>2 DEF Carried
  <2>5. AtPage(x) => AtPage(x)'
    BY <1>3 DEF AtPage
  <2> QED BY <2>3, <2>4, <2>5 DEF Followed
<1> QED BY <1>4, <1>5

\* The snapshot goes before the buffer and holds what the buffer does not.
LEMMA SnapshotFollowed ==
  ASSUME Shape, Followed, SendSnapshot
  PROVE  Followed'
<1> DEFINE m == Over(Copy(Checks), snapshot)
<1>1. /\ DOMAIN m = Pieces /\ \A x \in Checks : m[x] = db[x]
      /\ \A x \in Pieces \ Checks : x \in DOMAIN snapshot /\ m[x] = snapshot[x]
  <2>1. snapshot \in Messages /\ DOMAIN snapshot = {"batch"}
    BY NothingParts DEF SendSnapshot, Shape
  <2>2. Checks \in SUBSET Pieces
    BY DEF Pieces
  <2>3. /\ DOMAIN Over(Copy(Checks), snapshot) = Checks \cup DOMAIN snapshot
        /\ \A x \in Checks : Over(Copy(Checks), snapshot)[x] = db[x]
        /\ \A x \in DOMAIN snapshot \ Checks :
             Over(Copy(Checks), snapshot)[x] = snapshot[x]
    BY <2>1, <2>2, FreshParts
  <2> QED BY <2>1, <2>3 DEF Pieces
<1>2. wire' = <<m>> \o wire /\ UNCHANGED <<db, carries>>
  BY DEF SendSnapshot, Flushed
<1> HIDE DEF m
<1>3. /\ wire \in Seq(Messages) /\ Len(wire) \in Nat
      /\ DOMAIN wire = 1..Len(wire) /\ DOMAIN wire' = 1..(Len(wire) + 1)
      /\ \A i \in DOMAIN wire : i + 1 \in DOMAIN wire' /\ wire'[i + 1] = wire[i]
      /\ wire'[1] = m
  BY <1>2 DEF Shape
<1>4. \A j \in DOMAIN wire' : j = 1 \/ (j - 1 \in DOMAIN wire /\ wire'[j] = wire[j - 1])
  BY <1>3
<1> SUFFICES ASSUME NEW x \in Pieces \ doubtful' PROVE Carried(x)' \/ OnWire(x)'
  BY DEF Followed
<1>5. ASSUME m[x] = db[x],
             \A i \in DOMAIN wire : x \in DOMAIN wire[i] => wire[i][x] = db[x]
      PROVE  OnWire(x)'
  <2>1. 1 \in DOMAIN wire' /\ x \in DOMAIN wire'[1]
    BY <1>1, <1>3
  <2>2. \A j \in DOMAIN wire' : x \in DOMAIN wire'[j] => wire'[j][x] = db[x]
    BY <1>3, <1>4, <1>5
  <2>3. CurrentFrom(x, 1)'
    BY <1>2, <2>1, <2>2 DEF CurrentFrom
  <2> QED BY <2>1, <2>3 DEF OnWire
<1>6. CASE x \notin doubtful
  <2>1. CASE Carried(x)
    BY <1>2, <2>1 DEF Carried
  <2>2. CASE OnWire(x)
    <3>1. PICK i \in DOMAIN wire : CurrentFrom(x, i)
      BY <2>2 DEF OnWire
    <3>2. PICK k \in Nat : k = i + 1
      BY <1>3
    <3>3. \A j \in DOMAIN wire' : j >= k => j - 1 \in DOMAIN wire /\ j - 1 >= i
                                            /\ wire'[j] = wire[j - 1]
      BY <1>3, <1>4, <3>2
    <3>4. CurrentFrom(x, k)'
      BY <1>2, <1>3, <3>1, <3>2, <3>3 DEF CurrentFrom
    <3> QED BY <1>3, <3>2, <3>4 DEF OnWire
  <2>3. CASE NotOnWire(x) /\ AtPage(x)
    <3>1. m[x] = db[x]
      BY <1>1, <2>3 DEF AtPage
    <3> QED BY <1>5, <2>3, <3>1 DEF NotOnWire
  <2> QED BY <1>6, <2>1, <2>2, <2>3 DEF Followed
<1>7. CASE x \in doubtful
  <2>1. x \in Checks /\ Agreed(x)
    BY <1>7, DoubtEnds DEF SendSnapshot
  <2> QED BY <1>1, <1>5, <2>1 DEF Agreed
<1> QED BY <1>6, <1>7

\* An event takes its pieces from the wire to the view.
LEMMA ApplyFollowed ==
  ASSUME Shape, Followed, ApplyEvent
  PROVE  Followed'
<1> DEFINE m == wire[1]
<1>1. /\ wire \in Seq(Messages) /\ Len(wire) \in Nat \ {0} /\ m \in Messages
      /\ DOMAIN wire = 1..Len(wire) /\ DOMAIN wire' = 1..(Len(wire) - 1)
      /\ \A j \in DOMAIN wire' : j + 1 \in DOMAIN wire /\ wire'[j] = wire[j + 1]
  BY DEF ApplyEvent, Shape
<1>2. view' = Over(m, view) /\ UNCHANGED <<db, carries, line, snapshot, reply, doubtful>>
  BY DEF ApplyEvent, Merged
<1> HIDE DEF m
<1> SUFFICES ASSUME NEW x \in Pieces \ doubtful
             PROVE  Carried(x)' \/ OnWire(x)' \/ (NotOnWire(x)' /\ AtPage(x)')
  BY <1>2 DEF Followed
<1>3. view'[x] = IF x \in DOMAIN m THEN m[x] ELSE view[x]
  BY <1>2 DEF Over, Shape
<1>4. CASE Carried(x)
  BY <1>2, <1>4 DEF Carried
<1>5. CASE OnWire(x)
  <2>1. PICK i \in DOMAIN wire : CurrentFrom(x, i)
    BY <1>5 DEF OnWire
  <2>2. ASSUME NEW j \in DOMAIN wire', x \in DOMAIN wire'[j], j + 1 >= i PROVE OnWire(x)'
    <3>1. \A k \in DOMAIN wire' : k >= j => k + 1 \in DOMAIN wire /\ k + 1 >= i
      BY <1>1, <2>2
    <3>2. CurrentFrom(x, j)'
      BY <1>1, <1>2, <2>1, <2>2, <3>1 DEF CurrentFrom
    <3> QED BY <3>2 DEF OnWire
  <2>3. CASE i > 1
    <3>1. i - 1 \in DOMAIN wire' /\ (i - 1) + 1 = i
      BY <1>1, <2>3
    <3> QED BY <1>1, <2>1, <2>2, <3>1 DEF CurrentFrom
  <2>4. CASE i = 1
    <3>1. view'[x] = db[x]
      BY <1>1, <1>3, <2>1, <2>4 DEF CurrentFrom, m
    <3>2. CASE \E j \in DOMAIN wire' : x \in DOMAIN wire'[j]
      BY <1>1, <2>2, <2>4, <3>2
    <3>3. CASE ~ \E j \in DOMAIN wire' : x \in DOMAIN wire'[j]
      BY <1>2, <3>1, <3>3 DEF ApplyEvent, Shape, Nothing, NotOnWire, AtPage
    <3> QED BY <3>2, <3>3
  <2> QED BY <1>1, <2>3, <2>4
<1>6. CASE NotOnWire(x) /\ AtPage(x)
  <2>1. NotOnWire(x)' /\ x \notin DOMAIN m
    BY <1>1, <1>6 DEF NotOnWire, m
  <2> QED BY <1>2, <1>3, <1>6, <2>1 DEF AtPage
<1> QED BY <1>4, <1>5, <1>6 DEF Followed

\* Every step follows the pieces.
LEMMA NextFollowed == IInv /\ [Next]_vars => Followed'
<1> SUFFICES ASSUME Shape, CopiesAreCurrent, Followed, [Next]_vars PROVE Followed'
  BY DEF IInv
<1>1. CASE UNCHANGED vars
  BY <1>1 DEF vars, Followed, Carried, OnWire, CurrentFrom, NotOnWire, AtPage
<1>2. ASSUME NEW w \in Workers, NEW c \in Checks, FinalizeCheck(w, c) PROVE Followed'
  <2>1. w \in Publishers /\ {"batch", c} \in SUBSET Pieces
    BY DEF Publishers, Pieces
  <2>2. PICK W \in SUBSET {"batch", c} : Commit(w, W, {"batch", c})
    BY <1>2 DEF FinalizeCheck
  <2> QED BY <2>1, <2>2, CommitFollowed
<1>3. ASSUME NEW p \in Publishers, NEW S, ReadPieces(p, S) PROVE Followed'
  BY <1>3 DEF ReadPieces, Followed, Carried, OnWire, CurrentFrom, NotOnWire, AtPage
<1>4. ASSUME NEW w \in Workers, WorkerReads(w) PROVE Followed'
  BY <1>3, <1>4 DEF WorkerReads, Publishers
<1>5. ASSUME NEW w \in Workers, WorkerPublishes(w) PROVE Followed'
  <2>1. w \in Publishers
    BY DEF Publishers
  <2>2. PICK S \in SUBSET carries[w] : Publish(w, S)
    BY <1>5 DEF WorkerPublishes
  <2> QED BY <2>1, <2>2, PublishFollowed
<1>6. ASSUME NEW S \in SUBSET Pieces, ApiWrites(S) PROVE Followed'
  <2>1. "api" \in Publishers /\ Pieces \in SUBSET Pieces
    BY DEF Publishers
  <2> QED BY <1>6, <2>1, CommitFollowed DEF ApiWrites
<1>7. CASE ApiReads
  BY <1>3, <1>7 DEF ApiReads, Publishers
<1>8. CASE ApiPublishes
  BY <1>8, PublishFollowed DEF ApiPublishes, Publishers
<1>9. ASSUME NEW x \in Pieces, WriteSilently(x) PROVE Followed'
  <2>1. \A y \in Pieces \ {x} : db'[y] = db[y]
    BY <1>9, WriteShape DEF WriteSilently
  <2>2. /\ UNCHANGED <<carries, line, snapshot, wire, view, reply>>
        /\ Pieces \ doubtful' \subseteq (Pieces \ doubtful) \ {x}
    BY <1>9 DEF WriteSilently
  <2> QED BY <2>1, <2>2 DEF Followed, Carried, OnWire, CurrentFrom, NotOnWire, AtPage
<1>10. ASSUME NEW p \in Publishers, PublicationFails(p) PROVE Followed'
  <2>1. \A x \in Pieces \ doubtful' : x \notin doubtful /\ x \notin carries[p]
    BY <1>10 DEF PublicationFails
  <2>2. \A q \in Publishers \ {p} : carries'[q] = carries[q]
    BY <1>10 DEF PublicationFails, Shape
  <2>3. UNCHANGED <<db, line, snapshot, wire, view, reply>>
    BY <1>10 DEF PublicationFails
  <2> QED BY <2>1, <2>2, <2>3
          DEF Followed, Carried, OnWire, CurrentFrom, NotOnWire, AtPage
<1>11. CASE Subscribe
  BY <1>11 DEF Subscribe, Followed, Carried, OnWire, CurrentFrom, NotOnWire, AtPage
<1>12. CASE ReadSnapshot
  <2> SUFFICES ASSUME NEW x \in Pieces \ doubtful'
               PROVE  Carried(x)' \/ OnWire(x)' \/ (NotOnWire(x)' /\ AtPage(x)')
    BY DEF Followed
  <2>1. AtPage(x)'
    <3>1. DOMAIN Copy({"batch"}) = {"batch"} /\ Copy({"batch"})["batch"] = db["batch"]
      BY CopyParts DEF Pieces
    <3> QED BY <1>12, <3>1 DEF ReadSnapshot, AtPage
  <2>2. UNCHANGED <<db, carries, wire>>
    BY <1>12 DEF ReadSnapshot
  <2>3. x \notin doubtful \/ Agreed(x)
    BY <1>12, DoubtEnds DEF ReadSnapshot
  <2> QED BY <2>1, <2>2, <2>3, AgreedIsFollowed
          DEF Followed, Carried, OnWire, CurrentFrom, NotOnWire
<1>13. CASE SendSnapshot
  BY <1>13, SnapshotFollowed
<1>14. CASE SnapshotFails
  BY <1>14 DEF SnapshotFails, Followed
<1>15. CASE Drop
  BY <1>15, NothingParts DEF Drop, Followed, NotOnWire, AtPage
<1>16. CASE ApplyEvent
  BY <1>16, ApplyFollowed
<1>17. CASE Fetch
  <2> DEFINE S == IF reply = Nothing THEN {"batch"} ELSE Checks
  <2> SUFFICES ASSUME NEW x \in Pieces \ doubtful'
               PROVE  Carried(x)' \/ OnWire(x)' \/ (NotOnWire(x)' /\ AtPage(x)')
    BY DEF Followed
  <2>1. UNCHANGED <<db, carries, line, snapshot, wire, view>>
    BY <1>17 DEF Fetch
  <2>2. S \cup DOMAIN reply \subseteq DOMAIN reply'
    <3>1. reply \in Messages /\ Checks \in SUBSET Pieces
      BY DEF Shape, Pieces
    <3>2. /\ DOMAIN Copy({"batch"}) = {"batch"}
          /\ DOMAIN Over(Copy(Checks), reply) = Checks \cup DOMAIN reply
      BY <3>1, CopyParts, FreshParts DEF Pieces
    <3> QED BY <1>17, <3>2, NothingParts DEF Fetch
  <2>3. x \notin doubtful \/ (x \in S /\ Agreed(x))
    BY <1>17, DoubtEnds DEF Fetch
  <2> HIDE DEF S
  <2>4. x \notin doubtful /\ AtPage(x) => AtPage(x)'
    BY <2>1, <2>2 DEF AtPage
  <2>5. x \in S /\ Agreed(x) => AtPage(x)'
    BY <2>1, <2>2 DEF AtPage, Agreed
  <2> QED BY <2>1, <2>3, <2>4, <2>5, AgreedIsFollowed
          DEF Followed, Carried, OnWire, CurrentFrom, NotOnWire
<1>18. CASE FetchArrives
  BY <1>18 DEF FetchArrives, CopiesAreCurrent, Followed, Carried, OnWire, CurrentFrom,
               NotOnWire, AtPage
<1>19. ASSUME NEW S \in SUBSET Checks, ApiWrites(S \cup {"batch"}) PROVE Followed'
  BY <1>6, <1>19 DEF Pieces
<1>20. ASSUME ApiWrites({}) PROVE Followed'
  BY <1>6, <1>20
<1> QED BY <1>1, <1>2, <1>4, <1>5, <1>7, <1>8, <1>9, <1>10, <1>11, <1>12, <1>13,
           <1>14, <1>15, <1>16, <1>17, <1>18, <1>19, <1>20 DEF Next

\* Every step of publishers, route and page keeps the invariant.
LEMMA NextIInv == IInv /\ [Next]_vars => IInv'
BY NextShape, NextCurrent, NextFollowed DEF IInv

\* A connected page that has received everything shows the database, but for
\* the pieces in doubt: a write is with its publisher, on the wire behind all
\* older copies, or was read for the page after it was subscribed.
THEOREM PageCatchesUp == Spec => []NothingMissed
<1>1. IInv => NothingMissed
  <2> SUFFICES ASSUME IInv, Quiet, NEW x \in Pieces \ doubtful PROVE view[x] = db[x]
    BY DEF NothingMissed
  <2>1. ~Carried(x) /\ ~OnWire(x) /\ x \notin DOMAIN reply
    BY NothingParts DEF Quiet, Carried, OnWire
  <2> QED BY <2>1 DEF IInv, Followed, AtPage, Quiet
<1> QED BY <1>1, InitIInv, NextIInv, PTL DEF Spec

\* What the page does not show yet is on its way to it.
THEOREM LastWordIsCurrent == Spec => []CurrentIsComing
<1>1. IInv => CurrentIsComing
  <2> SUFFICES ASSUME IInv, NEW x \in Pieces \ doubtful, line = "live", view[x] # db[x],
                      ~Carried(x), ~(x \in DOMAIN reply /\ reply[x] = db[x])
               PROVE  \E i \in DOMAIN wire : x \in DOMAIN wire[i] /\ wire[i][x] = db[x]
    BY DEF CurrentIsComing, Carried
  <2>1. x \notin DOMAIN reply
    BY DEF IInv, CopiesAreCurrent
  <2>2. PICK i \in DOMAIN wire : CurrentFrom(x, i)
    BY <2>1 DEF IInv, Followed, AtPage, OnWire
  <2>3. i >= i
    BY DEF IInv, Shape
  <2> QED BY <2>2, <2>3 DEF CurrentFrom
<1> QED BY <1>1, InitIInv, NextIInv, PTL DEF Spec

=============================================================================
