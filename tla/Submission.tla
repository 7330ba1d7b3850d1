---------------------------- MODULE Submission ----------------------------
(***************************************************************************)
(* A batch is submitted: the page new/page.tsx, POST /api/batches and      *)
(* createBatch up to its commit.                                           *)
(*                                                                         *)
(* An entry is a text: a sequence of pieces, <<>> when empty.  The page    *)
(* sends pieces; other clients may send entries that hold several; a CSV   *)
(* file is a header and records of entries, which may be shorter than the  *)
(* header (relax_column_count).  A user whose submission ended in an error *)
(* may submit again.                                                       *)
(***************************************************************************)
EXTENDS UrlList, Naturals, FiniteSetsExt

CONSTANTS
  Texts,          \* what is pasted into the page
  Bodies,         \* the lists of entries other clients send
  Files,          \* the files uploaded
  MaxUrls,        \* MAX_URLS_PER_BATCH
  SchemaMax,      \* the longest list createBatchBodySchema accepts
  MaxSubmissions  \* bound: submissions

ASSUME SubmissionAssumption == {MaxUrls, SchemaMax, MaxSubmissions} \subseteq Nat

\* Header cells and kinds are text; entries are lists of pieces.
ASSUME InputsAssumption ==
  /\ Texts \subseteq Seq(Pieces)
  /\ Bodies \subseteq Seq(Seq(Pieces))
  /\ Files \subseteq [kind : STRING, header : Seq(STRING), records : Seq(Seq(Seq(Pieces)))]

VARIABLES
  page,     \* the page: "editing", "submitting" or "left"
  calls,    \* the requests, in the order of their submission
  batches,  \* the committed batches and their rows
  mishaps   \* replies lost, or errors after a commit

submissionVars == <<page, calls, batches, mishaps>>

Origins == {"paste", "json", "csv"}

\* The entries of a request, and what its sender wrote.
Request(from, content, entries) ==
  [from |-> from, content |-> content, entries |-> entries,
   stage |-> "route", outcome |-> "none"]

SubmissionInit == page = "editing" /\ calls = <<>> /\ batches = <<>> /\ mishaps = 0

-----------------------------------------------------------------------------
(* The page and other clients *)

CanSubmit == page = "editing"

Send(request) ==
  /\ Len(calls) < MaxSubmissions
  /\ calls' = Append(calls, request)
  /\ UNCHANGED <<batches, mishaps>>

\* handleSubmit in mode 'paste': a blank text is not sent, another is split
\* and trimmed, although nothing may be left of one that is all commas.
Paste(text) ==
  /\ CanSubmit
  /\ Lines(text) # <<>> \/ Len(text) > 1
  /\ page' = "submitting"
  /\ Send(Request("paste", text, [i \in DOMAIN Lines(text) |-> <<Lines(text)[i]>>]))

\* handleSubmit in mode 'csv'
Upload(file) ==
  /\ CanSubmit
  /\ page' = "submitting"
  /\ Send(Request("csv", file, <<>>))

PostJson(body) ==
  /\ Send(Request("json", body, body))
  /\ UNCHANGED page

-----------------------------------------------------------------------------
(* POST /api/batches *)

Goes(i, stage) == calls' = [calls EXCEPT ![i].stage = stage]

\* The request ends with a status: "created", "refused" (4xx) or "error" (500).
Ends(i, outcome) ==
  calls' = [calls EXCEPT ![i].stage = "answered", ![i].outcome = outcome]

\* The header cells that are "url" in some capitals.
UrlNames == {"url", "URL"}

\* extractUrlColumn: the keys known are those of the first record.
UrlColumn(file) ==
  LET known == DOMAIN file.header \cap DOMAIN file.records[1]
      named == {k \in known : file.header[k] \in UrlNames}
  IN  IF named = {} THEN 1 ELSE Min(named)

\* A record is an object: of columns with the same header cell the last counts.
UrlCell(file, record) ==
  LET columns == {k \in DOMAIN file.header \cap DOMAIN record :
                    file.header[k] = file.header[UrlColumn(file)]}
  IN  IF columns = {} THEN <<>> ELSE record[Max(columns)]

ExtractUrlColumn(file) ==
  Without([i \in DOMAIN file.records |-> UrlCell(file, file.records[i])], <<>>)

\* A file that is no CSV, too large, or cannot be parsed.
RefuseUpload(i) ==
  /\ calls[i].stage = "route" /\ calls[i].from = "csv"
  /\ calls[i].content.kind # "csv"
  /\ Ends(i, "refused")
  /\ UNCHANGED <<page, batches, mishaps>>

AcceptUpload(i) ==
  /\ calls[i].stage = "route" /\ calls[i].from = "csv"
  /\ calls[i].content.kind = "csv"
  /\ calls' = [calls EXCEPT ![i].stage = "counted",
                            ![i].entries = ExtractUrlColumn(calls[i].content)]
  /\ UNCHANGED <<page, batches, mishaps>>

\* createBatchBodySchema
MeetsSchema(entries) ==
  Len(entries) \in 1 .. SchemaMax /\ \A k \in DOMAIN entries : entries[k] # <<>>

CheckBody(i) ==
  /\ calls[i].stage = "route" /\ calls[i].from # "csv"
  /\ IF MeetsSchema(calls[i].entries) THEN Goes(i, "counted") ELSE Ends(i, "refused")
  /\ UNCHANGED <<page, batches, mishaps>>

\* Mutant of TooMany: off by one.
TooManyByOne(entries) == Len(entries) > MaxUrls + 1

TooMany(entries) == Len(entries) > MaxUrls

\* createBatch parses the entries joined by newlines, and refuses them when no
\* piece is valid.
Joined(entries) == FlattenSeq(entries)
List(i) == ParseUrlList(Joined(calls[i].entries))

CheckEntries(i) ==
  /\ calls[i].stage = "counted"
  /\ IF TooMany(calls[i].entries) \/ List(i).valid = <<>>
     THEN Ends(i, "refused")
     ELSE Goes(i, "parsed")
  /\ UNCHANGED <<page, batches, mishaps>>

-----------------------------------------------------------------------------
(* createBatch *)

\* UNIQUE (batch_id, normalized_url)
Conflicts(valid) ==
  \E j, k \in DOMAIN valid : j # k /\ valid[j].normalized = valid[k].normalized

NewBatch(i) ==
  [from  |-> calls[i].from,
   content |-> calls[i].content,
   total |-> Len(List(i).valid),
   rows  |-> [k \in DOMAIN List(i).valid |-> List(i).valid[k].normalized]]

\* The transaction commits the batch and all of its rows ...
Insert(i) ==
  /\ calls[i].stage = "parsed"
  /\ ~Conflicts(List(i).valid)
  /\ batches' = Append(batches, NewBatch(i))
  /\ Goes(i, "committed")
  /\ UNCHANGED <<page, mishaps>>

\* Mutant of InsertFails: no transaction, the rows inserted so far stay.
InsertFailsHalfway(i) ==
  /\ calls[i].stage = "parsed"
  /\ batches' = Append(batches, [NewBatch(i) EXCEPT !.rows = SubSeq(@, 1, Len(@) - 1)])
  /\ Ends(i, "error")
  /\ UNCHANGED <<page, mishaps>>

\* ... or rolls back, at a conflict or any other error.
InsertFails(i) ==
  /\ calls[i].stage = "parsed"
  /\ Ends(i, "error")
  /\ UNCHANGED <<page, batches, mishaps>>

\* The calls after the commit (enqueue, status, cache) all succeed ...
Complete(i) ==
  /\ calls[i].stage = "committed"
  /\ Ends(i, "created")
  /\ UNCHANGED <<page, batches, mishaps>>

\* ... or one throws, and the route answers 500 although the batch exists.
FailAfterCommit(i) ==
  /\ calls[i].stage = "committed"
  /\ Ends(i, "error")
  /\ mishaps' = mishaps + 1
  /\ UNCHANGED <<page, batches>>

-----------------------------------------------------------------------------
(* The answer *)

\* What the sender sees.  The page goes to the new batch, or shows the error
\* and can submit again.
Shows(i, outcome) ==
  /\ calls' = [calls EXCEPT ![i].stage = "done", ![i].outcome = outcome]
  /\ IF calls[i].from = "json" THEN UNCHANGED page
     ELSE page' = IF outcome = "created" THEN "left" ELSE "editing"
  /\ UNCHANGED batches

Answer(i) ==
  /\ calls[i].stage = "answered"
  /\ Shows(i, calls[i].outcome)
  /\ UNCHANGED mishaps

\* The connection breaks: fetch throws, whatever happened.
LoseAnswer(i) ==
  /\ calls[i].stage = "answered"
  /\ Shows(i, "error")
  /\ mishaps' = mishaps + (IF calls[i].outcome = "created" THEN 1 ELSE 0)

\* The user opens the page again for another batch.
Reopen == page = "left" /\ page' = "editing" /\ UNCHANGED <<calls, batches, mishaps>>

SubmissionNext ==
  \/ \E text \in Texts : Paste(text)
  \/ \E file \in Files : Upload(file)
  \/ \E body \in Bodies : PostJson(body)
  \/ \E i \in DOMAIN calls :
       \/ RefuseUpload(i) \/ AcceptUpload(i) \/ CheckBody(i) \/ CheckEntries(i)
       \/ Insert(i) \/ InsertFails(i) \/ Complete(i) \/ FailAfterCommit(i)
       \/ Answer(i) \/ LoseAnswer(i)
  \/ Reopen

SubmissionSpec == SubmissionInit /\ [][SubmissionNext]_submissionVars

-----------------------------------------------------------------------------
(* Properties *)

\* The pieces the sender wrote.  For a file: those of its first column "url", or
\* of its first column, in all of its records.
Column(file) ==
  LET named == {k \in DOMAIN file.header : file.header[k] \in UrlNames}
  IN  IF named = {} THEN 1 ELSE Min(named)

Meant(from, content) ==
  CASE from = "paste" -> content
    [] from = "json"  -> Joined(content)
    [] from = "csv"   -> Joined([i \in DOMAIN content.records |->
                                   IF Column(content) \in DOMAIN content.records[i]
                                   THEN content.records[i][Column(content)] ELSE <<>>])

\* The first record of the file reaches the column that is meant, and no other
\* column has the same header cell.
ColumnIsClear(content) ==
  content.records # <<>> =>
    /\ Column(content) \in DOMAIN content.header \cap DOMAIN content.records[1]
    /\ \A k \in DOMAIN content.header :
         content.header[k] = content.header[Column(content)] => k = Column(content)

\* What a piece means, in whatever spelling.
Meaning(p) ==
  LET u == WithScheme(p)
  IN  [scheme |-> u.scheme, host |-> u.host,
       port   |-> IF u.port # "none" THEN u.port ELSE IF u.scheme = "http" THEN "80" ELSE "443",
       path   |-> IF u.path = "none" THEN "/" ELSE u.path,
       query  |-> u.query]

\* The indexes of the valid pieces that no earlier piece is a spelling of.
FirstSpellings(text) ==
  {i \in DOMAIN text :
     Valid(text[i]) /\ \A j \in 1 .. i - 1 : Valid(text[j]) => Meaning(text[j]) # Meaning(text[i])}

\* The n-th of a set of numbers.
Nth(numbers, n) == CHOOSE i \in numbers : Cardinality({j \in numbers : j <= i}) = n

\* A batch has one row for each URL written, in the order written, however often
\* and in whatever spellings, its total is their number, and nothing valid is
\* left out: across page, route, parser and transaction, whatever fails.  For a
\* file this needs a first record that reaches the column of the URLs, and one
\* such column.
BatchIsWhatWasWritten ==
  \A k \in DOMAIN batches :
    LET b == batches[k]
        text == Meant(b.from, b.content)
        first == FirstSpellings(text)
    IN  \/ b.from = "csv" /\ ~ColumnIsClear(b.content)
        \/ /\ b.total = Cardinality(first) /\ Len(b.rows) = b.total
           /\ \A n \in DOMAIN b.rows : Meaning(b.rows[n]) = Meaning(text[Nth(first, n)])

\* A batch whose entries hold no commas or newlines has at most MaxUrls URLs.
\* So has every batch submitted by the page as text.  The route counts entries
\* before they are split, so others may be larger.
SplitBatchesAreLimited ==
  \A k \in DOMAIN batches :
    LET b == batches[k]
        split == \/ b.from = "paste"
                 \/ b.from = "json" /\ \A e \in DOMAIN b.content : Len(b.content[e]) = 1
    IN  split => b.total <= MaxUrls

\* The sender learns of every batch: there are exactly as many batches as
\* requests that ended with one or are about to, except for mishaps: an error
\* after the commit, or a lost answer.  An error before leaves nothing behind.
NoUnknownBatches ==
  Len(batches) = mishaps
                 + Quantify(DOMAIN calls, LAMBDA i : calls[i].stage = "committed"
                                                     \/ calls[i].outcome = "created")

=============================================================================
