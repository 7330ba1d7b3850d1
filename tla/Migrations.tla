----------------------------- MODULE Migrations -----------------------------
(***************************************************************************)
(* apps/api/src/db/migrate.ts: instances that start together, or again     *)
(* after one has stopped, apply the files of db/migrations.  One action is *)
(* one query.                                                              *)
(*                                                                         *)
(* Of the files' SQL: none can be applied twice, all need the tables of    *)
(* the first, and each takes locks (new names of the catalog, or ALTER     *)
(* TABLE url_checks) that make another instance's SQL wait for the end of  *)
(* the transaction.                                                        *)
(***************************************************************************)
EXTENDS Naturals, FiniteSets

CONSTANTS
  Instances,  \* processes that run main()
  Count,      \* the number of files
  MaxFaults   \* bound: crashes and failing queries

ASSUME MigrationsAssumption == Count \in Nat \ {0} /\ MaxFaults \in Nat

VARIABLES
  table,     \* schema_migrations exists
  recorded,  \* the files in it
  applied,   \* the files whose SQL is committed
  at,        \* where each instance is
  turn,      \* which file each instance is at, as a position of the sorted list
  faults

vars == <<table, recorded, applied, at, turn, faults>>

Files == 1 .. Count

Init ==
  /\ table = FALSE /\ recorded = {} /\ applied = {}
  /\ at = [i \in Instances |-> "off"] /\ turn = [i \in Instances |-> 1]
  /\ faults = 0

Goes(i, place) == at' = [at EXCEPT ![i] = place]

\* Mutant of FileAt: the list is sorted the other way.
FileAtReversed(position) == Count + 1 - position

FileAt(position) == position

File(i) == FileAt(turn[i])

\* The next file, or the end.
GoesOn(i) ==
  IF turn[i] = Count THEN Goes(i, "done") /\ UNCHANGED turn
  ELSE Goes(i, "check") /\ turn' = [turn EXCEPT ![i] = turn[i] + 1]

\* A query throws: ROLLBACK, and main().catch exits.
Exits(i, place) == Goes(i, place) /\ UNCHANGED turn

Start(i) ==
  /\ at[i] \in {"off", "refused", "failed", "broken"}
  /\ Goes(i, "look")
  /\ turn' = [turn EXCEPT ![i] = 1]
  /\ UNCHANGED <<table, recorded, applied, faults>>

\* CREATE TABLE IF NOT EXISTS looks for the table and then makes it, which
\* fails if another session made it in between.
LookForTable(i) ==
  /\ at[i] = "look"
  /\ Goes(i, IF table THEN "check" ELSE "create")
  /\ UNCHANGED <<table, recorded, applied, turn, faults>>

CreateTable(i) ==
  /\ at[i] = "create"
  /\ table' = TRUE
  /\ Exits(i, IF table THEN "refused" ELSE "check")
  /\ UNCHANGED <<recorded, applied, faults>>

\* SELECT 1 FROM schema_migrations; BEGIN if there is none.
CheckFile(i) ==
  /\ at[i] = "check"
  /\ IF File(i) \in recorded THEN GoesOn(i) ELSE Goes(i, "sql") /\ UNCHANGED turn
  /\ UNCHANGED <<table, recorded, applied, faults>>

\* Instances that have run their SQL and not committed it.
Holders == {i \in Instances : at[i] \in {"insert", "commit"}}

CannotApply(file) == file \in applied \/ (file # 1 /\ 1 \notin applied)

\* Mutant of RunSql: the file's SQL commits by itself.
RunSqlAlone(i) ==
  /\ at[i] = "sql" /\ Holders = {}
  /\ IF CannotApply(File(i)) THEN Exits(i, "failed") /\ UNCHANGED applied
     ELSE Goes(i, "insert") /\ applied' = applied \cup {File(i)} /\ UNCHANGED turn
  /\ UNCHANGED <<table, recorded, faults>>

\* The SQL of the file waits for the locks and fails if it is applied by then.
RunSql(i) ==
  /\ at[i] = "sql" /\ Holders = {}
  /\ Exits(i, IF CannotApply(File(i)) THEN "failed" ELSE "insert")
  /\ UNCHANGED <<table, recorded, applied, faults>>

\* INSERT INTO schema_migrations
Record(i) ==
  /\ at[i] = "insert"
  /\ Exits(i, IF File(i) \in recorded THEN "failed" ELSE "commit")
  /\ UNCHANGED <<table, recorded, applied, faults>>

Commit(i) ==
  /\ at[i] = "commit"
  /\ applied' = applied \cup {File(i)}
  /\ recorded' = recorded \cup {File(i)}
  /\ GoesOn(i)
  /\ UNCHANGED <<table, faults>>

\* Mutant of Breaks: the error is reported and the next file is tried.
BreaksAndGoesOn(i) ==
  /\ at[i] \in {"sql", "insert", "commit"}
  /\ faults < MaxFaults
  /\ faults' = faults + 1
  /\ GoesOn(i)
  /\ UNCHANGED <<table, recorded, applied>>

\* The instance dies or a query of it fails for another reason: the open
\* transaction is rolled back.
Breaks(i) ==
  /\ at[i] \notin {"off", "refused", "failed", "broken", "done"}
  /\ faults < MaxFaults
  /\ faults' = faults + 1
  /\ Exits(i, "broken")
  /\ UNCHANGED <<table, recorded, applied>>

Step(i) == LookForTable(i) \/ CreateTable(i) \/ CheckFile(i) \/ RunSql(i) \/ Record(i) \/ Commit(i)

Next == \E i \in Instances : Start(i) \/ Step(i) \/ Breaks(i)

\* What has started goes on; somebody starts each instance at least once.
Fairness ==
  \A i \in Instances : WF_vars(Step(i)) /\ WF_vars(at[i] = "off" /\ Start(i))

Spec == Init /\ [][Next]_vars /\ Fairness

-----------------------------------------------------------------------------
(* Properties *)

\* The schema is what schema_migrations says, whoever died where: a later run
\* neither repeats nor skips a file.
SchemaIsRecorded == applied = recorded

\* Files are applied in their order, without gaps.
AppliedInOrder == \A f \in recorded : 1 .. f \subseteq recorded

\* An instance whose migration fails by itself was overtaken: the file it wanted
\* to apply is applied and recorded.  Running it again gets past that point.
FailedWasOvertaken == \A i \in Instances : at[i] = "failed" => File(i) \in recorded

\* Instances that start together fail one another, and still the schema gets
\* complete, without any of them being run again: the one that overtakes goes on.
SchemaGetsComplete == <>(recorded = Files \/ faults > 0)

=============================================================================
