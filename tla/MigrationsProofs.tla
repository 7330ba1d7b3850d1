-------------------------- MODULE MigrationsProofs --------------------------
(***************************************************************************)
(* The schema is recorded, applied in order, and an instance only fails    *)
(* where another has overtaken it: for any number of instances, files,     *)
(* crashes and restarts.                                                   *)
(*                                                                         *)
(* The argument: an instance has the files before its own behind it, and   *)
(* the one whose SQL holds the locks is alone and its file not applied.    *)
(***************************************************************************)
EXTENDS Migrations, TLAPS

Places == {"off", "look", "create", "check", "sql", "insert", "commit",
           "done", "refused", "failed", "broken"}

Types ==
  /\ recorded \subseteq Files /\ applied \subseteq Files
  /\ at \in [Instances -> Places] /\ turn \in [Instances -> Files]

\* An instance has applied, or found applied, what comes before its file.
PastIsRecorded ==
  \A i \in Instances :
    /\ at[i] \in {"look", "create"} => turn[i] = 1
    /\ at[i] \in {"check", "sql", "insert", "commit"} => \A f \in Files : f < turn[i] => f \in recorded

\* The locks keep the SQL of two instances apart.
HolderIsAlone ==
  /\ \A i, j \in Holders : i = j
  /\ \A i \in Holders : turn[i] \notin applied

IInv == /\ Types /\ PastIsRecorded /\ HolderIsAlone
        /\ SchemaIsRecorded /\ AppliedInOrder /\ FailedWasOvertaken

-----------------------------------------------------------------------------
\* Initially nothing is applied and nobody has started.
LEMMA InitIInv == Init => IInv
BY MigrationsAssumption
   DEF Init, IInv, Types, Files, Places, PastIsRecorded, HolderIsAlone, Holders,
       SchemaIsRecorded, AppliedInOrder, FailedWasOvertaken

\* Going on to the next file, when one's own is recorded, keeps what is said of
\* an instance.
LEMMA GoingOn ==
  ASSUME Types, PastIsRecorded, NEW i \in Instances, GoesOn(i), at[i] \in {"check", "commit"},
         recorded \subseteq recorded', recorded' \subseteq Files, turn[i] \in recorded'
  PROVE  /\ at' \in [Instances -> Places] /\ turn' \in [Instances -> Files]
         /\ PastIsRecorded'
         /\ \A j \in Instances \ {i} : at'[j] = at[j] /\ turn'[j] = turn[j]
         /\ at'[i] \in {"check", "done"}
<1> USE MigrationsAssumption DEF Files
<1>1. CASE turn[i] = Count
  BY <1>1 DEF GoesOn, Goes, Types, Places, PastIsRecorded
<1>2. CASE turn[i] # Count
  <2>1. /\ at' = [at EXCEPT ![i] = "check"]
        /\ turn' = [turn EXCEPT ![i] = turn[i] + 1]
        /\ turn[i] + 1 \in Files
    BY <1>2 DEF GoesOn, Goes, Types
  <2>2. \A f \in Files : f < turn[i] + 1 => f \in recorded'
    BY DEF PastIsRecorded, Types
  <2> QED BY <2>1, <2>2 DEF Types, Places, PastIsRecorded
<1> QED BY <1>1, <1>2

\* Every step keeps the invariant.
LEMMA NextIInv == IInv /\ [Next]_vars => IInv'
<1> USE MigrationsAssumption DEF File, FileAt
<1> SUFFICES ASSUME IInv, [Next]_vars PROVE IInv'
  OBVIOUS
<1>0. /\ Types /\ PastIsRecorded /\ HolderIsAlone
      /\ SchemaIsRecorded /\ AppliedInOrder /\ FailedWasOvertaken
  BY DEF IInv
<1>1. CASE UNCHANGED vars
  BY <1>0, <1>1 DEF vars, IInv, Types, PastIsRecorded, HolderIsAlone, Holders,
                    SchemaIsRecorded, AppliedInOrder, FailedWasOvertaken
<1>2. ASSUME NEW i \in Instances, Start(i) PROVE IInv'
  BY <1>0, <1>2 DEF Start, Goes, IInv, Types, Files, Places, PastIsRecorded, HolderIsAlone,
                    Holders, SchemaIsRecorded, AppliedInOrder, FailedWasOvertaken
<1>3. ASSUME NEW i \in Instances, LookForTable(i) \/ CreateTable(i) PROVE IInv'
  <2>1. PICK place \in {"create", "check", "refused"} :
          at' = [at EXCEPT ![i] = place] /\ UNCHANGED <<recorded, applied, turn>>
    BY <1>3 DEF LookForTable, CreateTable, Exits, Goes
  <2>2. turn[i] = 1 /\ Types'
    BY <1>0, <1>3, <2>1 DEF LookForTable, CreateTable, PastIsRecorded, Types, Places
  <2>3. PastIsRecorded'
    BY <1>0, <2>1, <2>2 DEF PastIsRecorded, Types, Files
  <2> QED BY <1>0, <2>1, <2>2, <2>3 DEF IInv, Types, HolderIsAlone, Holders,
             SchemaIsRecorded, AppliedInOrder, FailedWasOvertaken
<1>4. ASSUME NEW i \in Instances, Breaks(i) PROVE IInv'
  BY <1>0, <1>4 DEF Breaks, Exits, Goes, IInv, Types, Places, PastIsRecorded, HolderIsAlone,
                    Holders, SchemaIsRecorded, AppliedInOrder, FailedWasOvertaken
<1>5. ASSUME NEW i \in Instances, CheckFile(i) PROVE IInv'
  <2>1. CASE turn[i] \in recorded
    <3>1. GoesOn(i) /\ UNCHANGED <<recorded, applied>> /\ at[i] = "check"
      BY <1>5, <2>1 DEF CheckFile
    <3>2. /\ at' \in [Instances -> Places] /\ turn' \in [Instances -> Files]
          /\ PastIsRecorded'
          /\ \A j \in Instances \ {i} : at'[j] = at[j] /\ turn'[j] = turn[j]
          /\ at'[i] \in {"check", "done"}
      BY <1>0, <2>1, <3>1, GoingOn DEF Types
    <3> QED BY <1>0, <3>1, <3>2 DEF IInv, Types, HolderIsAlone, Holders, SchemaIsRecorded,
                                    AppliedInOrder, FailedWasOvertaken
  <2>2. CASE turn[i] \notin recorded
    BY <1>0, <1>5, <2>2 DEF CheckFile, Goes, IInv, Types, Places, PastIsRecorded, HolderIsAlone,
                            Holders, SchemaIsRecorded, AppliedInOrder, FailedWasOvertaken
  <2> QED BY <2>1, <2>2
<1>6. ASSUME NEW i \in Instances, RunSql(i) PROVE IInv'
  <2>1. CannotApply(turn[i]) => turn[i] \in recorded
    BY <1>0, <1>6 DEF RunSql, CannotApply, Types, Files, PastIsRecorded, SchemaIsRecorded
  <2>2. ~CannotApply(turn[i]) => turn[i] \notin applied
    BY DEF CannotApply
  <2> QED BY <1>0, <1>6, <2>1, <2>2
          DEF RunSql, Exits, Goes, IInv, Types, Places, PastIsRecorded, HolderIsAlone, Holders,
              SchemaIsRecorded, AppliedInOrder, FailedWasOvertaken
<1>7. ASSUME NEW i \in Instances, Record(i) PROVE IInv'
  BY <1>0, <1>7 DEF Record, Exits, Goes, IInv, Types, Places, PastIsRecorded, HolderIsAlone,
                    Holders, SchemaIsRecorded, AppliedInOrder, FailedWasOvertaken
<1>8. ASSUME NEW i \in Instances, Commit(i) PROVE IInv'
  <2>1. /\ GoesOn(i) /\ at[i] = "commit"
        /\ applied' = applied \cup {turn[i]} /\ recorded' = recorded \cup {turn[i]}
    BY <1>8 DEF Commit
  <2>2. /\ at' \in [Instances -> Places] /\ turn' \in [Instances -> Files]
        /\ PastIsRecorded'
        /\ \A j \in Instances \ {i} : at'[j] = at[j] /\ turn'[j] = turn[j]
        /\ at'[i] \in {"check", "done"}
    BY <1>0, <2>1, GoingOn DEF Types
  <2>3. Holders' = {} /\ Types'
    BY <1>0, <2>1, <2>2 DEF HolderIsAlone, Holders, Types
  <2>4. AppliedInOrder'
    BY <1>0, <2>1 DEF AppliedInOrder, PastIsRecorded, Types, Files
  <2>5. SchemaIsRecorded' /\ FailedWasOvertaken'
    BY <1>0, <2>1, <2>2 DEF SchemaIsRecorded, FailedWasOvertaken
  <2> QED BY <2>2, <2>3, <2>4, <2>5 DEF IInv, HolderIsAlone
<1> QED BY <1>1, <1>2, <1>3, <1>4, <1>5, <1>6, <1>7, <1>8 DEF Next, Step

-----------------------------------------------------------------------------
\* schema_migrations is what the database is, after any crashes.
THEOREM SchemaStaysRecorded == Spec => []SchemaIsRecorded
<1>1. IInv => SchemaIsRecorded
  BY DEF IInv
<1> QED BY <1>1, InitIInv, NextIInv, PTL DEF Spec

\* No file is skipped, whichever instance applies it.
THEOREM FilesInOrder == Spec => []AppliedInOrder
<1>1. IInv => AppliedInOrder
  BY DEF IInv
<1> QED BY <1>1, InitIInv, NextIInv, PTL DEF Spec

\* An instance that fails by itself wanted to apply what another has applied.
THEOREM FailuresAreOvertakings == Spec => []FailedWasOvertaken
<1>1. IInv => FailedWasOvertaken
  BY DEF IInv
<1> QED BY <1>1, InitIInv, NextIInv, PTL DEF Spec

=============================================================================
