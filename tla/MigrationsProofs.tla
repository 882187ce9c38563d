-------------------------- MODULE MigrationsProofs --------------------------
(***************************************************************************)
(* Proofs about Migrations for any number of processes and any list of     *)
(* migrations: the schema and the bookkeeping always agree, and a process  *)
(* whose open succeeded works on the complete schema.                      *)
(***************************************************************************)
EXTENDS Migrations, TLAPS

Inside(o) == pc[o] \in {"check", "begin", "run", "open"}

(* What the writer has executed of its migration. *)
Executed(o) == {Statements(o)[i] : i \in 1..done[o]}

(* The writer's copy is the file plus what it has executed, and it has      *)
(* executed something only of a migration that is not recorded: the first   *)
(* statement of a recorded one fails.                                       *)
Writing(o) ==
    /\ next[o] \in 1..Len(Names)
    /\ done[o] \in 0..Len(Statements(o))
    /\ copy = [schema |-> schema \cup Executed(o), versions |-> versions]
    /\ done[o] > 0 => Names[next[o]] \notin versions

WriterInv == \A o \in Openers : pc[o] = "run" => Writing(o)

(* A process has left behind only migrations that are recorded. *)
ProgressInv ==
    \A o \in Openers : Inside(o) =>
        /\ \A i \in 1..(next[o] - 1) : Names[i] \in versions
        /\ pc[o] = "begin" => next[o] <= Len(Names) /\ done[o] = 0
        /\ pc[o] = "open" => next[o] > Len(Names)

IInv == TypeOK /\ RecordedIffApplied /\ WriterInv /\ ProgressInv

-----------------------------------------------------------------------------

LEMMA NamesType == Len(Names) \in Nat /\ \A i \in 1..Len(Names) : Names[i] \in AllNames
  BY MigrationsAssumption DEF AllNames

LEMMA StatementType ==
    ASSUME NEW i \in 1..Len(Names), NEW k \in 1..Len(Creates[Names[i]])
    PROVE  /\ Creates[Names[i]][k] \in ObjectsOf(Names[i])
           /\ Creates[Names[i]][k] \in AllObjects
<1>1. Names[i] \in DOMAIN Creates
  BY MigrationsAssumption
<1>2. k \in DOMAIN Creates[Names[i]]
  BY <1>1, MigrationsAssumption
<1> QED
  BY <1>2, NamesType DEF ObjectsOf, AllObjects

(* Two migrations have no object in common. *)
LEMMA ObjectsDisjoint ==
    ASSUME NEW m \in AllNames, NEW n \in AllNames, m # n
    PROVE  ObjectsOf(m) \cap ObjectsOf(n) = {}
<1>1. AllNames = DOMAIN Creates
  BY MigrationsAssumption DEF AllNames
<1> QED
  BY <1>1, MigrationsAssumption DEF ObjectsOf

LEMMA ObjectsIndexed ==
    ASSUME NEW m \in AllNames
    PROVE  /\ Len(Creates[m]) \in Nat \ {0}
           /\ ObjectsOf(m) = {Creates[m][i] : i \in 1..Len(Creates[m])}
<1>1. AllNames = DOMAIN Creates
  BY MigrationsAssumption DEF AllNames
<1>2. Creates[m] \in Seq(STRING) /\ Creates[m] # <<>>
  BY <1>1, MigrationsAssumption
<1> QED
  BY <1>2 DEF ObjectsOf

LEMMA InitIInv == Init => IInv
<1> SUFFICES ASSUME Init PROVE IInv
  OBVIOUS
<1>1. TypeOK
  BY NamesType, MigrationsAssumption DEF Init, TypeOK, Committed
<1>2. RecordedIffApplied /\ WriterInv /\ ProgressInv
  BY DEF Init, RecordedIffApplied, WriterInv, ProgressInv, Inside
<1> QED
  BY <1>1, <1>2 DEF IInv

(* A step that leaves the file and the writer alone. *)
LEMMA WriterUntouched ==
    ASSUME WriterInv, UNCHANGED <<schema, versions, copy>>,
           \A q \in Openers : pc'[q] = "run" =>
               pc[q] = "run" /\ next'[q] = next[q] /\ done'[q] = done[q]
    PROVE  WriterInv'
<1> SUFFICES ASSUME NEW q \in Openers, pc'[q] = "run"
             PROVE  Writing(q)'
  BY DEF WriterInv
<1>1. Statements(q)' = Statements(q)
  BY DEF Statements
<1>2. Executed(q)' = Executed(q)
  BY DEF Executed, Statements
<1> QED
  BY <1>1, <1>2 DEF WriterInv, Writing

LEMMA NextIInv == IInv /\ [Next]_vars => IInv'
<1> SUFFICES ASSUME IInv, [Next]_vars PROVE IInv'
  OBVIOUS
<1> USE NamesType DEF IInv, Goto
<1>1. ASSUME NEW o \in Openers, Open(o) PROVE IInv'
  <2>1. TypeOK'
    <3>1. pc' = [pc EXCEPT ![o] = "check"] /\ pc[o] # "run"
      BY <1>1 DEF Open
    <3> QED
      BY <1>1, <3>1 DEF Open, TypeOK
  <2>2. RecordedIffApplied'
    BY <1>1 DEF Open, RecordedIffApplied
  <2>3. WriterInv'
    BY <1>1, WriterUntouched DEF Open, TypeOK
  <2>4. ProgressInv'
    BY <1>1 DEF Open, ProgressInv, TypeOK, Inside
  <2> QED
    BY <2>1, <2>2, <2>3, <2>4
<1>2. ASSUME NEW o \in Openers, AlreadyApplied(o) PROVE IInv'
  <2>1. TypeOK'
    BY <1>2 DEF AlreadyApplied, TypeOK
  <2>2. RecordedIffApplied'
    BY <1>2 DEF AlreadyApplied, RecordedIffApplied
  <2>3. WriterInv'
    BY <1>2, WriterUntouched DEF AlreadyApplied, TypeOK
  <2>4. ProgressInv'
    BY <1>2 DEF AlreadyApplied, ProgressInv, TypeOK, Inside
  <2> QED
    BY <2>1, <2>2, <2>3, <2>4
<1>3. ASSUME NEW o \in Openers, NotApplied(o) PROVE IInv'
  <2>1. TypeOK'
    BY <1>3 DEF NotApplied, TypeOK
  <2>2. RecordedIffApplied'
    BY <1>3 DEF NotApplied, RecordedIffApplied
  <2>3. WriterInv'
    BY <1>3, WriterUntouched DEF NotApplied, TypeOK
  <2>4. ProgressInv'
    BY <1>3 DEF NotApplied, ProgressInv, TypeOK, Inside
  <2> QED
    BY <2>1, <2>2, <2>3, <2>4
<1>4. ASSUME NEW o \in Openers, BeginTransaction(o) PROVE IInv'
  <2>1. TypeOK'
    BY <1>4, MigrationsAssumption DEF BeginTransaction, TypeOK, Committed
  <2>2. RecordedIffApplied'
    BY <1>4 DEF BeginTransaction, RecordedIffApplied
  <2>3. WriterInv'
    <3>1. /\ next[o] \in 1..Len(Names) /\ done[o] = 0
          /\ Names[next[o]] \in AllNames
      BY <1>4 DEF BeginTransaction, ProgressInv, TypeOK, Inside
    <3>2. Len(Statements(o)) \in Nat
      BY <3>1, ObjectsIndexed DEF Statements
    <3>3. Executed(o) = {}
      BY <3>1 DEF Executed
    <3>4. \A q \in Openers : pc'[q] = "run" => q = o
      BY <1>4, MigrationsAssumption DEF BeginTransaction, TypeOK
    <3>5. copy' = [schema |-> schema \cup Executed(o), versions |-> versions]
      BY <1>4, <3>3 DEF BeginTransaction, Committed
    <3>6. next' = next /\ done' = done /\ schema' = schema /\ versions' = versions
      BY <1>4 DEF BeginTransaction
    <3>7. Statements(o)' = Statements(o) /\ Executed(o)' = Executed(o)
      BY <3>6 DEF Statements, Executed
    <3>8. Writing(o)'
      BY <3>1, <3>2, <3>5, <3>6, <3>7 DEF Writing
    <3> QED
      BY <3>4, <3>8 DEF WriterInv
  <2>4. ProgressInv'
    BY <1>4 DEF BeginTransaction, ProgressInv, TypeOK, Inside
  <2> QED
    BY <2>1, <2>2, <2>3, <2>4
<1>5. ASSUME NEW o \in Openers, OpenFails(o) PROVE IInv'
  <2>1. TypeOK'
    BY <1>5, MigrationsAssumption DEF OpenFails, TypeOK
  <2>2. RecordedIffApplied'
    BY <1>5 DEF OpenFails, RecordedIffApplied
  <2>3. WriterInv'
    BY <1>5, WriterUntouched DEF OpenFails, TypeOK
  <2>4. ProgressInv'
    BY <1>5 DEF OpenFails, ProgressInv, TypeOK, Inside
  <2> QED
    BY <2>1, <2>2, <2>3, <2>4
<1>6. ASSUME NEW o \in Openers, RunStatement(o) PROVE IInv'
  <2> DEFINE s == Statements(o)[done[o] + 1]
  <2>1. /\ pc[o] = "run" /\ pc' = pc /\ next' = next
        /\ next[o] \in 1..Len(Names) /\ Names[next[o]] \in AllNames
        /\ done[o] \in Nat /\ done[o] < Len(Statements(o)) /\ Len(Statements(o)) \in Nat
        /\ done' = [done EXCEPT ![o] = done[o] + 1]
        /\ s \notin copy.schema
        /\ copy = [schema |-> schema \cup Executed(o), versions |-> versions]
        /\ copy' = [schema |-> copy.schema \cup {s}, versions |-> versions]
    <3>1. next[o] \in 1..Len(Names) /\ pc[o] = "run" /\ pc' = pc
      BY <1>6 DEF RunStatement, WriterInv, Writing, TypeOK
    <3>2. Len(Statements(o)) \in Nat
      BY <3>1, ObjectsIndexed DEF Statements
    <3>3. copy = [schema |-> schema \cup Executed(o), versions |-> versions]
      BY <3>1 DEF WriterInv, Writing
    <3>4. done[o] \in Nat
      BY DEF TypeOK
    <3> QED
      BY <1>6, <3>1, <3>2, <3>3, <3>4 DEF RunStatement
  <2>2. s \in ObjectsOf(Names[next[o]]) /\ s \in AllObjects
    BY <2>1, StatementType DEF Statements
  <2>3. Executed(o)' = Executed(o) \cup {s}
    <3>1. done'[o] = done[o] + 1 /\ Statements(o)' = Statements(o)
      BY <2>1 DEF TypeOK, Statements
    <3>2. 1..(done[o] + 1) = 1..done[o] \cup {done[o] + 1}
      BY <2>1
    <3> QED
      BY <3>1, <3>2 DEF Executed
  <2>4. Names[next[o]] \notin versions
    BY <2>1, <2>2 DEF RecordedIffApplied
  <2> HIDE DEF s
  <2>5. TypeOK'
    BY <1>6, <2>1, <2>2 DEF RunStatement, TypeOK
  <2>6. RecordedIffApplied'
    BY <1>6 DEF RunStatement, RecordedIffApplied
  <2>7. WriterInv'
    <3>1. \A q \in Openers : pc'[q] = "run" => q = o
      BY <2>1 DEF TypeOK
    <3>2. done'[o] = done[o] + 1 /\ Statements(o)' = Statements(o)
      BY <2>1 DEF TypeOK, Statements
    <3>3. schema' = schema /\ versions' = versions
      BY <1>6 DEF RunStatement
    <3>4. Writing(o)'
      <4>1. next'[o] \in 1..Len(Names) /\ Names[next'[o]] \notin versions'
        BY <2>1, <2>4, <3>3
      <4>2. done'[o] \in 0..Len(Statements(o)')
        BY <2>1, <3>2
      <4>3. copy' = [schema |-> schema' \cup Executed(o)', versions |-> versions']
        <5>1. copy'.schema = (schema \cup Executed(o)) \cup {s} /\ copy'.versions = versions
          BY <2>1
        <5>2. copy' = [schema |-> copy'.schema, versions |-> copy'.versions]
          BY <2>1
        <5> QED
          BY <2>3, <3>3, <5>1, <5>2
      <4> QED
        BY <4>1, <4>2, <4>3 DEF Writing
    <3> QED
      BY <3>1, <3>4 DEF WriterInv
  <2>8. ProgressInv'
    BY <1>6, <2>1 DEF RunStatement, ProgressInv, TypeOK, Inside
  <2> QED
    BY <2>5, <2>6, <2>7, <2>8
<1>7. ASSUME NEW o \in Openers, StatementFails(o) PROVE IInv'
  <2>1. TypeOK'
    BY <1>7, MigrationsAssumption DEF StatementFails, TypeOK
  <2>2. RecordedIffApplied'
    BY <1>7 DEF StatementFails, RecordedIffApplied
  <2>3. WriterInv'
    BY <1>7, WriterUntouched DEF StatementFails, TypeOK
  <2>4. ProgressInv'
    BY <1>7 DEF StatementFails, ProgressInv, TypeOK, Inside
  <2> QED
    BY <2>1, <2>2, <2>3, <2>4
<1>8. ASSUME NEW o \in Openers, CommitMigration(o) PROVE IInv'
  <2> DEFINE m == Names[next[o]]
  <2>1. /\ pc[o] = "run" /\ pc' = [pc EXCEPT ![o] = "check"]
        /\ next[o] \in 1..Len(Names) /\ m \in AllNames
        /\ next' = [next EXCEPT ![o] = next[o] + 1]
        /\ writer' = None /\ done' = done /\ copy' = copy
    BY <1>8 DEF CommitMigration, WriterInv, Writing, TypeOK
  <2>2. done[o] = Len(Creates[m]) /\ Len(Creates[m]) \in Nat \ {0}
    BY <1>8, <2>1, ObjectsIndexed DEF CommitMigration, Statements
  <2>3. Executed(o) = ObjectsOf(m)
    BY <2>1, <2>2, ObjectsIndexed DEF Executed, Statements
  <2>4. m \notin versions
    BY <2>1, <2>2 DEF WriterInv, Writing
  <2>5. schema' = schema \cup ObjectsOf(m) /\ versions' = versions \cup {m}
    BY <1>8, <2>1, <2>3 DEF CommitMigration, WriterInv, Writing
  <2> HIDE DEF m
  <2>6. TypeOK'
    <3>1. ObjectsOf(m) \subseteq AllObjects
      BY <2>1 DEF AllObjects
    <3> QED
      BY <2>1, <2>5, <3>1, MigrationsAssumption DEF TypeOK
  <2>7. RecordedIffApplied'
    <3> SUFFICES ASSUME NEW n \in AllNames
                 PROVE  IF n \in versions' THEN ObjectsOf(n) \subseteq schema'
                                           ELSE ObjectsOf(n) \cap schema' = {}
      BY DEF RecordedIffApplied
    <3>1. CASE n = m
      BY <2>5, <3>1
    <3>2. CASE n # m
      BY <2>1, <2>5, <3>2, ObjectsDisjoint DEF RecordedIffApplied
    <3> QED
      BY <3>1, <3>2
  <2>8. WriterInv'
    <3>1. \A q \in Openers : pc'[q] # "run"
      BY <2>1, <2>6, MigrationsAssumption DEF TypeOK
    <3> QED
      BY <3>1 DEF WriterInv
  <2>9. ProgressInv'
    <3> SUFFICES ASSUME NEW q \in Openers, Inside(q)'
                 PROVE  /\ \A i \in 1..(next'[q] - 1) : Names[i] \in versions'
                        /\ pc'[q] = "begin" => next'[q] <= Len(Names) /\ done'[q] = 0
                        /\ pc'[q] = "open" => next'[q] > Len(Names)
      BY DEF ProgressInv
    <3>1. CASE q = o
      <4>1. next'[q] = next[o] + 1 /\ pc'[q] = "check"
        BY <2>1, <3>1 DEF TypeOK
      <4>2. \A i \in 1..(next[o] - 1) : Names[i] \in versions
        BY <2>1 DEF ProgressInv, Inside
      <4> QED
        BY <2>1, <2>5, <4>1, <4>2 DEF m
    <3>2. CASE q # o
      BY <2>1, <2>5, <3>2 DEF ProgressInv, Inside, TypeOK
    <3> QED
      BY <3>1, <3>2
  <2> QED
    BY <2>6, <2>7, <2>8, <2>9
<1>9. ASSUME NEW o \in Openers, Opened(o) PROVE IInv'
  <2>1. TypeOK'
    BY <1>9 DEF Opened, TypeOK
  <2>2. RecordedIffApplied'
    BY <1>9 DEF Opened, RecordedIffApplied
  <2>3. WriterInv'
    BY <1>9, WriterUntouched DEF Opened, TypeOK
  <2>4. ProgressInv'
    BY <1>9 DEF Opened, ProgressInv, TypeOK, Inside
  <2> QED
    BY <2>1, <2>2, <2>3, <2>4
<1>10. ASSUME NEW o \in Openers, Crash(o) PROVE IInv'
  <2>1. TypeOK'
    BY <1>10, MigrationsAssumption DEF Crash, TypeOK
  <2>2. RecordedIffApplied'
    BY <1>10 DEF Crash, RecordedIffApplied
  <2>3. WriterInv'
    BY <1>10, WriterUntouched DEF Crash, TypeOK
  <2>4. ProgressInv'
    BY <1>10 DEF Crash, ProgressInv, TypeOK, Inside
  <2> QED
    BY <2>1, <2>2, <2>3, <2>4
<1>11. CASE UNCHANGED vars
  BY <1>11 DEF vars, TypeOK, RecordedIffApplied, WriterInv, Writing, ProgressInv, Inside,
     Statements, Executed
<1> QED
  BY <1>1, <1>2, <1>3, <1>4, <1>5, <1>6, <1>7, <1>8, <1>9, <1>10, <1>11 DEF Next, Work

(* A process that was let through has passed every migration. *)
LEMMA OpenIsLast == IInv => OpenIsMigrated
<1> SUFFICES ASSUME IInv, NEW o \in Openers, pc[o] = "open" PROVE versions = AllNames
  BY DEF OpenIsMigrated
<1>1. next[o] > Len(Names) /\ \A i \in 1..(next[o] - 1) : Names[i] \in versions
  BY DEF IInv, ProgressInv, Inside
<1>2. \A i \in DOMAIN Names : Names[i] \in versions
  BY <1>1, NamesType, MigrationsAssumption DEF IInv, TypeOK
<1> QED
  BY <1>2 DEF AllNames, IInv, TypeOK

LEMMA SpecIInv == Spec => []IInv
  BY InitIInv, NextIInv, PTL DEF Spec

(* The tables, the ledger and the place each opener has reached stay within  *)
(* what the schema and its list of migrations allow, however the openers'   *)
(* statements interleave and wherever one of them dies.                     *)
THEOREM TypeCorrect == Spec => []TypeOK
<1>1. IInv => TypeOK
  BY DEF IInv
<1> QED
  BY <1>1, SpecIInv, PTL

(* The schema and _schema_versions agree in every reachable state.          *)
THEOREM RecordedIffAppliedHolds == Spec => []RecordedIffApplied
<1>1. IInv => RecordedIffApplied
  BY DEF IInv
<1> QED
  BY <1>1, SpecIInv, PTL

(* A process whose open succeeded never works on an older schema. *)
THEOREM OpenIsMigratedHolds == Spec => []OpenIsMigrated
  BY OpenIsLast, SpecIInv, PTL
=============================================================================
