----------------------------- MODULE Migrations -----------------------------
(***************************************************************************)
(* Store::open and run_migrations (bin/tracker/src/store.rs): bringing the *)
(* schema of the file up to date.  Nothing in the code keeps two processes *)
(* from opening the same file, and any of them may die between two         *)
(* statements.  SQLite gives one writer at a time a private copy of the    *)
(* schema, published by COMMIT; a second writer waits for the first, up to *)
(* its busy timeout.                                                       *)
(***************************************************************************)
EXTENDS Naturals, Sequences, FiniteSets

CONSTANTS
    Openers,    \* processes that open the file
    Names,      \* the migrations, in order
    Creates,    \* Creates[m]: the tables, indexes and columns m adds, in order
    None        \* no writer

ASSUME MigrationsAssumption ==
    /\ Names \in Seq(STRING)
    /\ \A i, j \in DOMAIN Names : Names[i] = Names[j] => i = j
    /\ DOMAIN Creates = {Names[i] : i \in DOMAIN Names}
    /\ \A m \in DOMAIN Creates : Creates[m] \in Seq(STRING) /\ Creates[m] # <<>>
    /\ \A m, n \in DOMAIN Creates : \A i \in DOMAIN Creates[m], j \in DOMAIN Creates[n] :
         Creates[m][i] = Creates[n][j] => m = n /\ i = j
    /\ None \notin Openers

VARIABLES
    schema,     \* the committed objects
    versions,   \* the committed rows of _schema_versions
    writer,     \* the process whose transaction holds the write lock, or None
    pc,         \* pc[o]: where opener o is
    next,       \* next[o]: the index in MIGRATIONS o looks at
    done,       \* done[o]: how many statements of it have been executed
    copy        \* the writer's copy: [schema, versions]

vars == <<schema, versions, writer, pc, next, done, copy>>

Committed == [schema |-> schema, versions |-> versions]
Statements(o) == Creates[Names[next[o]]]
AllNames == {Names[i] : i \in DOMAIN Names}
ObjectsOf(m) == {Creates[m][i] : i \in DOMAIN Creates[m]}
AllObjects == UNION {ObjectsOf(m) : m \in AllNames}

Init ==
    /\ schema = {}
    /\ versions = {}
    /\ writer = None
    /\ pc = [o \in Openers |-> "closed"]
    /\ next = [o \in Openers |-> 1]
    /\ done = [o \in Openers |-> 0]
    /\ copy = Committed

-----------------------------------------------------------------------------

Goto(o, here, there) == pc[o] = here /\ pc' = [pc EXCEPT ![o] = there]

(* Store::open: Connection::open, the pragmas, CREATE TABLE IF NOT EXISTS   *)
(* _schema_versions.                                                        *)
Open(o) ==
    /\ Goto(o, "closed", "check") \/ Goto(o, "failed", "check")
    /\ next' = [next EXCEPT ![o] = 1]
    /\ done' = [done EXCEPT ![o] = 0]
    /\ UNCHANGED <<schema, versions, writer, copy>>

(* The SELECT for this migration finds a row: `continue`. *)
AlreadyApplied(o) ==
    /\ Goto(o, "check", "check")
    /\ next[o] <= Len(Names)
    /\ Names[next[o]] \in versions
    /\ next' = [next EXCEPT ![o] = @ + 1]
    /\ UNCHANGED <<schema, versions, writer, done, copy>>

(* It finds none: the migration will be run, whatever happens in between. *)
NotApplied(o) ==
    /\ Goto(o, "check", "begin")
    /\ next[o] <= Len(Names)
    /\ Names[next[o]] \notin versions
    /\ done' = [done EXCEPT ![o] = 0]
    /\ UNCHANGED <<schema, versions, writer, next, copy>>

(* The first statement of the transaction takes the write lock. *)
BeginTransaction(o) ==
    /\ Goto(o, "begin", "run")
    /\ writer = None
    /\ writer' = o
    /\ copy' = Committed
    /\ UNCHANGED <<schema, versions, next, done>>

(* Variant: each statement of the migration commits on its own. *)
RunStatementAutocommit(o) ==
    /\ Goto(o, "run", "run")
    /\ done[o] < Len(Statements(o))
    /\ Statements(o)[done[o] + 1] \notin copy.schema
    /\ copy' = [copy EXCEPT !.schema = @ \cup {Statements(o)[done[o] + 1]}]
    /\ schema' = copy'.schema
    /\ done' = [done EXCEPT ![o] = @ + 1]
    /\ UNCHANGED <<versions, writer, next>>

(* One statement of execute_batch(sql). *)
RunStatement(o) ==
    /\ Goto(o, "run", "run")
    /\ done[o] < Len(Statements(o))
    /\ Statements(o)[done[o] + 1] \notin copy.schema
    /\ copy' = [copy EXCEPT !.schema = @ \cup {Statements(o)[done[o] + 1]}]
    /\ done' = [done EXCEPT ![o] = @ + 1]
    /\ UNCHANGED <<schema, versions, writer, next>>

(* What the next statement creates is there. *)
Collides(o) ==
    /\ done[o] < Len(Statements(o))
    /\ Statements(o)[done[o] + 1] \in copy.schema

(* Variant: the transaction is left open. *)
StatementFailsInTransaction(o) ==
    /\ Goto(o, "run", "failed")
    /\ Collides(o)
    /\ UNCHANGED <<schema, versions, writer, next, done, copy>>

(* "table already exists", "duplicate column name": the transaction is      *)
(* dropped, which rolls it back, and open fails.                            *)
StatementFails(o) ==
    /\ Goto(o, "run", "failed")
    /\ Collides(o)
    /\ writer' = None
    /\ UNCHANGED <<schema, versions, next, done, copy>>

(* Variant: the bookkeeping row is forgotten. *)
CommitMigrationUnrecorded(o) ==
    /\ Goto(o, "run", "check")
    /\ done[o] = Len(Statements(o))
    /\ schema' = copy.schema
    /\ versions' = copy.versions
    /\ writer' = None
    /\ next' = [next EXCEPT ![o] = @ + 1]
    /\ UNCHANGED <<done, copy>>

(* The bookkeeping INSERT and COMMIT. *)
CommitMigration(o) ==
    /\ Goto(o, "run", "check")
    /\ done[o] = Len(Statements(o))
    /\ schema' = copy.schema
    /\ versions' = copy.versions \cup {Names[next[o]]}
    /\ writer' = None
    /\ next' = [next EXCEPT ![o] = @ + 1]
    /\ UNCHANGED <<done, copy>>

(* Every migration has been seen to: the store is open. *)
Opened(o) ==
    /\ Goto(o, "check", "open")
    /\ next[o] > Len(Names)
    /\ UNCHANGED <<schema, versions, writer, next, done, copy>>

(* Any other statement of `open` may fail too, the first one included: the   *)
(* lock is not released within the busy timeout, the disk is full.  The      *)
(* transaction, if there is one, is dropped, which rolls it back.            *)
OpenFails(o) ==
    /\ pc[o] \in {"closed", "check", "begin", "run"}
    /\ pc[o] = "run" => ~Collides(o)
    /\ pc' = [pc EXCEPT ![o] = "failed"]
    /\ writer' = IF writer = o THEN None ELSE writer
    /\ UNCHANGED <<schema, versions, next, done, copy>>

(* The process dies; SQLite drops its lock and its uncommitted copy. *)
Crash(o) ==
    /\ pc[o] \notin {"closed", "failed"}
    /\ pc' = [pc EXCEPT ![o] = "closed"]
    /\ writer' = IF writer = o THEN None ELSE writer
    /\ UNCHANGED <<schema, versions, next, done, copy>>

-----------------------------------------------------------------------------

Work(o) ==
    \/ Open(o) \/ AlreadyApplied(o) \/ NotApplied(o) \/ BeginTransaction(o)
    \/ RunStatement(o) \/ StatementFails(o) \/ CommitMigration(o) \/ Opened(o)

Next == \E o \in Openers : Work(o) \/ OpenFails(o) \/ Crash(o)

Spec == Init /\ [][Next]_vars

(* A process that can take a step takes it; one that failed is started      *)
(* again.                                                                   *)
FairSpec == Spec /\ \A o \in Openers : WF_vars(Work(o))

-----------------------------------------------------------------------------

(* Every variable has its type, and the one process inside a transaction    *)
(* holds the lock.                                                          *)
TypeOK ==
    /\ schema \subseteq AllObjects
    /\ versions \subseteq AllNames
    /\ writer \in Openers \cup {None}
    /\ pc \in [Openers -> {"closed", "failed", "check", "begin", "run", "open"}]
    /\ next \in [Openers -> 1..(Len(Names) + 1)]
    /\ done \in [Openers -> Nat]
    /\ copy \in [schema : SUBSET AllObjects, versions : SUBSET AllNames]
    /\ \A o \in Openers : pc[o] = "run" <=> writer = o

(* A migration is recorded exactly when the whole of it is in the schema,   *)
(* and none is there in part: what the comment of store.rs:229-233 asks of  *)
(* the transaction, with any crash and any second process.                  *)
RecordedIffApplied ==
    \A m \in AllNames :
        IF m \in versions THEN ObjectsOf(m) \subseteq schema
                          ELSE ObjectsOf(m) \cap schema = {}

(* A process that was let through works on the complete schema, even when   *)
(* it skipped a migration another process ran.                              *)
OpenIsMigrated == \A o \in Openers : pc[o] = "open" => versions = AllNames

(* Losing the race for a migration, waiting in vain or dying half-way is    *)
(* never final: when processes no longer die and their statements no longer *)
(* fail for reasons of their own, all get in.                               *)
EventuallyOpen ==
    <>[][\A o \in Openers : ~(Crash(o) \/ OpenFails(o))]_vars =>
        <>[](\A o \in Openers : pc[o] = "open")
=============================================================================
