--------------------------- MODULE CoordinatorStore -------------------------
(***************************************************************************)
(* The coordinator's database (src/src/coordinator/): several processes open *)
(* the SQLite file, migrate it through the user_version gate, and insert or  *)
(* replace rows.                                                             *)
(*                                                                           *)
(* SQLite is taken at its word: one write transaction at a time, each one    *)
(* seen as a whole or not at all; a commit is seen by everyone at once, and   *)
(* with WAL and synchronous=NORMAL it is durable only when the log is next    *)
(* synced, so that a power loss takes the database back to some earlier      *)
(* commit.  A transaction that finds another one writing waits, and after     *)
(* busy_timeout fails.  One table stands for the four with a primary key.     *)
(***************************************************************************)
EXTENDS Integers

CONSTANTS
    Procs,
    Keys, Values,   \* primary keys and the rest of a row
    MaxCrashes      \* bound on power losses

None == "none"

ASSUME CoordinatorAssumption ==
    None \notin Procs /\ None \notin Values /\ MaxCrashes \in Nat

VARIABLES
    db,       \* the latest commit: user_version, whether the tables exist, rows
    past,     \* the commits a power loss may fall back to
    writer,   \* the process whose transaction holds the write lock
    pc,       \* closed, gate, migrate, commit, open or failed
    began,    \* the user_version when the process began to open the file
    crashes

vars == <<db, past, writer, pc, began, crashes>>

NoRows == [k \in Keys |-> None]

Init ==
    /\ db = [version |-> 0, tables |-> FALSE, rows |-> NoRows]
    /\ past = {}
    /\ writer = None
    /\ pc = [p \in Procs |-> "closed"]
    /\ began = [p \in Procs |-> 0]
    /\ crashes = 0

Goto(p, label) == pc' = [pc EXCEPT ![p] = label]

Commit(state) ==
    /\ db' = state
    /\ past' = past \union {db}

\* A mutant: the schema of the next release.
NextSchema == 2

SCHEMA_VERSION == 1

\* A mutant: an off-by-one in the gate, downwards.
NeverMigrates(version) == version < 0

\* A mutant: an off-by-one in the gate, upwards.
AlwaysMigrates(version) == version < 2

\* The gate of migrate.
NeedsMigration(version) == version < 1

\* SCHEMA_V1 and the new user_version.
Migrated(state) ==
    [version |-> SCHEMA_VERSION, tables |-> TRUE, rows |-> NoRows]

\* A mutant: the schema drops the tables it finds.
NeverClashes(state) == FALSE

\* CREATE TABLE refuses a table that exists.
Clashes(state) == state.tables
-----------------------------------------------------------------------------
(* open *)

\* The connection and its pragmas.
Open(p) ==
    /\ pc[p] = "closed"
    /\ began' = [began EXCEPT ![p] = db.version]
    /\ Goto(p, "gate")
    /\ UNCHANGED <<db, past, writer, crashes>>

\* migrate reads user_version, outside any transaction.
ReadVersion(p) ==
    /\ pc[p] = "gate"
    /\ Goto(p, IF NeedsMigration(db.version) THEN "migrate" ELSE "open")
    /\ UNCHANGED <<db, past, writer, began, crashes>>

\* A mutant: the tables are made by a statement of their own, before the
\* transaction that sets the version.
MakeTablesFirst(p) ==
    /\ pc[p] = "migrate"
    /\ writer = None
    /\ IF Clashes(db)
         THEN /\ Goto(p, "failed")
              /\ UNCHANGED <<db, past, writer>>
         ELSE /\ writer' = p
              /\ Commit([db EXCEPT !.tables = TRUE])
              /\ Goto(p, "commit")
    /\ UNCHANGED <<began, crashes>>

\* The transaction takes the write lock with its first statement, and then sees
\* the latest commit; a clash rolls it back.
BeginMigration(p) ==
    /\ pc[p] = "migrate"
    /\ writer = None
    /\ IF Clashes(db)
         THEN Goto(p, "failed") /\ UNCHANGED writer
         ELSE Goto(p, "commit") /\ writer' = p
    /\ UNCHANGED <<db, past, began, crashes>>

\* busy_timeout: another process holds the write lock, or, while the file is
\* new, has it open when this one turns it to WAL.
TimeOut(p) ==
    /\ \/ pc[p] = "migrate" /\ writer # None
       \/ pc[p] = "gate" /\ began[p] = 0 /\ \E q \in Procs \ {p} : pc[q] # "closed"
    /\ Goto(p, "failed")
    /\ UNCHANGED <<db, past, writer, began, crashes>>

CommitMigration(p) ==
    /\ pc[p] = "commit"
    /\ Commit(Migrated(db))
    /\ writer' = None
    /\ Goto(p, "open")
    /\ UNCHANGED <<began, crashes>>
-----------------------------------------------------------------------------
(* The open store *)

WithRow(state, k, v) == [state EXCEPT !.rows = [state.rows EXCEPT ![k] = v]]

\* insert_roster, insert_ceremony, insert_session, insert_churn: one statement,
\* INSERT OR REPLACE.
Insert(p) ==
    /\ pc[p] = "open"
    /\ writer = None
    /\ db.tables
    /\ \E k \in Keys, v \in Values : Commit(WithRow(db, k, v))
    /\ UNCHANGED <<writer, pc, began, crashes>>

\* The store is dropped, or the caller of a failed open gives up.
Close(p) ==
    /\ pc[p] \in {"open", "failed"}
    /\ Goto(p, "closed")
    /\ UNCHANGED <<db, past, writer, began, crashes>>

\* The process is killed; its transaction is rolled back.
Kill(p) ==
    /\ pc[p] # "closed"
    /\ Goto(p, "closed")
    /\ writer' = IF writer = p THEN None ELSE writer
    /\ UNCHANGED <<db, past, began, crashes>>

\* SQLite syncs the log.
SyncLog ==
    /\ past # {}
    /\ past' = {}
    /\ UNCHANGED <<db, writer, pc, began, crashes>>

PowerLoss ==
    /\ crashes < MaxCrashes
    /\ crashes' = crashes + 1
    /\ db' \in past \union {db}
    /\ past' = {}
    /\ writer' = None
    /\ pc' = [p \in Procs |-> "closed"]
    /\ UNCHANGED began

Next ==
    \/ \E p \in Procs :
          \/ Open(p) \/ ReadVersion(p) \/ BeginMigration(p) \/ TimeOut(p)
          \/ CommitMigration(p) \/ Insert(p) \/ Close(p) \/ Kill(p)
    \/ SyncLog
    \/ PowerLoss

Spec == Init /\ [][Next]_vars
-----------------------------------------------------------------------------
(* Properties *)

States == [version : {0, SCHEMA_VERSION}, tables : BOOLEAN,
           rows : [Keys -> Values \union {None}]]

\* Types, a version of at most 1, and a write lock that is held by the process
\* between its CREATE TABLE and its COMMIT and by no other.
TypeOK ==
    /\ db \in States /\ past \subseteq States
    /\ db.version \in 0 .. 1
    /\ writer \in Procs \union {None}
    /\ pc \in [Procs -> {"closed", "gate", "migrate", "commit", "open", "failed"}]
    /\ \A p \in Procs : pc[p] = "commit" <=> writer = p
    /\ began \in [Procs -> {0, SCHEMA_VERSION}]
    /\ crashes \in 0 .. MaxCrashes

\* T-02-17: whatever is killed and whenever the power fails, the next open finds
\* all of the schema or none of it.
MigrationIsAtomic ==
    \A state \in past \union {db} : state.tables <=> state.version = 1

\* A process that was handed a store can use its tables.
OpenStoreHasTables == \A p \in Procs : pc[p] = "open" => db.tables

\* Of several first opens all but one may fail, on a clash or on the timeout; an
\* open that begins when the file has been migrated never does.
LateOpenNeverFails == \A p \in Procs : pc[p] = "failed" => began[p] = 0

\* Nobody's open empties a table: only a power loss takes back a row, and then
\* no row that was there at the last sync of the log.
OpensKeepRows ==
    [][\A k \in Keys :
          db.rows[k] # None /\ db'.rows[k] = None =>
              \E state \in past : state.rows[k] = None /\ crashes' = crashes + 1]_vars
=============================================================================
