----------------------- MODULE CoordinatorStore_proofs ----------------------
(***************************************************************************)
(* Machine-checked proofs about CoordinatorStore, for every number of        *)
(* processes, rows and power losses.                                         *)
(***************************************************************************)
EXTENDS CoordinatorStore, TLAPS

\* What a process that is opening the file knows of it.
OpeningInv ==
    /\ \A p \in Procs : pc[p] # "closed" /\ began[p] = 1 => db.version = 1
    /\ \A p \in Procs : pc[p] \in {"migrate", "commit"} => began[p] = 0
    /\ \A p \in Procs : pc[p] = "commit" => ~db.tables

IInv ==
    /\ TypeOK
    /\ MigrationIsAtomic
    /\ OpenStoreHasTables
    /\ LateOpenNeverFails
    /\ OpeningInv

LEMMA InitInv == Init => IInv
  <1> SUFFICES ASSUME Init PROVE IInv
    OBVIOUS
  <1>1. TypeOK
    BY CoordinatorAssumption DEF Init, TypeOK, States, NoRows, SCHEMA_VERSION, None
  <1>2. QED
    BY <1>1 DEF Init, IInv, MigrationIsAtomic, OpenStoreHasTables, LateOpenNeverFails, OpeningInv

\* The parts of the invariant that speak of the commits only.
CommitsOK ==
    /\ db \in States /\ past \subseteq States
    /\ db.version \in 0 .. 1
    /\ MigrationIsAtomic

\* A commit of a whole state keeps them.
LEMMA CommitKeeps ==
    ASSUME CommitsOK, NEW state \in States, state.tables <=> state.version = 1, Commit(state)
    PROVE  CommitsOK'
  <1>1. db' = state /\ past' = past \union {db}
    BY DEF Commit
  <1>2. state.version \in 0 .. 1
    BY DEF States, SCHEMA_VERSION
  <1>3. QED
    BY <1>1, <1>2 DEF CommitsOK, MigrationIsAtomic

LEMMA SteadyKeeps == ASSUME CommitsOK, UNCHANGED <<db, past>> PROVE CommitsOK'
  BY DEF CommitsOK, MigrationIsAtomic

\* A step of one process that leaves the database alone.
LEMMA ProcessStep ==
    ASSUME IInv, NEW p \in Procs, NEW label, Goto(p, label),
           label \in {"closed", "gate", "migrate", "commit", "open", "failed"},
           UNCHANGED <<db, past, crashes>>,
           writer' \in Procs \union {None},
           \A q \in Procs : pc'[q] = "commit" <=> writer' = q,
           \A q \in Procs \ {p} : began'[q] = began[q],
           began' \in [Procs -> {0, SCHEMA_VERSION}],
           label = "open" => db.tables,
           label = "failed" => began'[p] = 0,
           label # "closed" /\ began'[p] = 1 => db.version = 1,
           label \in {"migrate", "commit"} => began'[p] = 0,
           label = "commit" => ~db.tables
    PROVE  IInv'
  <1>1. pc' = [pc EXCEPT ![p] = label] /\ pc \in [Procs -> {"closed", "gate", "migrate", "commit", "open", "failed"}]
    BY DEF Goto, IInv, TypeOK
  <1>2. pc'[p] = label /\ \A q \in Procs \ {p} : pc'[q] = pc[q]
    BY <1>1
  <1>3. TypeOK'
    BY <1>1 DEF IInv, TypeOK, States
  <1>4. MigrationIsAtomic' /\ OpenStoreHasTables' /\ LateOpenNeverFails'
    BY <1>2 DEF IInv, MigrationIsAtomic, OpenStoreHasTables, LateOpenNeverFails
  <1>5. OpeningInv'
    BY <1>2 DEF IInv, OpeningInv
  <1>6. QED
    BY <1>3, <1>4, <1>5 DEF IInv

LEMMA OpenStep == ASSUME IInv, NEW p \in Procs, Open(p) PROVE IInv'
  <1>1. /\ began' = [began EXCEPT ![p] = db.version]
        /\ pc[p] = "closed" /\ Goto(p, "gate")
        /\ UNCHANGED <<db, past, writer, crashes>>
    BY DEF Open
  <1>2. db.version \in {0, SCHEMA_VERSION} /\ began \in [Procs -> {0, SCHEMA_VERSION}]
    BY DEF IInv, TypeOK, States
  <1>3. /\ began' \in [Procs -> {0, SCHEMA_VERSION}]
        /\ began'[p] = db.version
        /\ \A q \in Procs \ {p} : began'[q] = began[q]
    BY <1>1, <1>2
  <1>4. writer' \in Procs \union {None} /\ \A q \in Procs : pc'[q] = "commit" <=> writer' = q
    BY <1>1 DEF IInv, TypeOK, Goto
  <1>5. QED
    BY <1>1, <1>3, <1>4, ProcessStep

LEMMA ReadVersionStep == ASSUME IInv, NEW p \in Procs, ReadVersion(p) PROVE IInv'
  <1>1. /\ pc[p] = "gate" /\ UNCHANGED <<db, past, writer, began, crashes>>
        /\ Goto(p, IF NeedsMigration(db.version) THEN "migrate" ELSE "open")
    BY DEF ReadVersion
  <1>2. /\ began[p] = 1 => db.version = 1
        /\ began \in [Procs -> {0, 1}]
        /\ db.version = 0 \/ db.version = 1
        /\ db.tables <=> db.version = 1
    BY <1>1 DEF IInv, TypeOK, OpeningInv, MigrationIsAtomic, SCHEMA_VERSION
  <1>3. NeedsMigration(db.version) <=> db.version = 0
    BY <1>2 DEF NeedsMigration
  <1>4. writer' \in Procs \union {None} /\ \A q \in Procs : pc'[q] = "commit" <=> writer' = q
    BY <1>1 DEF IInv, TypeOK, Goto
  <1>5. began' \in [Procs -> {0, SCHEMA_VERSION}] /\ \A q \in Procs : began'[q] = began[q]
    BY <1>1, <1>2 DEF SCHEMA_VERSION
  <1>6. CASE db.version = 0
    <2>1. Goto(p, "migrate") /\ began[p] = 0
      BY <1>1, <1>2, <1>3, <1>6
    <2>2. QED
      BY <1>1, <1>4, <1>5, <2>1, ProcessStep
  <1>7. CASE db.version = 1
    <2>1. Goto(p, "open") /\ db.tables
      BY <1>1, <1>2, <1>3, <1>7
    <2>2. QED
      BY <1>1, <1>4, <1>5, <1>7, <2>1, ProcessStep
  <1>8. QED
    BY <1>2, <1>6, <1>7

LEMMA BeginStep == ASSUME IInv, NEW p \in Procs, BeginMigration(p) PROVE IInv'
  <1>1. /\ pc[p] = "migrate" /\ writer = None /\ UNCHANGED <<db, past, began, crashes>>
        /\ IF db.tables THEN Goto(p, "failed") /\ writer' = writer
                        ELSE Goto(p, "commit") /\ writer' = p
    BY DEF BeginMigration, Clashes
  <1>2. began[p] = 0 /\ began' \in [Procs -> {0, SCHEMA_VERSION}]
    BY <1>1 DEF IInv, OpeningInv, TypeOK
  <1>3. pc \in [Procs -> {"closed", "gate", "migrate", "commit", "open", "failed"}]
        /\ \A q \in Procs : q # None /\ pc[q] # "commit"
    BY <1>1, CoordinatorAssumption DEF IInv, TypeOK
  <1>4. CASE db.tables
    <2>1. Goto(p, "failed") /\ writer' = None
      BY <1>1, <1>4
    <2>2. \A q \in Procs : pc'[q] = "commit" <=> writer' = q
      BY <1>3, <2>1 DEF Goto
    <2>3. QED
      BY <1>1, <1>2, <2>1, <2>2, ProcessStep
  <1>5. CASE ~db.tables
    <2>1. Goto(p, "commit") /\ writer' = p
      BY <1>1, <1>5
    <2>2. \A q \in Procs : pc'[q] = "commit" <=> writer' = q
      BY <1>3, <2>1 DEF Goto
    <2>3. QED
      BY <1>1, <1>2, <1>5, <2>1, <2>2, ProcessStep
  <1>6. QED
    BY <1>4, <1>5

LEMMA TimeOutStep == ASSUME IInv, NEW p \in Procs, TimeOut(p) PROVE IInv'
  <1>1. /\ Goto(p, "failed") /\ pc[p] \in {"migrate", "gate"}
        /\ UNCHANGED <<db, past, writer, began, crashes>>
        /\ pc[p] = "gate" => began[p] = 0
    BY DEF TimeOut
  <1>2. began[p] = 0 /\ began' \in [Procs -> {0, SCHEMA_VERSION}]
    BY <1>1 DEF IInv, OpeningInv, TypeOK
  <1>3. writer' \in Procs \union {None} /\ \A q \in Procs : pc'[q] = "commit" <=> writer' = q
    BY <1>1 DEF IInv, TypeOK, Goto
  <1>4. QED
    BY <1>1, <1>2, <1>3, ProcessStep

\* The process is gone, and its transaction with it.
LEMMA LeaveStep ==
    ASSUME IInv, NEW p \in Procs, Goto(p, "closed"), UNCHANGED <<db, past, began, crashes>>,
           writer' = IF writer = p THEN None ELSE writer
    PROVE  IInv'
  <1>1. began' \in [Procs -> {0, SCHEMA_VERSION}] /\ \A q \in Procs : began'[q] = began[q]
    BY DEF IInv, TypeOK
  <1>2. writer' \in Procs \union {None}
    BY DEF IInv, TypeOK
  <1>3. \A q \in Procs : pc'[q] = "commit" <=> writer' = q
    BY CoordinatorAssumption DEF IInv, TypeOK, Goto
  <1>4. QED
    BY <1>1, <1>2, <1>3, ProcessStep

LEMMA CommitStep == ASSUME IInv, NEW p \in Procs, CommitMigration(p) PROVE IInv'
  <1>1. /\ pc[p] = "commit" /\ Commit(Migrated(db)) /\ writer' = None
        /\ Goto(p, "open") /\ UNCHANGED <<began, crashes>>
    BY DEF CommitMigration
  <1>2. Migrated(db) \in States /\ Migrated(db).tables /\ Migrated(db).version = 1
    BY DEF Migrated, States, SCHEMA_VERSION, NoRows
  <1>3. CommitsOK'
    BY <1>1, <1>2, CommitKeeps DEF IInv, TypeOK, CommitsOK
  <1>4. db'.tables /\ db'.version = 1
    BY <1>1, <1>2 DEF Commit
  <1>5. pc'[p] = "open" /\ \A q \in Procs \ {p} : pc'[q] = pc[q] /\ pc[q] # "commit"
    BY <1>1 DEF Goto, IInv, TypeOK
  <1>6. TypeOK'
    <2>1. pc' \in [Procs -> {"closed", "gate", "migrate", "commit", "open", "failed"}]
      BY <1>1 DEF Goto, IInv, TypeOK
    <2>2. \A q \in Procs : pc'[q] = "commit" <=> writer' = q
      BY <1>1, <1>5, CoordinatorAssumption
    <2>3. QED
      BY <1>1, <1>3, <2>1, <2>2 DEF IInv, TypeOK, CommitsOK, States
  <1>7. MigrationIsAtomic'
    BY <1>3 DEF CommitsOK
  <1>8. OpenStoreHasTables' /\ LateOpenNeverFails'
    BY <1>1, <1>4, <1>5 DEF IInv, OpenStoreHasTables, LateOpenNeverFails
  <1>9. OpeningInv'
    BY <1>1, <1>4, <1>5 DEF IInv, OpeningInv
  <1>10. QED
    BY <1>6, <1>7, <1>8, <1>9 DEF IInv

LEMMA InsertStep == ASSUME IInv, NEW p \in Procs, Insert(p) PROVE IInv'
  <1>1. PICK k \in Keys, v \in Values : Commit(WithRow(db, k, v))
    BY DEF Insert
  <1>2. UNCHANGED <<writer, pc, began, crashes>>
    BY DEF Insert
  <1>3. /\ WithRow(db, k, v) \in States
        /\ WithRow(db, k, v).version = db.version /\ WithRow(db, k, v).tables = db.tables
    BY DEF WithRow, States, IInv, TypeOK
  <1>4. CommitsOK'
    BY <1>1, <1>3, CommitKeeps DEF IInv, TypeOK, CommitsOK, MigrationIsAtomic
  <1>5. db'.version = db.version /\ db'.tables = db.tables
    BY <1>1, <1>3 DEF Commit
  <1>6. TypeOK'
    BY <1>2, <1>4 DEF IInv, TypeOK, CommitsOK, States
  <1>7. MigrationIsAtomic' /\ OpenStoreHasTables' /\ LateOpenNeverFails' /\ OpeningInv'
    BY <1>2, <1>4, <1>5
       DEF IInv, CommitsOK, OpenStoreHasTables, LateOpenNeverFails, OpeningInv
  <1>8. QED
    BY <1>6, <1>7 DEF IInv

LEMMA SyncLogStep == ASSUME IInv, SyncLog PROVE IInv'
  <1>1. past' = {} /\ UNCHANGED <<db, writer, pc, began, crashes>>
    BY DEF SyncLog
  <1>2. QED
    BY <1>1 DEF IInv, TypeOK, States, MigrationIsAtomic, OpenStoreHasTables, LateOpenNeverFails,
                OpeningInv

LEMMA PowerLossStep == ASSUME IInv, PowerLoss PROVE IInv'
  <1>1. /\ db' \in past \union {db} /\ past' = {} /\ writer' = None
        /\ pc' = [p \in Procs |-> "closed"] /\ began' = began
        /\ crashes' = crashes + 1 /\ crashes < MaxCrashes
    BY DEF PowerLoss
  <1>2. db' \in States /\ (db'.tables <=> db'.version = 1)
    BY <1>1 DEF IInv, TypeOK, MigrationIsAtomic
  <1>3. db'.version \in 0 .. 1
    BY <1>2 DEF States, SCHEMA_VERSION
  <1>4. crashes' \in 0 .. MaxCrashes
    BY <1>1, CoordinatorAssumption DEF IInv, TypeOK
  <1>5. TypeOK'
    BY <1>1, <1>2, <1>3, <1>4, CoordinatorAssumption DEF IInv, TypeOK, States
  <1>6. QED
    BY <1>1, <1>2, <1>5
       DEF IInv, MigrationIsAtomic, OpenStoreHasTables, LateOpenNeverFails, OpeningInv

LEMMA NextInv == IInv /\ [Next]_vars => IInv'
  <1> SUFFICES ASSUME IInv, [Next]_vars PROVE IInv'
    OBVIOUS
  <1>1. CASE UNCHANGED vars
    BY <1>1 DEF vars, IInv, TypeOK, States, MigrationIsAtomic, OpenStoreHasTables,
                LateOpenNeverFails, OpeningInv
  <1>2. ASSUME NEW p \in Procs, Close(p) \/ Kill(p) PROVE IInv'
    <2>1. Goto(p, "closed") /\ UNCHANGED <<db, past, began, crashes>>
      BY <1>2 DEF Close, Kill
    <2>2. writer' = IF writer = p THEN None ELSE writer
      BY <1>2 DEF Close, Kill, IInv, TypeOK
    <2>3. QED
      BY <2>1, <2>2, LeaveStep
  <1>3. ASSUME NEW p \in Procs,
               \/ Open(p) \/ ReadVersion(p) \/ BeginMigration(p) \/ TimeOut(p)
               \/ CommitMigration(p) \/ Insert(p)
        PROVE  IInv'
    BY <1>3, OpenStep, ReadVersionStep, BeginStep, TimeOutStep, CommitStep, InsertStep
  <1>4. CASE SyncLog \/ PowerLoss
    BY <1>4, SyncLogStep, PowerLossStep
  <1>5. QED
    BY <1>1, <1>2, <1>3, <1>4 DEF Next

LEMMA SpecInv == Spec => []IInv
  BY InitInv, NextInv, PTL DEF Spec

\* T-02-17 for every number of processes and power losses: no state that a power
\* loss may leave has a part of the schema (migrate's one transaction).
THEOREM MigrationAtomic == Spec => []MigrationIsAtomic
  <1>1. IInv => MigrationIsAtomic
    BY DEF IInv
  <1>2. QED
    BY <1>1, SpecInv, PTL

\* A store that CoordinatorStore::open has returned has its tables.
THEOREM OpenHasTables == Spec => []OpenStoreHasTables
  <1>1. IInv => OpenStoreHasTables
    BY DEF IInv
  <1>2. QED
    BY <1>1, SpecInv, PTL

\* An open that begins after the migration is never failed by another process
\* (migrate's gate, read outside the transaction).
THEOREM LateOpenSucceeds == Spec => []LateOpenNeverFails
  <1>1. IInv => LateOpenNeverFails
    BY DEF IInv
  <1>2. QED
    BY <1>1, SpecInv, PTL

\* The types of the database, of its log and of the processes.
THEOREM TypesHold == Spec => []TypeOK
  <1>1. IInv => TypeOK
    BY DEF IInv
  <1>2. QED
    BY <1>1, SpecInv, PTL
-----------------------------------------------------------------------------
(* The rows.  Without tables there are none, so the migration takes none away. *)

RowsInv == \A state \in past \union {db} : ~state.tables => state.rows = NoRows

LEMMA NextRows == IInv /\ RowsInv /\ [Next]_vars => RowsInv'
  <1> SUFFICES ASSUME IInv, RowsInv, [Next]_vars PROVE RowsInv'
    OBVIOUS
  <1>1. ASSUME NEW state, Commit(state), state.tables PROVE RowsInv'
    BY <1>1 DEF Commit, RowsInv
  <1>2. ASSUME UNCHANGED <<db, past>> PROVE RowsInv'
    BY <1>2 DEF RowsInv
  <1>3. ASSUME NEW p \in Procs, CommitMigration(p) PROVE RowsInv'
    BY <1>1, <1>3 DEF CommitMigration, Migrated
  <1>4. ASSUME NEW p \in Procs, Insert(p) PROVE RowsInv'
    <2>1. PICK k \in Keys, v \in Values : Commit(WithRow(db, k, v))
      BY <1>4 DEF Insert
    <2>2. WithRow(db, k, v).tables
      BY <1>4 DEF Insert, WithRow, IInv, TypeOK, States
    <2>3. QED
      BY <1>1, <2>1, <2>2
  <1>5. CASE SyncLog \/ PowerLoss
    BY <1>5 DEF SyncLog, PowerLoss, RowsInv
  <1>6. QED
    BY <1>2, <1>3, <1>4, <1>5
       DEF Next, Open, ReadVersion, BeginMigration, TimeOut, Close, Kill, vars

\* Nobody's open or insert empties a row; a power loss does, and only of rows
\* that some commit since the last sync of the log was without (migrate's gate
\* and its CREATE TABLE, insert_* as INSERT OR REPLACE, synchronous=NORMAL).
THEOREM RowsKept == Spec => OpensKeepRows
  <1> DEFINE Kept == \A k \in Keys :
          db.rows[k] # None /\ db'.rows[k] = None =>
              \E state \in past : state.rows[k] = None /\ crashes' = crashes + 1
  <1>1. Init => RowsInv
    BY DEF Init, RowsInv
  <1>2. IInv /\ RowsInv /\ [Next]_vars => [Kept]_vars
    <2> SUFFICES ASSUME IInv, RowsInv, Next, NEW k \in Keys,
                        db.rows[k] # None, db'.rows[k] = None
                 PROVE  \E state \in past : state.rows[k] = None /\ crashes' = crashes + 1
      OBVIOUS
    <2>1. db' # db
      OBVIOUS
    <2>2. ASSUME NEW p \in Procs, CommitMigration(p) PROVE FALSE
      <3>1. db.rows = NoRows
        BY <2>2 DEF CommitMigration, IInv, OpeningInv, RowsInv
      <3>2. QED
        BY <3>1 DEF NoRows
    <2>3. ASSUME NEW p \in Procs, Insert(p) PROVE FALSE
      <3>1. PICK j \in Keys, v \in Values : Commit(WithRow(db, j, v))
        BY <2>3 DEF Insert
      <3>2. db'.rows = [db.rows EXCEPT ![j] = v] /\ db.rows \in [Keys -> Values \union {None}]
        BY <3>1 DEF Commit, WithRow, IInv, TypeOK, States
      <3>3. db'.rows[k] = v \/ db'.rows[k] = db.rows[k]
        BY <3>2
      <3>4. QED
        BY <3>3, CoordinatorAssumption
    <2>4. CASE PowerLoss
      BY <2>1, <2>4 DEF PowerLoss
    <2>5. QED
      BY <2>1, <2>2, <2>3, <2>4
         DEF Next, Open, ReadVersion, BeginMigration, TimeOut, Close, Kill, SyncLog
  <1>3. QED
    BY <1>1, <1>2, SpecInv, NextRows, PTL DEF Spec, OpensKeepRows
=============================================================================
