-------------------------------- MODULE Database --------------------------------
(***************************************************************************)
(* Processes on one SQLite file: each opens it, brings the schema up to    *)
(* date with MigrationRunner, file by file, opens the bar store, which     *)
(* RocksDB locks, and then does its work.  They may be started, killed, or *)
(* end by an exception at any moment; the `db` command, which has no bar   *)
(* store, is a process that ends where it would open it.                   *)
(*                                                                         *)
(* SQLite (WAL mode): one process at a time holds a write transaction; its *)
(* writes are its own until COMMIT, and a crash or ROLLBACK drops them.    *)
(* Who wants to write waits, and fails after busy_timeout.                 *)
(***************************************************************************)
EXTENDS ActivityDb, FiniteSetsExt

CONSTANTS Processes,
          Files          \* the number of schema_*.sql files

ASSUME DatabaseAssumption == Files \in Nat /\ Processes # {}

VARIABLES db,      \* what is committed
          txn,     \* per process: its copy of the database in a transaction
          writer,  \* the process that holds the write lock
          at       \* per process: [step, file]

databaseVars == <<db, txn, writer, at>>

Nobody == "nobody"
NoTxn  == EmptyDb

Off    == [step |-> "off", file |-> 0]
Up     == [step |-> "up", file |-> 0]
On(step, file) == [step |-> step, file |-> file]

InitDatabase ==
  /\ db = EmptyDb
  /\ txn = [p \in Processes |-> NoTxn]
  /\ writer = Nobody
  /\ at = [p \in Processes |-> Off]

-------------------------------------------------------------------------------
(* Transactions.                                                           *)

CanWrite(p) == writer \in {Nobody, p}

\* What p reads and writes: its transaction, or the committed database.
View(p) == IF writer = p THEN txn[p] ELSE db

\* A plausible bug: no BEGIN, so that every statement is committed at once.
WriteAutocommit(p, new) ==
  /\ CanWrite(p) /\ writer' = p
  /\ txn' = [txn EXCEPT ![p] = new] /\ db' = new

\* A statement inside the transaction of p, which takes the write lock.
WriteIn(p, new) ==
  /\ CanWrite(p) /\ writer' = p
  /\ txn' = [txn EXCEPT ![p] = new]
  /\ UNCHANGED db

Commit(p) ==
  /\ writer = p /\ writer' = Nobody
  /\ db' = txn[p]
  /\ txn' = [txn EXCEPT ![p] = NoTxn]

\* A plausible bug: the handler of an exception commits what there is.
RollbackCommits(p) ==
  /\ writer' = (IF writer = p THEN Nobody ELSE writer)
  /\ txn' = [txn EXCEPT ![p] = NoTxn]
  /\ db' = View(p)

Rollback(p) ==
  /\ writer' = (IF writer = p THEN Nobody ELSE writer)
  /\ txn' = [txn EXCEPT ![p] = NoTxn]
  /\ UNCHANGED db

-------------------------------------------------------------------------------
(* EngineCache: SqliteDatabase, MigrationRunner::apply, RocksBarStore.      *)

Open(p) ==
  /\ at[p] = Off
  /\ at' = [at EXCEPT ![p] = On("check", 1)]
  /\ UNCHANGED <<db, txn, writer>>

\* The next file that is_applied does not find; it is asked outside of the transaction.
CheckFile(p) ==
  /\ at[p].step = "check"
  /\ LET left == (at[p].file .. Files) \ db.record
     IN  at' = [at EXCEPT ![p] = IF left = {} THEN On("bars", 0) ELSE On("begin", Min(left))]
  /\ UNCHANGED <<db, txn, writer>>

Go(p, step) == at' = [at EXCEPT ![p].step = step]

BeginFile(p) ==
  /\ at[p].step = "begin" /\ writer = Nobody
  /\ WriteIn(p, db)
  /\ Go(p, "exec")

ExecFile(p) ==
  /\ at[p].step = "exec"
  /\ WriteIn(p, [View(p) EXCEPT !.tables = @ \cup {at[p].file}])
  /\ Go(p, "record")

\* The file name is the primary key: to record it twice is an error.
RecordFile(p) ==
  /\ at[p].step = "record" /\ at[p].file \notin View(p).record
  /\ WriteIn(p, [View(p) EXCEPT !.record = @ \cup {at[p].file}])
  /\ Go(p, "commit")

CommitFile(p) ==
  /\ at[p].step = "commit"
  /\ Commit(p)
  /\ at' = [at EXCEPT ![p] = On("check", @.file + 1)]

\* A store that another process has open is an error.
OpenBars(p) ==
  /\ at[p].step = "bars" /\ \A q \in Processes : at[q] # Up
  /\ at' = [at EXCEPT ![p] = Up]
  /\ UNCHANGED <<db, txn, writer>>

StartUp(p) ==
  \/ Open(p) \/ CheckFile(p)
  \/ BeginFile(p) \/ ExecFile(p) \/ RecordFile(p) \/ CommitFile(p)
  \/ OpenBars(p)

\* A statement of p fails: a full disk, the lock held too long, a file already recorded,
\* a bar store in use. The exception reaches main.
Throws(p) ==
  /\ at[p] # Off
  /\ Rollback(p)
  /\ at' = [at EXCEPT ![p] = Off]

\* p is killed; SQLite forgets its transaction.
Killed(p) ==
  /\ at[p] # Off
  /\ writer' = (IF writer = p THEN Nobody ELSE writer)
  /\ txn' = [txn EXCEPT ![p] = NoTxn]
  /\ at' = [at EXCEPT ![p] = Off]
  /\ UNCHANGED db

-------------------------------------------------------------------------------
(* The schema has what its log says and the log has no gap, whoever was    *)
(* killed in the middle of a file and whoever else migrates meanwhile, and *)
(* a process works on the whole of it (migration_runner.cpp:61-77,         *)
(* 106-130).                                                               *)
SchemaIsWhole ==
  /\ db.tables = db.record
  /\ \A file \in db.record : 1 .. file \subseteq db.record
  /\ \A p \in Processes : at[p] = Up => db.record = 1 .. Files
===============================================================================
