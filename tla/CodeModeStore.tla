--------------------------- MODULE CodeModeStore ---------------------------
(***************************************************************************)
(* The database file of the CLI, as processes find it: LazyCodeModeStore,  *)
(* which opens it once per process, and LazySqliteStore, which opens it for*)
(* every call (comsat-cli codemode_store.rs, native_store.rs), the         *)
(* migrations every open applies, and the rows of Code Mode                *)
(* (comsat-store-sqlite lib.rs, migrations.rs, codemode.rs).               *)
(*                                                                         *)
(* External: SQLite in rollback journal mode.  A reader has the SHARED     *)
(* lock for the length of its transaction; one writer has the RESERVED     *)
(* lock beside readers and commits when they are gone.  Who asks for a     *)
(* lock with none in hand waits for busy_timeout; who has SHARED and finds *)
(* a writer fails at once, because both would wait for each other.         *)
(***************************************************************************)
EXTENDS Naturals

CONSTANTS
  NoOne,       \* no call
  Calls,       \* store calls, each made once
  ProcessOf,   \* the process of each call
  Executions,  \* ids of Code Mode executions
  Artifacts    \* ids of artifacts

ASSUME FileAssumption == NoOne \notin Calls

VARIABLES
  exists,      \* the file
  version,     \* 0: an empty file; 1: before schema_migrations; else the last one applied
  altered,     \* how often migration 0002, which adds columns, was committed
  executions,  \* codemode_executions
  artifacts,   \* codemode_artifacts: <<execution, artifact>>
  opened,      \* the connection each process has cached, as the call that made it
  shared,      \* connections in a read transaction
  writer,      \* the connection in a write transaction
  call         \* state of each call

fileVars == <<exists, version, altered, executions, artifacts, opened, shared, writer, call>>

Processes == {ProcessOf[c] : c \in Calls}

CodeModeOps == {"get", "put", "store", "delete"}
Ops == CodeModeOps \cup {"watch read", "watch write"}

\* Mutant of Reads: deleting opens the database for writing.
MutReads(op) == op \in {"get", "watch read"}

\* The calls that go through read() and open_read().
Reads(op) == op \in {"get", "delete", "watch read"}

\* SqliteCodeModeStore::open applies the migrations once more than
\* SqliteStore::open does.
Rounds(op) == IF op \in CodeModeOps THEN 2 ELSE 1

FileInit ==
  /\ exists \in BOOLEAN
  /\ version \in IF exists THEN 0..3 ELSE {0}
  /\ altered = IF version >= 2 THEN 1 ELSE 0
  /\ executions = IF version = 3 THEN Executions ELSE {}
  /\ artifacts = executions \X Artifacts
  /\ opened = [p \in Processes |-> NoOne]
  /\ shared = {}
  /\ writer = NoOne
  /\ call = [c \in Calls |-> [st |-> "idle"]]

Set(c, field, value) == call' = [call EXCEPT ![c] = [@ EXCEPT ![field] = value]]

Fails(c) == call' = [call EXCEPT ![c] = [st |-> "failed"]]

Free(c) ==
  /\ shared' = shared \ {c}
  /\ writer' = IF writer = c THEN NoOne ELSE writer

Under(c, op, e) ==
  call[c].st \notin {"idle", "done", "failed"} /\ call[c].op = op /\ call[c].exec = e

\* read(), write() and the first half of open(): the path, then the cache.
Begin(c, op, e) ==
  /\ call[c].st = "idle"
  /\ LET conn == IF op \in CodeModeOps THEN opened[ProcessOf[c]] ELSE NoOne
         alone == \A d \in Calls : ~Under(d, "put", e) /\ ~Under(d, "store", e)
         st == IF Reads(op) /\ ~exists THEN "done" ELSE IF conn # NoOne THEN "ready" ELSE "open"
         spoilt(q) == q.st \notin {"idle", "failed"} /\ op \in {"put", "store"} /\ q.exec = e
     IN call' = [d \in Calls |->
          IF d = c THEN [st |-> st, op |-> op, exec |-> e, conn |-> conn, rounds |-> Rounds(op),
                         seen |-> 0, clean |-> alone]
          ELSE IF spoilt(call[d]) THEN [call[d] EXCEPT !.clean = FALSE] ELSE call[d]]
  /\ UNCHANGED <<exists, version, altered, executions, artifacts, opened, shared, writer>>

\* Connection::open creates the file, still empty.
OpenFile(c) ==
  /\ call[c].st = "open"
  /\ exists' = TRUE
  /\ Set(c, "st", "migrate")
  /\ UNCHANGED <<version, altered, executions, artifacts, opened, shared, writer>>

\* Mutant of ReadVersion: the version is read before the transaction.
MutReadVersion(c) ==
  /\ call[c].st = "migrate" /\ version > 0
  /\ call' = [call EXCEPT ![c].st = "checked", ![c].seen = version]
  /\ UNCHANGED <<exists, version, altered, executions, artifacts, opened, shared, writer>>

\* apply() on a file with tables: INITIAL creates nothing, so the transaction
\* begins as a reader's and finds which versions are applied.
ReadVersion(c) ==
  /\ call[c].st = "migrate" /\ version > 0
  /\ shared' = shared \cup {c}
  /\ call' = [call EXCEPT ![c].st = "checked", ![c].seen = version]
  /\ UNCHANGED <<exists, version, altered, executions, artifacts, opened, writer>>

\* apply() on an empty file: the first CREATE TABLE waits for the write lock.
FirstWrite(c) ==
  /\ call[c].st = "migrate" /\ version = 0
  /\ writer = NoOne
  /\ writer' = c
  /\ call' = [call EXCEPT ![c].st = "migrated", ![c].seen = 0]
  /\ UNCHANGED <<exists, version, altered, executions, artifacts, opened, shared>>

\* A migration is missing: the reader becomes the writer or fails, and its
\* connection and transaction are dropped.
Promote(c) ==
  /\ call[c].st = "checked" /\ call[c].seen < 3
  /\ IF writer = NoOne
     THEN writer' = c /\ UNCHANGED shared /\ Set(c, "st", "migrated")
     ELSE Free(c) /\ Fails(c)
  /\ UNCHANGED <<exists, version, altered, executions, artifacts, opened>>

\* What a connection does next once its transaction is over.
Continues(q, c) ==
  IF q.rounds > 1 THEN [q EXCEPT !.st = "migrate", !.rounds = @ - 1]
  ELSE [q EXCEPT !.st = IF q.op \in CodeModeOps THEN "cache" ELSE "ready", !.conn = c]

\* commit(), of a reader or of the writer.
Commit(c) ==
  /\ \/ call[c].st = "checked" /\ call[c].seen = 3 /\ UNCHANGED <<version, altered>>
     \/ /\ call[c].st = "migrated" /\ shared \ {c} = {}
        /\ version' = 3
        /\ altered' = altered + (IF call[c].seen < 2 THEN 1 ELSE 0)
  /\ Free(c)
  /\ call' = [call EXCEPT ![c] = Continues(@, c)]
  /\ UNCHANGED <<exists, executions, artifacts, opened>>

\* The second half of open(): the last of two concurrent opens is kept, each
\* call goes on with its own.
Cache(c) ==
  /\ call[c].st = "cache"
  /\ opened' = [opened EXCEPT ![ProcessOf[c]] = c]
  /\ Set(c, "st", "ready")
  /\ UNCHANGED <<exists, version, altered, executions, artifacts, shared, writer>>

\* The mutex of the connection, which a deletion holds over its two statements.
Mutex(c) == \A d \in Calls \ {c} : call[d].st = "half" => call[d].conn # call[c].conn

Unlocked == writer = NoOne /\ shared = {}

\* Mutant of Statement: the artifacts are left to the artifact store.
MutStatement(c) ==
  /\ call[c].st = "ready" /\ call[c].op # "store" /\ Mutex(c)
  /\ call[c].op \in {"get", "watch read"} \/ Unlocked
  /\ executions' = CASE call[c].op = "put" -> executions \cup {call[c].exec}
                     [] call[c].op = "delete" -> executions \ {call[c].exec}
                     [] OTHER -> executions
  /\ UNCHANGED artifacts
  /\ Set(c, "st", "done")
  /\ UNCHANGED <<exists, version, altered, opened, shared, writer>>

\* put_execution, the first statement of delete_execution, and calls that change
\* nothing here.
Statement(c) ==
  /\ call[c].st = "ready" /\ call[c].op # "store" /\ Mutex(c)
  /\ call[c].op \in {"get", "watch read"} \/ Unlocked
  /\ executions' = IF call[c].op = "put" THEN executions \cup {call[c].exec} ELSE executions
  /\ artifacts' = IF call[c].op = "delete" THEN {x \in artifacts : x[1] # call[c].exec}
                  ELSE artifacts
  /\ Set(c, "st", IF call[c].op = "delete" THEN "half" ELSE "done")
  /\ UNCHANGED <<exists, version, altered, opened, shared, writer>>

\* ArtifactStore::put.
StoreArtifact(c) ==
  /\ call[c].st = "ready" /\ call[c].op = "store" /\ Mutex(c) /\ Unlocked
  /\ \E a \in Artifacts : artifacts' = artifacts \cup {<<call[c].exec, a>>}
  /\ Set(c, "st", "done")
  /\ UNCHANGED <<exists, version, altered, executions, opened, shared, writer>>

\* The second statement of delete_execution.
DeleteRow(c) ==
  /\ call[c].st = "half" /\ Unlocked
  /\ executions' = executions \ {call[c].exec}
  /\ Set(c, "st", "done")
  /\ UNCHANGED <<exists, version, altered, artifacts, opened, shared, writer>>

\* busy_timeout is over, for whoever waits for a lock.
TimesOut(c) ==
  /\ \/ call[c].st = "migrate" /\ version = 0 /\ writer # NoOne
     \/ call[c].st = "migrated" /\ shared \ {c} # {}
     \/ call[c].st \in {"ready", "half"} /\ ~Unlocked
          /\ call[c].op \notin {"get", "watch read"}
  /\ Free(c)
  /\ Fails(c)
  /\ UNCHANGED <<exists, version, altered, executions, artifacts, opened>>

\* A process dies.  Its transactions are rolled back and its locks are gone.
Crash(p) ==
  /\ \E c \in Calls : ProcessOf[c] = p /\ call[c].st \notin {"idle", "done", "failed"}
  /\ call' = [c \in Calls |->
       IF ProcessOf[c] = p /\ call[c].st \notin {"idle", "done"}
       THEN [st |-> "failed"] ELSE call[c]]
  /\ shared' = {c \in shared : ProcessOf[c] # p}
  /\ writer' = IF writer # NoOne /\ ProcessOf[writer] = p THEN NoOne ELSE writer
  /\ opened' = [opened EXCEPT ![p] = NoOne]
  /\ UNCHANGED <<exists, version, altered, executions, artifacts>>

FileNext ==
  \/ \E c \in Calls :
       \/ \E op \in Ops, e \in Executions : Begin(c, op, e)
       \/ OpenFile(c)
       \/ ReadVersion(c)
       \/ FirstWrite(c)
       \/ Promote(c)
       \/ Commit(c)
       \/ Cache(c)
       \/ Statement(c)
       \/ StoreArtifact(c)
       \/ DeleteRow(c)
       \/ TimesOut(c)
  \/ \E p \in Processes : Crash(p)

FileSpec == FileInit /\ [][FileNext]_fileVars

-----------------------------------------------------------------------------
(* Properties *)

\* However many processes open a new or an old database at once, and wherever
\* they die, no migration is committed twice (the second ADD COLUMN would make
\* every later open fail), and a call that has the store finds all its tables.
MigratedOnce ==
  /\ altered <= 1
  /\ \A c \in Calls : call[c].st \in {"cache", "ready", "half"} => version = 3

\* "Reading Code Mode state never creates the database" (docs/operations.md:50),
\* and neither does deleting or listing watches: the file appears in a call that
\* writes.
ReadsCreateNothing ==
  [][exists' # exists =>
       \E c \in Calls : call'[c] # call[c] /\ call[c].op \in {"put", "store", "watch write"}
    ]_fileVars

\* Once a deletion has succeeded, nothing of the execution is left, unless someone
\* was putting it or its artifacts meanwhile, or has since: deletions by other
\* processes, two connections in one process, and crashes notwithstanding.
DeletedGone ==
  \A c \in Calls :
    call[c].st = "done" /\ call[c].op = "delete" /\ call[c].clean =>
      /\ call[c].exec \notin executions
      /\ \A x \in artifacts : x[1] # call[c].exec
=============================================================================
