----------------------------- MODULE HistorianBackup -----------------------------
(***************************************************************************)
(* Backup, restore and the restore drill of the historian                  *)
(* (historian/backup.py, _run_backup_drill of cli/datastreamctl.py), by    *)
(* the tools of the host or those in the database's container, while       *)
(* ingestion goes on.                                                      *)
(*                                                                         *)
(* One command runs at a time.  A database is the number of rows of each   *)
(* table it has, and whether TimescaleDB is in its restoring mode; a file  *)
(* is what pg_dump saw, at one instant, of the tables it was asked for, or *)
(* what a failed one left.                                                 *)
(***************************************************************************)
EXTENDS Naturals, Sequences

CONSTANTS
    Tables,          \* DEFAULT_SNAPSHOT_TABLES
    MaxRows,         \* bound: rows of a table
    MaxDumps,        \* bound: backups
    MaxRestores,     \* bound: restores
    MaxBackupFaults, \* bound: commands of PostgreSQL or Docker that fail
    Partial          \* the content of a file a failed dump left

ASSUME HistorianBackupAssumption ==
    Tables # {} /\ {MaxRows, MaxDumps, MaxRestores, MaxBackupFaults} \subseteq Nat

VARIABLES
    rows,         \* of each database: its tables with their rows
    restoring,    \* databases in the restoring mode
    failed,       \* history: databases of which the last restore failed
    files,        \* the backup directory
    backupPc,     \* idle, dump, drop, create, pre, restore, post, after
    job,          \* the command: whether it is a drill, its database, its file, its transport
    before,       \* before_snapshot
    restores, backupFaults

backupVars == <<rows, restoring, failed, files, backupPc, job, before, restores, backupFaults>>

Databases == {"live", "test"}
Contents == UNION {[T -> 0..MaxRows] : T \in SUBSET Tables}
NoTables == [t \in {} |-> 0]

Jobs == [drill : BOOLEAN, database : Databases, tables : (SUBSET Tables) \ {{}}, file : 0..MaxDumps,
         docker : BOOLEAN]

BackupTypeOK ==
    /\ rows \in [Databases -> Contents]
    /\ restoring \subseteq Databases /\ failed \subseteq Databases
    /\ files \in Seq(Contents \cup {Partial}) /\ Len(files) <= MaxDumps
    /\ backupPc \in {"idle", "dump", "drop", "create", "pre", "restore", "post", "after"}
    /\ job \in Jobs
    /\ before \in [Tables -> 0..MaxRows]
    /\ restores \in 0..MaxRestores /\ backupFaults \in 0..MaxBackupFaults

NoJobYet == [drill |-> FALSE, database |-> "test", tables |-> Tables, file |-> 0, docker |-> FALSE]

BackupInit ==
    /\ rows = [d \in Databases |-> IF d = "live" THEN [t \in Tables |-> 0] ELSE NoTables]
    /\ restoring = {} /\ failed = {} /\ files = <<>>
    /\ backupPc = "idle" /\ job = NoJobYet
    /\ before = [t \in Tables |-> 0]
    /\ restores = 0 /\ backupFaults = 0

BackupFault == backupFaults < MaxBackupFaults /\ backupFaults' = backupFaults + 1

Then(pc) == backupPc' = pc
-----------------------------------------------------------------------------
\* Ingestion stores a row, in a table that is there.
Ingest(t) ==
    /\ t \in DOMAIN rows["live"] /\ rows["live"][t] < MaxRows
    /\ rows' = [rows EXCEPT !["live"][t] = @ + 1]
    /\ UNCHANGED <<restoring, failed, files, backupPc, job, before, restores, backupFaults>>

Accept(j) == backupPc = "idle" /\ job' = j

\* POST /historian/backup, or the command.
CreateBackup(tables, docker) ==
    /\ Accept([NoJobYet EXCEPT !.tables = tables, !.docker = docker])
    /\ Len(files) < MaxDumps
    /\ Then("dump")
    /\ UNCHANGED <<rows, restoring, failed, files, before, restores, backupFaults>>

\* _run_backup_drill begins with the snapshot of the live database.
BeginDrill(tables, docker) ==
    /\ Accept([NoJobYet EXCEPT !.drill = TRUE, !.tables = tables, !.docker = docker])
    /\ Len(files) < MaxDumps /\ restores < MaxRestores
    /\ DOMAIN rows["live"] = Tables
    /\ before' = rows["live"]
    /\ Then("dump")
    /\ UNCHANGED <<rows, restoring, failed, files, restores, backupFaults>>

\* POST /historian/restore: any file, into any database, with no reset before it.
RestoreBackup(f, d, docker) ==
    /\ Accept([NoJobYet EXCEPT !.file = f, !.database = d, !.docker = docker])
    /\ restores < MaxRestores
    /\ restores' = restores + 1
    /\ Then(IF docker THEN "pre" ELSE "restore")
    /\ UNCHANGED <<rows, restoring, failed, files, before, backupFaults>>

\* A command fails: create_backup, reset_database and restore_backup report an error, and a drill
\* goes no further.
Fails(pc) == backupPc = pc /\ BackupFault /\ Then("idle")

\* pg_dump sees one instant of the database.
Dump ==
    /\ backupPc = "dump"
    /\ files' = Append(files, [t \in job.tables \cap DOMAIN rows["live"] |-> rows["live"][t]])
    /\ job' = [job EXCEPT !.file = Len(files')]
    /\ Then(IF job.drill THEN "drop" ELSE "idle")
    /\ UNCHANGED <<rows, restoring, failed, before, restores, backupFaults>>

\* The file is opened first, and stays.
DumpFails ==
    /\ Fails("dump")
    /\ files' = Append(files, Partial)
    /\ UNCHANGED <<rows, restoring, failed, job, before, restores>>

\* reset_database: dropdb, then createdb.
DropTarget ==
    /\ backupPc = "drop"
    /\ rows' = [rows EXCEPT ![job.database] = NoTables]
    /\ restoring' = restoring \ {job.database} /\ failed' = failed \ {job.database}
    /\ Then("create")
    /\ UNCHANGED <<files, job, before, restores, backupFaults>>

CreateTarget ==
    /\ backupPc = "create"
    /\ restores' = restores + 1
    /\ Then(IF job.docker THEN "pre" ELSE "restore")
    /\ UNCHANGED <<rows, restoring, failed, files, job, before, backupFaults>>

ResetFails ==
    /\ Fails("drop") \/ Fails("create")
    /\ UNCHANGED <<rows, restoring, failed, files, job, before, restores>>

\* timescaledb_pre_restore, which only the way through Docker calls.
PreRestore ==
    /\ backupPc = "pre"
    /\ restoring' = restoring \cup {job.database}
    /\ Then("restore")
    /\ UNCHANGED <<rows, failed, files, job, before, restores, backupFaults>>

Content == files[job.file]

\* pg_restore --clean replaces the tables of the file.
Replaced(content) == [t \in DOMAIN rows[job.database] \cup DOMAIN content |->
                        IF t \in DOMAIN content THEN content[t] ELSE rows[job.database][t]]

RestoreTables ==
    /\ backupPc = "restore" /\ Content # Partial
    /\ rows' = [rows EXCEPT ![job.database] = Replaced(Content)]
    /\ Then("post")
    /\ UNCHANGED <<restoring, failed, files, job, before, restores, backupFaults>>

\* What a pg_restore that fails leaves: each table of the file as it was, gone, empty or restored.
LeftBehind(content) ==
    {left \in Contents :
        \A t \in Tables :
            IF t \in DOMAIN content
            THEN t \in DOMAIN left =>
                    \/ left[t] \in {0, content[t]}
                    \/ t \in DOMAIN rows[job.database] /\ left[t] = rows[job.database][t]
            ELSE /\ t \in DOMAIN left <=> t \in DOMAIN rows[job.database]
                 /\ t \in DOMAIN left => left[t] = rows[job.database][t]}

\* Mutant of RestoreFails: the exit code of pg_restore is not looked at.
RestoreFailsUnseen ==
    /\ backupPc = "restore" /\ Content # Partial
    /\ BackupFault
    /\ \E left \in LeftBehind(Content) : rows' = [rows EXCEPT ![job.database] = left]
    /\ Then("post")
    /\ UNCHANGED <<restoring, failed, files, job, before, restores>>

\* A file a failed dump left never restores whole.
RestoreFails ==
    /\ backupPc = "restore"
    /\ Then("idle")
    /\ IF Content = Partial THEN UNCHANGED backupFaults ELSE BackupFault
    /\ \E left \in LeftBehind(IF Content = Partial THEN [t \in Tables |-> 0] ELSE Content) :
            rows' = [rows EXCEPT ![job.database] = left]
    /\ failed' = failed \cup {job.database}
    /\ UNCHANGED <<restoring, files, job, before, restores>>

\* Mutant of PostRestore: the restoring mode is left alone.
PostRestoreTablesOnly ==
    /\ backupPc = "post"
    /\ Then(IF job.drill THEN "after" ELSE "idle")
    /\ UNCHANGED <<rows, restoring, failed, files, job, before, restores, backupFaults>>

\* _run_timescale_restore_bootstrap: post_restore, and the hypertables are attached and listed.
PostRestore ==
    /\ backupPc = "post"
    /\ restoring' = restoring \ {job.database} /\ failed' = failed \ {job.database}
    /\ Then(IF job.drill THEN "after" ELSE "idle")
    /\ UNCHANGED <<rows, files, job, before, restores, backupFaults>>

\* A command of the bootstrap, before post_restore or after it; or the one that calls pre_restore.
HooksFail ==
    /\ \/ Fails("pre") /\ UNCHANGED restoring
       \/ Fails("post") /\ restoring' \in {restoring, restoring \ {job.database}}
    /\ failed' = failed \cup {job.database}
    /\ UNCHANGED <<rows, files, job, before, restores>>

Matched == DOMAIN rows[job.database] = Tables /\ rows[job.database] = before

\* The snapshot of the target is compared with the one before: the drill reports whether it Matched.
CompareSnapshots ==
    /\ backupPc = "after"
    /\ Then("idle")
    /\ UNCHANGED <<rows, restoring, failed, files, job, before, restores, backupFaults>>

BackupNext ==
    \/ \E t \in Tables : Ingest(t)
    \/ \E T \in (SUBSET Tables) \ {{}}, docker \in BOOLEAN : CreateBackup(T, docker) \/ BeginDrill(T, docker)
    \/ \E f \in DOMAIN files, d \in Databases, docker \in BOOLEAN : RestoreBackup(f, d, docker)
    \/ Dump \/ DumpFails \/ DropTarget \/ CreateTarget \/ ResetFails
    \/ PreRestore \/ RestoreTables \/ RestoreFails \/ PostRestore \/ HooksFail \/ CompareSnapshots

BackupSpec == BackupInit /\ [][BackupNext]_backupVars
-----------------------------------------------------------------------------
(* A drill that reports a match has restored its backup whole: equal row counts are never the
   coincidence of rows ingested meanwhile and rows a restore left out. *)
MatchedIsRestored == backupPc = "after" /\ Matched => rows[job.database] = Content

(* Only a restore that failed leaves a database in the restoring mode, and any later one that
   succeeds puts it back in service, also one by the host's tools, which do not call pre_restore. *)
RestoringIsFailed == backupPc = "idle" => restoring \subseteq failed

RestoresAreSound == MatchedIsRestored /\ RestoringIsFailed
=============================================================================
