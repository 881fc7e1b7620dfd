------------------------------- MODULE DbBoot -------------------------------
(***************************************************************************)
(* The start of the SQLite store: src/lib/db/driver.js opens data.sqlite   *)
(* with the first driver that loads, and migrate.js (runMigrationOnce)     *)
(* backs the file up, runs the versioned migrations, syncs the schema and  *)
(* imports the JSON files of the releases before SQLite once.              *)
(*                                                                         *)
(* The process may die between any two of these steps.  A native driver    *)
(* makes every statement durable; sql.js (adapters/sqljsAdapter.js) works  *)
(* on an image in memory and writes the whole file back 100 ms after the   *)
(* last statement, so that a death loses what was not written, and a death *)
(* during the write leaves a truncated file.  Backup directories and the   *)
(* marker file are durable at once whatever the driver, but the backup's   *)
(* tables are copied by the connection: an ATTACHed database of sql.js is  *)
(* a file of its memory, and nothing reaches the directory.                *)
(***************************************************************************)
EXTENDS Integers, Sequences, FiniteSets

CONSTANTS
    Latest,       \* version of the newest migration (migrations/index.js)
    Schema,       \* SCHEMA_VERSION: what backupSchemaVersion is stamped with
    KeepBackups,  \* backup directories kept (backup.js)
    Drivers,      \* the drivers that may load, a subset of DriverKinds
    MaxBoots      \* bound: starts of the process

DriverKinds == {"native", "sqljs"}

ASSUME VersionsAssumption == Latest \in Nat \ {0} /\ Schema \in Nat \ {0}
ASSUME KeepAssumption == KeepBackups \in Nat \ {0}
ASSUME DriversAssumption == Drivers \subseteq DriverKinds /\ Drivers # {}
ASSUME BootsAssumption == MaxBoots \in Nat

VARIABLES
    disk,        \* data.sqlite as it is on the disk
    mem,         \* data.sqlite as the open connection sees it
    dirty,       \* sql.js: mem is not yet written back
    driver,      \* the driver of this boot
    legacy,      \* the JSON files: absent, good, or what importing them does
    marker,      \* .migrated-from-json exists
    backups,     \* the backup directories, newest first
    pc,          \* where the boot is
    fresh,       \* runMigrationOnce: the file had no _meta rows on entry
    importedBy,  \* history: the driver under which the marker was written
    gone,        \* history: data.sqlite was deleted, or truncated by a save
    original,    \* history: the file the pending schema change started from
    attempts,    \* history: backup directories made for the pending change
    copied,      \* history: the first of them got its tables
    boots        \* number of starts

files   == <<disk, mem, dirty, marker, backups>>
history == <<importedBy, gone, original, attempts, copied>>
vars    == <<disk, mem, dirty, driver, legacy, marker, backups, pc, fresh,
             importedBy, gone, original, attempts, copied,
             boots>>

-----------------------------------------------------------------------------
(* The database file, to the detail the boot looks at: the two version     *)
(* stamps of _meta, how often each migration ran, and how many times the   *)
(* JSON files were imported into it.  A file that does not exist and one   *)
(* of zero bytes open alike.                                               *)
Image   == [version : 0..Latest, stamp : 0..Schema,
            applied : [1..Latest -> Nat], imported : Nat]
Empty   == [version |-> 0, stamp |-> 0,
            applied |-> [v \in 1..Latest |-> 0], imported |-> 0]
At(v,s) == [version |-> v, stamp |-> s,
            applied |-> [w \in 1..Latest |-> IF w <= v THEN 1 ELSE 0],
            imported |-> 0]
Nothing == "none"

(* A backup directory: a copy of the file, one that got no whole copy, or  *)
(* the JSON files.                                                         *)
Backup    == [kind : {"schema", "partial", "json"}, of : Image]
Copy(img) == [kind |-> "schema", of |-> img]
Partial   == [kind |-> "partial", of |-> Empty]
Json      == [kind |-> "json", of |-> Empty]

Steps   == {"backup", "copy", "migrate", "sync", "import", "mark"}
Running == pc # "off"

(* _meta has rows as soon as one migration has been stamped.               *)
IsFresh(img) == img.version = 0 /\ img.stamp = 0

\* Mutant: one backup too few is kept.
MutantKeepsOneLess(s) ==
    SubSeq(s, 1, IF Len(s) < KeepBackups THEN Len(s) ELSE KeepBackups - 1)

Newest(s) == SubSeq(s, 1, IF Len(s) < KeepBackups THEN Len(s) ELSE KeepBackups)

(* A statement, or a transaction, through the open connection.             *)
Write(img) == /\ mem' = img
              /\ disk' = IF driver = "native" THEN img ELSE disk
              /\ dirty' = (driver = "sqljs")

TypeOK ==
    /\ disk \in Image
    /\ mem \in Image
    /\ dirty \in BOOLEAN
    /\ driver \in DriverKinds
    /\ legacy \in {"absent", "good", "mismatch", "throws"}
    /\ marker \in BOOLEAN
    /\ backups \in Seq(Backup)
    /\ pc \in Steps \cup {"off", "up", "stuck"}
    /\ fresh \in BOOLEAN
    /\ importedBy \in DriverKinds \cup {Nothing}
    /\ gone \in BOOLEAN
    /\ original \in Image
    /\ attempts \in Nat
    /\ copied \in BOOLEAN
    /\ boots \in 0..MaxBoots

(* The first start finds no file, or the file an older release left, and   *)
(* the JSON files of an even older one, or none.                           *)
Init ==
    /\ disk \in {Empty} \cup {At(v, s) : v \in 1..Latest, s \in 0..Schema}
    /\ mem = Empty
    /\ dirty = FALSE
    /\ driver \in Drivers
    /\ legacy \in {"absent", "good", "mismatch", "throws"}
    /\ marker = FALSE
    /\ backups = <<>>
    /\ pc = "off"
    /\ fresh = FALSE
    /\ importedBy = Nothing
    /\ gone = FALSE
    /\ original = Empty
    /\ attempts = 0
    /\ copied = FALSE
    /\ boots = 0

-----------------------------------------------------------------------------
(* initAdapter, and the head of runMigrationOnce: freshness is read before *)
(* anything is stamped, and old backups are pruned at every start.         *)
Boot(d) ==
    /\ pc = "off"
    /\ boots < MaxBoots
    /\ boots' = boots + 1
    /\ driver' = d
    /\ mem' = disk
    /\ fresh' = IsFresh(disk)
    /\ backups' = Newest(backups)
    /\ pc' = "backup"
    /\ UNCHANGED <<disk, dirty, legacy, marker, history>>

SchemaChanging == ~fresh /\ mem.stamp < Schema

(* The pre-schema backup: the directory first ...                          *)
MakeBackup ==
    /\ pc = "backup"
    /\ SchemaChanging
    /\ backups' = <<Partial>> \o backups
    /\ attempts' = attempts + 1
    /\ original' = IF attempts = 0 THEN mem ELSE original
    /\ copied' = IF attempts = 0 THEN FALSE ELSE copied
    /\ pc' = "copy"
    /\ UNCHANGED <<disk, mem, dirty, driver, legacy, marker, fresh,
                   importedBy, gone, boots>>

NoBackup ==
    /\ pc = "backup"
    /\ ~SchemaChanging
    /\ pc' = "migrate"
    /\ UNCHANGED <<files, driver, legacy, fresh, history, boots>>

(* What ATTACH and a copy of every table leave in the directory.           *)
Attached == IF driver = "native" THEN Copy(mem) ELSE Partial

(* ... then backupDbLite copies the tables into it.  A failure is logged   *)
(* and the boot goes on.                                                   *)
CopyBackup ==
    /\ pc = "copy"
    /\ backups' = Newest(<<Attached>> \o Tail(backups))
    /\ copied' = (copied \/ (attempts = 1 /\ driver = "native"))
    /\ pc' = "migrate"
    /\ UNCHANGED <<disk, mem, dirty, driver, legacy, marker, fresh,
                   importedBy, gone, original, attempts, boots>>

CopyFails ==
    /\ pc = "copy"
    /\ pc' = "migrate"
    /\ UNCHANGED <<files, driver, legacy, fresh, history, boots>>

(* The oldest pending migration and its version stamp, in one transaction. *)
\* Mutant: the last migration to have run counts as pending.
MutantPendingAgain == {v \in 1..Latest : v >= mem.version}

Pending == {v \in 1..Latest : v > mem.version}

Migrate ==
    /\ pc = "migrate"
    /\ \E v \in Pending :
         /\ \A w \in Pending : v <= w
         /\ Write([mem EXCEPT !.version = v, !.applied[v] = @ + 1])
    /\ UNCHANGED <<driver, legacy, marker, backups, pc, fresh, history, boots>>

Migrated ==
    /\ pc = "migrate"
    /\ Pending = {}
    /\ pc' = "sync"
    /\ UNCHANGED <<files, driver, legacy, fresh, history, boots>>

(* syncSchemaFromTables (idempotent), then the stamp that says the change  *)
(* is over.                                                                *)
Sync ==
    /\ pc = "sync"
    /\ Write([mem EXCEPT !.stamp = Schema])
    /\ attempts' = 0
    /\ pc' = "import"
    /\ UNCHANGED <<driver, legacy, marker, backups, fresh,
                   importedBy, gone, original, copied, boots>>

\* Mutant: only the marker keeps the import from being repeated.
MutantImportUnlessMarked == legacy # "absent" /\ ~marker

ShouldImport == fresh /\ legacy # "absent" /\ ~marker

NoImport ==
    /\ pc = "import"
    /\ ~ShouldImport
    /\ pc' = "up"
    /\ UNCHANGED <<files, driver, legacy, fresh, history, boots>>

(* The import is one transaction, after a backup of the JSON files.        *)
Import ==
    /\ pc = "import"
    /\ ShouldImport
    /\ legacy = "good"
    /\ backups' = <<Json>> \o backups
    /\ Write([mem EXCEPT !.imported = @ + 1])
    /\ pc' = "mark"
    /\ UNCHANGED <<driver, legacy, marker, fresh, importedBy, gone, original,
                   attempts, copied, boots>>

\* Mutant: after MigrationAborted the boot goes on to write the marker.
MutantAbortGoesOn ==
    /\ pc = "import"
    /\ ShouldImport
    /\ legacy \in {"mismatch", "throws"}
    /\ backups' = <<Json>> \o backups
    /\ pc' = IF legacy = "mismatch" THEN "mark" ELSE "stuck"
    /\ UNCHANGED <<disk, mem, dirty, driver, legacy, marker, fresh,
                   importedBy, gone, original, attempts, copied, boots>>

(* A row count that does not match the input throws MigrationAborted: the  *)
(* transaction rolls back and the boot returns without the marker.  Any    *)
(* other error leaves the rejected initPromise in place: every later call  *)
(* of getAdapter gets it, until the process is restarted.                  *)
ImportFails ==
    /\ pc = "import"
    /\ ShouldImport
    /\ legacy \in {"mismatch", "throws"}
    /\ backups' = <<Json>> \o backups
    /\ pc' = IF legacy = "mismatch" THEN "up" ELSE "stuck"
    /\ UNCHANGED <<disk, mem, dirty, driver, legacy, marker, fresh,
                   importedBy, gone, original, attempts, copied, boots>>

(* The marker file, and a last prune; a failed write is ignored.           *)
Mark ==
    /\ pc = "mark"
    /\ \/ marker' = TRUE /\ importedBy' = driver
       \/ UNCHANGED <<marker, importedBy>>
    /\ backups' = Newest(backups)
    /\ pc' = "up"
    /\ UNCHANGED <<disk, mem, dirty, driver, legacy, fresh,
                   gone, original, attempts, copied, boots>>

-----------------------------------------------------------------------------
(* sql.js: the timer that writes the image back.  runMigrationOnce never   *)
(* awaits, so it fires only once the boot is over.                         *)
Save ==
    /\ driver = "sqljs"
    /\ pc \in {"up", "stuck"}
    /\ dirty
    /\ disk' = mem
    /\ dirty' = FALSE
    /\ UNCHANGED <<mem, driver, legacy, marker, backups, pc, fresh, history, boots>>

(* Any later write of the running program, which is not told apart here.   *)
Work ==
    /\ driver = "sqljs"
    /\ pc = "up"
    /\ dirty' = TRUE
    /\ UNCHANGED <<disk, mem, driver, legacy, marker, backups, pc, fresh,
                   history, boots>>

(* The process dies, or is stopped: the handlers that would save a sql.js  *)
(* image run after the one that exits.                                     *)
Crash ==
    /\ Running
    /\ pc' = "off"
    /\ mem' = Empty
    /\ dirty' = FALSE
    /\ UNCHANGED <<disk, driver, legacy, marker, backups, fresh, history, boots>>

(* It dies in the middle of writeFileSync, which truncates first.          *)
TornSave ==
    /\ driver = "sqljs"
    /\ pc \in {"up", "stuck"}
    /\ dirty
    /\ pc' = "off"
    /\ mem' = Empty
    /\ disk' = Empty
    /\ dirty' = FALSE
    /\ gone' = TRUE
    /\ attempts' = 0
    /\ UNCHANGED <<driver, legacy, marker, backups, fresh,
                   importedBy, original, copied, boots>>

(* The operator, while the process is down: deletes data.sqlite, or mends  *)
(* the JSON files.                                                         *)
WipeDb ==
    /\ pc = "off"
    /\ disk # Empty
    /\ disk' = Empty
    /\ gone' = TRUE
    /\ attempts' = 0
    /\ UNCHANGED <<mem, dirty, driver, legacy, marker, backups, pc, fresh,
                   importedBy, original, copied, boots>>

MendLegacy ==
    /\ pc = "off"
    /\ legacy \in {"mismatch", "throws"}
    /\ legacy' = "good"
    /\ UNCHANGED <<files, driver, pc, fresh, history, boots>>

Next ==
    \/ \E d \in Drivers : Boot(d)
    \/ MakeBackup
    \/ NoBackup
    \/ CopyBackup
    \/ CopyFails
    \/ Migrate
    \/ Migrated
    \/ Sync
    \/ NoImport
    \/ Import
    \/ ImportFails
    \/ Mark
    \/ Save
    \/ Work
    \/ Crash
    \/ TornSave
    \/ WipeDb
    \/ MendLegacy

Spec == Init /\ [][Next]_vars
-----------------------------------------------------------------------------
(* Every migration up to the stamped version ran exactly once on the file, *)
(* and none beyond it, however often the upgrade was interrupted           *)
(* (runVersionedMigrations commits a migration together with its stamp).   *)
AppliedExactlyOnce ==
    \A img \in {disk} \cup (IF Running THEN {mem} ELSE {}) :
        \A v \in 1..Latest : img.applied[v] = IF v <= img.version THEN 1 ELSE 0

(* The JSON files are imported into one file at most once: a second import *)
(* would double the usage history, which is inserted without a key.        *)
ImportedAtMostOnce == disk.imported <= 1 /\ mem.imported <= 1

(* The marker forbids the import for good, so it must not exist unless the *)
(* imported rows are safely on the disk: if a native driver imported them, *)
(* they are, until the file is deleted or a save by sql.js truncates it.   *)
MarkerMeansSaved ==
    marker /\ importedBy = "native" /\ ~gone => disk.imported = 1

(* The file as it was before a schema change is among the kept backups     *)
(* until the change is done, if a native driver made the first copy and    *)
(* made it whole, and no more than KeepBackups boots have been cut short:  *)
(* each makes a backup of its own, and pushes out the oldest.              *)
PristineBackupKept ==
    attempts \in 1..KeepBackups /\ copied
        => \E i \in 1..Len(backups) : backups[i] = Copy(original)

=============================================================================
