--------------------------- MODULE StorageProofs ----------------------------
(***************************************************************************)
(* Proofs about the components of src/lib/db.                              *)
(*                                                                         *)
(* DbBoot, for every number of migrations, every schema version, every     *)
(* number of kept backups and of starts, and both kinds of driver: the     *)
(* process may die between any two steps of a boot.                        *)
(*                                                                         *)
(* Connections, for any people, key names, overlapping requests and number *)
(* of rows: whose row a login updates, that a deleted row stays deleted,   *)
(* and that a renumbering keeps the order.                                 *)
(*                                                                         *)
(* StreamLifecycle, for any requests, accounts and limits of the record    *)
(* buffer: what the pending counters show, and that the usage of an answer *)
(* is saved once. What the buffer holds plays no part here, so the types   *)
(* of RequestDetails are left to TLC.                                      *)
(***************************************************************************)
EXTENDS DbBoot, Connections, StreamLifecycle, SequenceTheorems, FiniteSetTheorems,
        WellFoundedInduction, TLAPS

-----------------------------------------------------------------------------
(* The start of the database.                                              *)

-----------------------------------------------------------------------------
(* Images and backups. *)

LEMMA EmptyType == Empty \in Image
  BY VersionsAssumption DEF Empty, Image

LEMMA AtType ==
  ASSUME NEW v \in 1..Latest, NEW s \in 0..Schema
  PROVE  At(v, s) \in Image
  BY VersionsAssumption DEF At, Image

\* The files a migration, the schema stamp and the import write.
LEMMA WrittenImages ==
  ASSUME NEW img \in Image
  PROVE  /\ \A v \in 1..Latest : [img EXCEPT !.version = v, !.applied[v] = @ + 1] \in Image
         /\ [img EXCEPT !.stamp = Schema] \in Image
         /\ [img EXCEPT !.imported = @ + 1] \in Image
<1>1. /\ img.version \in 0..Latest /\ img.stamp \in 0..Schema
      /\ img.applied \in [1..Latest -> Nat] /\ img.imported \in Nat
  BY DEF Image
<1>2. ASSUME NEW v \in 1..Latest
      PROVE  [img EXCEPT !.version = v, !.applied[v] = @ + 1] \in Image
  <2> DEFINE a == [img.applied EXCEPT ![v] = @ + 1]
  <2>1. a \in [1..Latest -> Nat] /\ v \in 0..Latest
    BY <1>1, VersionsAssumption
  <2>2. [img EXCEPT !.version = v, !.applied = a] \in Image
    BY <1>1, <2>1 DEF Image
  <2>3. [img EXCEPT !.version = v, !.applied[v] = @ + 1] = [img EXCEPT !.version = v, !.applied = a]
    BY Zenon DEF Image
  <2> QED BY <2>2, <2>3
<1>3. [img EXCEPT !.stamp = Schema] \in Image
  BY <1>1, VersionsAssumption DEF Image
<1>4. [img EXCEPT !.imported = @ + 1] \in Image
  BY <1>1 DEF Image
<1> QED BY <1>2, <1>3, <1>4

LEMMA BackupTypes ==
  /\ Partial \in Backup /\ Json \in Backup
  /\ \A img \in Image : Copy(img) \in Backup
  BY EmptyType DEF Backup, Partial, Json, Copy

\* A new backup directory is the first; the others move down by one.
LEMMA Prepended ==
  ASSUME NEW b \in Backup, NEW s \in Seq(Backup)
  PROVE  /\ <<b>> \o s \in Seq(Backup)
         /\ <<b>> \o s # <<>>
         /\ Len(<<b>> \o s) = Len(s) + 1
         /\ (<<b>> \o s)[1] = b
         /\ \A i \in 1..Len(s) : (<<b>> \o s)[i + 1] = s[i]
<1>1. <<b>> \in Seq(Backup) /\ Len(<<b>>) = 1 /\ <<b>>[1] = b
  OBVIOUS
<1>2. Len(s) \in Nat
  BY LenProperties
<1>3. /\ <<b>> \o s \in Seq(Backup)
      /\ Len(<<b>> \o s) = 1 + Len(s)
      /\ \A i \in 1 .. 1 + Len(s) :
           (<<b>> \o s)[i] = IF i <= 1 THEN <<b>>[i] ELSE s[i - 1]
  BY <1>1, ConcatProperties
<1>4. \A i \in 1..Len(s) : (<<b>> \o s)[i + 1] = s[i]
  BY <1>2, <1>3
<1> QED BY <1>1, <1>2, <1>3, <1>4, EmptySeq

\* Pruning keeps the newest KeepBackups directories, in place.
LEMMA Pruned ==
  ASSUME NEW s \in Seq(Backup)
  PROVE  /\ Newest(s) \in Seq(Backup)
         /\ Len(Newest(s)) = IF Len(s) < KeepBackups THEN Len(s) ELSE KeepBackups
         /\ \A i \in 1..Len(Newest(s)) : Newest(s)[i] = s[i]
<1> DEFINE n == IF Len(s) < KeepBackups THEN Len(s) ELSE KeepBackups
<1>1. Len(s) \in Nat /\ n \in Nat /\ n <= Len(s)
  BY LenProperties, KeepAssumption
<1>2. \A i \in 1..n : s[i] \in Backup
  BY <1>1, ElementOfSeq
<1>3. /\ SubSeq(s, 1, n) \in Seq(Backup)
      /\ Len(SubSeq(s, 1, n)) = IF 1 <= n THEN n - 1 + 1 ELSE 0
      /\ \A i \in 1 .. n - 1 + 1 : SubSeq(s, 1, n)[i] = s[1 + i - 1]
  BY <1>1, <1>2, SubSeqProperties
<1> QED BY <1>1, <1>3 DEF Newest

-----------------------------------------------------------------------------
(* Types. *)

\* Between the creation of a backup directory and its copy there is one.
Typed == TypeOK /\ (pc = "copy" => backups # <<>>)

LEMMA InitTyped == Init => Typed
<1> SUFFICES ASSUME Init PROVE Typed
  OBVIOUS
<1>1. disk \in Image /\ mem \in Image /\ original \in Image
  BY EmptyType, AtType DEF Init
<1>2. driver \in DriverKinds /\ boots \in 0..MaxBoots
  BY DriversAssumption, BootsAssumption DEF Init
<1>3. backups \in Seq(Backup) /\ pc # "copy"
  BY EmptySeq DEF Init
<1>4. dirty = FALSE /\ marker = FALSE /\ fresh = FALSE
  BY DEF Init
<1>5. gone = FALSE /\ copied = FALSE
  BY DEF Init
<1>6. /\ dirty \in BOOLEAN /\ marker \in BOOLEAN /\ fresh \in BOOLEAN
      /\ gone \in BOOLEAN /\ copied \in BOOLEAN
  BY <1>4, <1>5, Zenon
<1>7. /\ legacy \in {"absent", "good", "mismatch", "throws"} /\ attempts \in Nat
      /\ pc \in Steps \cup {"off", "up", "stuck"}
      /\ importedBy \in DriverKinds \cup {Nothing}
  BY DEF Init, Nothing
<1> QED BY <1>1, <1>2, <1>3, <1>6, <1>7 DEF Typed, TypeOK

LEMMA NextTyped == Typed /\ [Next]_vars => Typed'
<1> SUFFICES ASSUME Typed, [Next]_vars PROVE Typed'
  OBVIOUS
<1> USE DEF Typed, TypeOK
<1>1. ASSUME NEW d \in Drivers, Boot(d) PROVE Typed'
  <2>1. backups' \in Seq(Backup) /\ driver' \in DriverKinds /\ boots' \in 0..MaxBoots
    BY <1>1, Pruned, DriversAssumption, BootsAssumption DEF Boot
  <2>2. fresh' = IsFresh(disk)
    BY <1>1 DEF Boot
  <2>3. fresh' \in BOOLEAN
    BY <2>2, Zenon DEF IsFresh
  <2> QED BY <1>1, <2>1, <2>3 DEF Boot, history, Steps
<1>2. CASE MakeBackup
  <2>1. backups' \in Seq(Backup) /\ backups' # <<>>
    BY <1>2, Prepended, BackupTypes DEF MakeBackup
  <2>2. copied' = (IF attempts = 0 THEN FALSE ELSE copied)
    BY <1>2 DEF MakeBackup
  <2>3. copied' \in BOOLEAN
    BY <2>2, Zenon
  <2>4. attempts' \in Nat /\ original' \in Image /\ pc' \in Steps
    BY <1>2 DEF MakeBackup, Steps
  <2>5. UNCHANGED <<disk, mem, dirty, driver, legacy, marker, fresh,
                    importedBy, gone, boots>>
    BY <1>2 DEF MakeBackup
  <2> QED BY <2>1, <2>3, <2>4, <2>5
<1>3. CASE NoBackup
  BY <1>3 DEF NoBackup, files, history, Steps
<1>4. CASE CopyBackup
  <2>1. Attached \in Backup /\ Tail(backups) \in Seq(Backup)
    BY <1>4, BackupTypes, HeadTailProperties DEF CopyBackup, Attached
  <2>2. backups' \in Seq(Backup)
    BY <1>4, <2>1, Prepended, Pruned DEF CopyBackup
  <2> QED BY <1>4, <2>2 DEF CopyBackup, Steps
<1>5. CASE CopyFails
  BY <1>5 DEF CopyFails, files, history, Steps
<1>6. CASE Migrate
  <2>1. PICK v \in Pending : Write([mem EXCEPT !.version = v, !.applied[v] = @ + 1])
    BY <1>6 DEF Migrate
  <2>2. [mem EXCEPT !.version = v, !.applied[v] = @ + 1] \in Image
    BY <2>1, WrittenImages DEF Pending
  <2> QED BY <1>6, <2>1, <2>2 DEF Migrate, Write, history
<1>7. CASE Migrated
  BY <1>7 DEF Migrated, files, history, Steps
<1>8. CASE Sync
  <2>1. [mem EXCEPT !.stamp = Schema] \in Image
    BY WrittenImages
  <2> QED BY <1>8, <2>1 DEF Sync, Write, Steps
<1>9. CASE NoImport
  BY <1>9 DEF NoImport, files, history
<1>10. CASE Import
  <2>1. [mem EXCEPT !.imported = @ + 1] \in Image
    BY WrittenImages
  <2>2. backups' \in Seq(Backup)
    BY <1>10, Prepended, BackupTypes DEF Import
  <2> QED BY <1>10, <2>1, <2>2 DEF Import, Write, Steps
<1>11. CASE ImportFails
  <2>1. backups' \in Seq(Backup)
    BY <1>11, Prepended, BackupTypes DEF ImportFails
  <2> QED BY <1>11, <2>1 DEF ImportFails
<1>12. CASE Mark
  BY <1>12, Pruned DEF Mark
<1>13. CASE Save \/ Work
  BY <1>13 DEF Save, Work, history
<1>14. CASE Crash \/ TornSave
  <2>1. dirty' = FALSE /\ (gone' = gone \/ gone' = TRUE)
    BY <1>14 DEF Crash, TornSave, history
  <2>2. dirty' \in BOOLEAN /\ gone' \in BOOLEAN
    BY <2>1, Zenon
  <2> QED BY <1>14, <2>2, EmptyType DEF Crash, TornSave, history
<1>15. CASE WipeDb \/ MendLegacy
  <2>1. gone' = gone \/ gone' = TRUE
    BY <1>15 DEF WipeDb, MendLegacy, history
  <2>2. gone' \in BOOLEAN
    BY <2>1, Zenon
  <2> QED BY <1>15, <2>2, EmptyType DEF WipeDb, MendLegacy, files, history
<1>16. CASE UNCHANGED vars
  BY <1>16 DEF vars
<1> QED BY <1>1, <1>2, <1>3, <1>4, <1>5, <1>6, <1>7, <1>8, <1>9, <1>10, <1>11, <1>12,
           <1>13, <1>14, <1>15, <1>16 DEF Next

LEMMA TypedInvariant == Spec => []Typed
  BY InitTyped, NextTyped, PTL DEF Spec

\* Every variable of the boot keeps its type.
THEOREM BootTypeCorrect == Spec => []TypeOK
<1>1. Typed => TypeOK
  BY DEF Typed
<1> QED BY TypedInvariant, <1>1, PTL

-----------------------------------------------------------------------------
(* Migrations: on the file and on what the connection sees of it.          *)

Counted(img) ==
    \A v \in 1..Latest : img.applied[v] = IF v <= img.version THEN 1 ELSE 0

AppliedInv == Typed /\ Counted(disk) /\ Counted(mem)

\* The files of a first start are counted.
LEMMA FirstCounted ==
  /\ Counted(Empty)
  /\ \A v \in 1..Latest, s \in 0..Schema : Counted(At(v, s))
<1>1. Counted(Empty)
  BY VersionsAssumption DEF Counted, Empty
<1>2. ASSUME NEW v \in 1..Latest, NEW s \in 0..Schema PROVE Counted(At(v, s))
  BY DEF Counted, At
<1> QED BY <1>1, <1>2

\* The least pending version is the one after the stamped version.
LEMMA StepCounted ==
  ASSUME NEW img \in Image, Counted(img),
         NEW v \in 1..Latest, v > img.version,
         \A w \in {u \in 1..Latest : u > img.version} : v <= w
  PROVE  Counted([img EXCEPT !.version = v, !.applied[v] = @ + 1])
<1> DEFINE a == [img.applied EXCEPT ![v] = @ + 1]
           new == [img EXCEPT !.version = v, !.applied = a]
<1>1. img.version \in 0..Latest /\ img.applied \in [1..Latest -> Nat]
  BY DEF Image
<1>2. v = img.version + 1
  <2>1. img.version + 1 \in 1..Latest /\ img.version + 1 > img.version
    BY <1>1, VersionsAssumption
  <2>2. v <= img.version + 1
    BY <2>1
  <2> QED BY <1>1, <2>2, VersionsAssumption
<1>3. new.version = v /\ new.applied = a
  BY DEF Image
<1>4. ASSUME NEW w \in 1..Latest PROVE a[w] = IF w <= v THEN 1 ELSE 0
  BY <1>1, <1>2, VersionsAssumption DEF Counted
<1>5. Counted(new)
  BY <1>3, <1>4 DEF Counted
<1>6. [img EXCEPT !.version = v, !.applied[v] = @ + 1] = new
  BY Zenon DEF Image
<1> QED BY <1>5, <1>6

\* The schema stamp and the import leave the migrations alone.
LEMMA OthersCounted ==
  ASSUME NEW img \in Image, Counted(img)
  PROVE  /\ Counted([img EXCEPT !.stamp = Schema])
         /\ Counted([img EXCEPT !.imported = @ + 1])
  BY DEF Counted, Image

LEMMA InitApplied == Init => AppliedInv
<1> SUFFICES ASSUME Init PROVE AppliedInv
  OBVIOUS
<1>1. Counted(disk) /\ Counted(mem)
  BY FirstCounted DEF Init
<1> QED BY <1>1, InitTyped DEF AppliedInv

LEMMA NextApplied == AppliedInv /\ [Next]_vars => AppliedInv'
<1> SUFFICES ASSUME AppliedInv, [Next]_vars PROVE Counted(disk') /\ Counted(mem')
  BY NextTyped DEF AppliedInv, Counted
<1>0. disk \in Image /\ mem \in Image /\ Counted(disk) /\ Counted(mem)
  BY DEF AppliedInv, Typed, TypeOK
<1>1. CASE Migrate
  <2>1. PICK v \in Pending :
          /\ \A w \in Pending : v <= w
          /\ Write([mem EXCEPT !.version = v, !.applied[v] = @ + 1])
    BY <1>1 DEF Migrate
  <2>2. Counted([mem EXCEPT !.version = v, !.applied[v] = @ + 1])
    BY <1>0, <2>1, StepCounted DEF Pending
  <2> QED BY <1>0, <2>1, <2>2 DEF Write
<1>2. CASE Sync
  BY <1>0, <1>2, OthersCounted DEF Sync, Write
<1>3. CASE Import
  BY <1>0, <1>3, OthersCounted DEF Import, Write
<1>4. CASE \E d \in Drivers : Boot(d)
  BY <1>0, <1>4 DEF Boot
<1>5. CASE Save
  BY <1>0, <1>5 DEF Save
<1>6. CASE Crash \/ TornSave \/ WipeDb
  BY <1>0, <1>6, FirstCounted DEF Crash, TornSave, WipeDb
<1>7. CASE UNCHANGED <<disk, mem>>
  BY <1>0, <1>7
<1>8. CASE MakeBackup \/ NoBackup \/ CopyBackup \/ CopyFails \/ Migrated \/ NoImport
           \/ ImportFails \/ Mark \/ Work \/ MendLegacy \/ UNCHANGED vars
  BY <1>7, <1>8 DEF MakeBackup, NoBackup, CopyBackup, CopyFails, Migrated, NoImport,
       ImportFails, Mark, Work, MendLegacy, files, vars
<1> QED BY <1>1, <1>2, <1>3, <1>4, <1>5, <1>6, <1>8 DEF Next

\* However often an upgrade is interrupted, every migration up to the stamped
\* version has run exactly once on the file and none beyond it, because
\* runVersionedMigrations commits a migration together with its stamp.
THEOREM MigrationsRunOnce == Spec => []AppliedExactlyOnce
<1>1. AppliedInv => AppliedExactlyOnce
  BY DEF AppliedInv, Counted, AppliedExactlyOnce
<1>2. Spec => []AppliedInv
  BY InitApplied, NextApplied, PTL DEF Spec
<1> QED BY <1>1, <1>2, PTL

-----------------------------------------------------------------------------
(* The import.  A file without stamps has never been imported into; a boot *)
(* that found it so has imported nothing before it reaches the import, and *)
(* the schema stamp keeps the next boot from finding it so again.          *)

Unimported == \A img \in {disk, mem} : IsFresh(img) => img.imported = 0

NotYet == /\ pc \in {"backup", "copy", "migrate", "sync", "import"} /\ fresh => mem.imported = 0
          /\ pc = "import" => mem.stamp = Schema

OnceInv == Typed /\ Unimported /\ NotYet /\ ImportedAtMostOnce

\* What the writes do to the stamps and to the count of imports.
LEMMA WrittenStamps ==
  ASSUME NEW img \in Image
  PROVE  /\ img.version \in 0..Latest /\ img.stamp \in 0..Schema /\ img.imported \in Nat
         /\ \A v \in 1..Latest :
              LET new == [img EXCEPT !.version = v, !.applied[v] = @ + 1]
              IN  new.version = v /\ new.stamp = img.stamp /\ new.imported = img.imported
         /\ LET new == [img EXCEPT !.stamp = Schema]
            IN  new.stamp = Schema /\ new.imported = img.imported
         /\ LET new == [img EXCEPT !.imported = @ + 1]
            IN  /\ new.version = img.version /\ new.stamp = img.stamp
                /\ new.imported = img.imported + 1
  BY DEF Image

LEMMA InitOnce == Init => OnceInv
<1> SUFFICES ASSUME Init PROVE OnceInv
  OBVIOUS
<1>1. disk.imported = 0 /\ mem.imported = 0 /\ pc = "off"
  BY DEF Init, Empty, At
<1> QED BY <1>1, InitTyped DEF OnceInv, Unimported, NotYet, ImportedAtMostOnce

LEMMA NextOnce == OnceInv /\ [Next]_vars => OnceInv'
<1> SUFFICES ASSUME OnceInv, [Next]_vars
             PROVE  Unimported' /\ NotYet' /\ ImportedAtMostOnce'
  BY NextTyped DEF OnceInv
<1> USE DEF Unimported, NotYet, ImportedAtMostOnce
<1>0. disk \in Image /\ mem \in Image /\ Unimported /\ NotYet /\ ImportedAtMostOnce
  BY DEF OnceInv, Typed, TypeOK
<1>1. CASE Migrate
  <2>1. PICK v \in 1..Latest : Write([mem EXCEPT !.version = v, !.applied[v] = @ + 1])
    BY <1>1 DEF Migrate, Pending
  <2>2. mem'.version = v /\ mem'.imported = mem.imported /\ (disk' = mem' \/ disk' = disk)
    BY <1>0, <2>1, WrittenStamps DEF Write
  <2>3. ~IsFresh(mem')
    BY <2>2 DEF IsFresh
  <2> QED BY <1>0, <1>1, <2>2, <2>3 DEF Migrate, history
<1>2. CASE Sync
  <2>1. mem'.stamp = Schema /\ mem'.imported = mem.imported /\ (disk' = mem' \/ disk' = disk)
    BY <1>0, <1>2, WrittenStamps DEF Sync, Write
  <2>2. ~IsFresh(mem')
    BY <2>1, VersionsAssumption DEF IsFresh
  <2> QED BY <1>0, <1>2, <2>1, <2>2 DEF Sync
<1>3. CASE Import
  <2>1. mem.imported = 0 /\ mem.stamp = Schema
    BY <1>0, <1>3 DEF Import, ShouldImport
  <2>2. /\ mem'.stamp = Schema /\ mem'.imported = 1 /\ (disk' = mem' \/ disk' = disk)
        /\ pc' = "mark"
    BY <1>0, <1>3, <2>1, WrittenStamps DEF Import, Write
  <2>3. ~IsFresh(mem')
    BY <2>2, VersionsAssumption DEF IsFresh
  <2> QED BY <1>0, <2>2, <2>3
<1>4. CASE \E d \in Drivers : Boot(d)
  <2>1. mem' = disk /\ disk' = disk /\ pc' = "backup" /\ (fresh' <=> IsFresh(disk))
    BY <1>4 DEF Boot
  <2> QED BY <1>0, <2>1
<1>5. CASE Save
  BY <1>0, <1>5 DEF Save, history
<1>6. CASE Crash \/ TornSave \/ WipeDb
  BY <1>0, <1>6 DEF Crash, TornSave, WipeDb, Empty, history
<1>7. CASE /\ UNCHANGED <<disk, mem, fresh>>
           /\ \/ pc' = pc \/ pc' \in {"up", "mark", "stuck"}
              \/ pc \in {"backup", "copy", "migrate"} /\ pc' \in {"copy", "migrate", "sync"}
  BY <1>0, <1>7
<1>8. CASE MakeBackup \/ NoBackup \/ CopyBackup \/ CopyFails \/ Migrated \/ NoImport
           \/ ImportFails \/ Mark \/ Work \/ MendLegacy \/ UNCHANGED vars
  BY <1>7, <1>8 DEF MakeBackup, NoBackup, CopyBackup, CopyFails, Migrated, NoImport,
       ImportFails, Mark, Work, MendLegacy, files, vars
<1> QED BY <1>1, <1>2, <1>3, <1>4, <1>5, <1>6, <1>8 DEF Next

LEMMA OnceInvariant == Spec => []OnceInv
  BY InitOnce, NextOnce, PTL DEF Spec

\* The JSON files are imported into one file at most once, wherever the boots
\* die (isFreshDb and the stamps that runMigrationOnce writes before the import).
THEOREM ImportedOnce == Spec => []ImportedAtMostOnce
<1>1. OnceInv => ImportedAtMostOnce
  BY DEF OnceInv
<1> QED BY OnceInvariant, <1>1, PTL

-----------------------------------------------------------------------------
(* The marker. A native driver has no state of its own: what the           *)
(* connection sees is what the disk holds.                                 *)

Durable == driver = "native" /\ Running => disk = mem

AtMark == pc = "mark" => mem.imported = 1

Marked == marker /\ importedBy = "native" /\ ~gone
              => disk.imported = 1 /\ (Running => mem.imported = 1)

MarkerInv == OnceInv /\ Durable /\ AtMark /\ Marked

LEMMA InitMarker == Init => MarkerInv
<1> SUFFICES ASSUME Init PROVE MarkerInv
  OBVIOUS
<1>1. pc = "off" /\ importedBy # "native"
  BY DEF Init, Nothing
<1> QED BY <1>1, InitOnce DEF MarkerInv, Durable, AtMark, Marked, Running

LEMMA NextMarker == MarkerInv /\ [Next]_vars => MarkerInv'
<1> SUFFICES ASSUME MarkerInv, [Next]_vars PROVE Durable' /\ AtMark' /\ Marked'
  BY NextOnce DEF MarkerInv
<1> USE DEF Durable, AtMark, Marked, Running
<1>0. disk \in Image /\ mem \in Image /\ driver \in DriverKinds /\ NotYet /\ Durable /\ AtMark /\ Marked
  BY DEF MarkerInv, OnceInv, Typed, TypeOK
<1>1. CASE Migrate \/ Sync
  <2>1. /\ mem'.imported = mem.imported /\ Running /\ pc' # "mark"
        /\ disk' = IF driver = "native" THEN mem' ELSE disk
        /\ UNCHANGED <<driver, marker, importedBy, gone>>
    <3>1. CASE Migrate
      <4>1. PICK v \in 1..Latest : Write([mem EXCEPT !.version = v, !.applied[v] = @ + 1])
        BY <3>1 DEF Migrate, Pending
      <4>2. mem'.imported = mem.imported /\ (disk' = IF driver = "native" THEN mem' ELSE disk)
        BY <1>0, <4>1, WrittenStamps DEF Write
      <4> QED BY <3>1, <4>2 DEF Migrate, history
    <3>2. CASE Sync
      BY <1>0, <3>2, WrittenStamps DEF Sync, Write
    <3> QED BY <1>1, <3>1, <3>2
  <2> QED BY <1>0, <2>1
<1>2. CASE Import
  <2>1. mem'.imported = 1
    BY <1>0, <1>2, WrittenStamps DEF Import, Write, NotYet, ShouldImport
  <2>2. ~marker /\ marker' = marker /\ driver' = driver
    BY <1>2 DEF Import, ShouldImport
  <2>3. driver = "native" => disk' = mem'
    BY <1>2 DEF Import, Write
  <2> QED BY <2>1, <2>2, <2>3
<1>3. CASE Mark
  BY <1>0, <1>3 DEF Mark
<1>4. CASE \E d \in Drivers : Boot(d)
  BY <1>0, <1>4 DEF Boot, history
<1>5. CASE Save
  BY <1>0, <1>5 DEF Save, history
<1>6. CASE Crash \/ TornSave \/ WipeDb
  BY <1>0, <1>6 DEF Crash, TornSave, WipeDb, history
<1>7. CASE /\ UNCHANGED <<disk, mem, driver, marker, importedBy, gone>>
           /\ pc' = pc \/ (pc' # "mark" /\ Running)
  BY <1>0, <1>7
<1>8. CASE MakeBackup \/ NoBackup \/ CopyBackup \/ CopyFails \/ Migrated \/ NoImport
           \/ ImportFails \/ Work \/ MendLegacy \/ UNCHANGED vars
  BY <1>7, <1>8 DEF MakeBackup, NoBackup, CopyBackup, CopyFails, Migrated, NoImport,
       ImportFails, Work, MendLegacy, files, history, vars
<1> QED BY <1>1, <1>2, <1>3, <1>4, <1>5, <1>6, <1>8 DEF Next

\* When a native driver wrote the marker that forbids the import for good, the
\* imported rows are on the disk, until the file is deleted or truncated.
THEOREM MarkerIsEarned == Spec => []MarkerMeansSaved
<1>1. MarkerInv => MarkerMeansSaved
  BY DEF MarkerInv, Marked, MarkerMeansSaved
<1>2. Spec => []MarkerInv
  BY InitMarker, NextMarker, PTL DEF Spec
<1> QED BY <1>1, <1>2, PTL

-----------------------------------------------------------------------------
(* The pristine backup. Every boot cut short in a pending schema change    *)
(* adds one directory in front, so after n of them the first is among the  *)
(* n newest.                                                               *)

StillKept == attempts \in 1..KeepBackups /\ copied
                 => \E i \in 1..attempts : i <= Len(backups) /\ backups[i] = Copy(original)

AtCopy == pc = "copy" => /\ backups # <<>> /\ backups[1] = Partial
                         /\ attempts = 1 => original = mem

ChangeOver == pc \in {"import", "mark"} => attempts = 0

KeptInv == Typed /\ StillKept /\ AtCopy /\ ChangeOver

LEMMA InitKept == Init => KeptInv
<1> SUFFICES ASSUME Init PROVE KeptInv
  OBVIOUS
<1>1. pc = "off" /\ attempts = 0
  BY DEF Init
<1> QED BY <1>1, InitTyped DEF KeptInv, StillKept, AtCopy, ChangeOver

\* A prune leaves the pristine backup where it is.
LEMMA PruneKeeps ==
  ASSUME NEW s \in Seq(Backup), NEW b, NEW i \in 1..KeepBackups, i <= Len(s), s[i] = b
  PROVE  i <= Len(Newest(s)) /\ Newest(s)[i] = b
<1>1. Len(s) \in Nat /\ KeepBackups \in Nat
  BY LenProperties, KeepAssumption
<1>2. i <= Len(Newest(s))
  BY <1>1, Pruned
<1>3. i \in 1..Len(Newest(s))
  BY <1>1, <1>2, Pruned
<1> QED BY <1>2, <1>3, Pruned

LEMMA NextKept == KeptInv /\ [Next]_vars => KeptInv'
<1> SUFFICES ASSUME KeptInv, [Next]_vars PROVE StillKept' /\ AtCopy' /\ ChangeOver'
  BY NextTyped DEF KeptInv
<1>0. /\ backups \in Seq(Backup) /\ Len(backups) \in Nat /\ attempts \in Nat
      /\ KeepBackups \in Nat \ {0} /\ mem \in Image
      /\ StillKept /\ AtCopy /\ ChangeOver
  BY LenProperties, KeepAssumption DEF KeptInv, Typed, TypeOK
<1>1. CASE MakeBackup
  <2>1. /\ Len(backups') = Len(backups) + 1 /\ backups'[1] = Partial /\ backups' # <<>>
        /\ \A i \in 1..Len(backups) : backups'[i + 1] = backups[i]
    BY <1>0, <1>1, Prepended, BackupTypes DEF MakeBackup
  <2>2. attempts' = attempts + 1 /\ pc' = "copy"
    BY <1>1 DEF MakeBackup
  <2>3. CASE attempts = 0
    <3>1. ~copied' /\ original' = mem /\ mem' = mem
      BY <1>1, <2>3 DEF MakeBackup
    <3> QED BY <2>1, <2>2, <3>1 DEF StillKept, AtCopy, ChangeOver
  <2>4. CASE attempts # 0
    <3>1. (copied' <=> copied) /\ original' = original /\ attempts' # 1
      BY <1>0, <1>1, <2>2, <2>4 DEF MakeBackup
    <3>2. ASSUME attempts' \in 1..KeepBackups, copied'
          PROVE  \E i \in 1..attempts' : i <= Len(backups') /\ backups'[i] = Copy(original')
      <4>1. PICK i \in 1..attempts : i <= Len(backups) /\ backups[i] = Copy(original)
        BY <1>0, <2>2, <2>4, <3>1, <3>2 DEF StillKept
      <4>2. i + 1 \in 1..attempts' /\ i + 1 <= Len(backups') /\ backups'[i + 1] = Copy(original')
        BY <1>0, <2>1, <2>2, <3>1, <4>1
      <4> QED BY <4>2
    <3> QED BY <2>1, <2>2, <3>1, <3>2 DEF StillKept, AtCopy, ChangeOver
  <2> QED BY <2>3, <2>4
<1>2. CASE CopyBackup
  <2> DEFINE s == <<Attached>> \o Tail(backups)
  <2>0. Attached \in Backup
    BY <1>0, BackupTypes DEF Attached
  <2>1. backups # <<>> /\ backups[1] = Partial
    BY <1>0, <1>2 DEF AtCopy, CopyBackup
  <2>2. /\ Tail(backups) \in Seq(Backup) /\ Len(Tail(backups)) = Len(backups) - 1
        /\ \A i \in 1..Len(Tail(backups)) : Tail(backups)[i] = backups[i + 1]
    BY <1>0, <2>1, HeadTailProperties
  <2>3. /\ s \in Seq(Backup) /\ Len(s) = Len(Tail(backups)) + 1 /\ s[1] = Attached
        /\ \A i \in 1..Len(Tail(backups)) : s[i + 1] = Tail(backups)[i]
    BY <2>0, <2>2, Prepended
  <2>4. Len(s) = Len(backups) /\ \A i \in 2..Len(backups) : s[i] = backups[i]
    <3>1. ASSUME NEW i \in 2..Len(backups) PROVE s[i] = backups[i]
      <4>1. i - 1 \in 1..Len(Tail(backups)) /\ (i - 1) + 1 = i
        BY <1>0, <2>2
      <4> HIDE DEF s
      <4> QED BY <4>1, <2>2, <2>3
    <3> QED BY <1>0, <2>2, <2>3, <3>1
  <2> HIDE DEF s
  <2>5. /\ backups' = Newest(s) /\ pc' = "migrate" /\ attempts' = attempts /\ original' = original
        /\ copied' <=> (copied \/ (attempts = 1 /\ driver = "native"))
    BY <1>2 DEF CopyBackup, s
  <2>6. ASSUME attempts \in 1..KeepBackups, copied \/ (attempts = 1 /\ driver = "native")
        PROVE  \E i \in 1..attempts : i <= Len(s) /\ s[i] = Copy(original)
    <3>1. CASE attempts = 1
      <4>1. ~copied
        <5> SUFFICES ASSUME copied PROVE FALSE
          OBVIOUS
        <5>1. PICK i \in 1..attempts : i <= Len(backups) /\ backups[i] = Copy(original)
          BY <2>6, <1>0 DEF StillKept
        <5>2. i = 1
          BY <3>1, <5>1
        <5> QED BY <2>1, <5>1, <5>2 DEF Partial, Copy
      <4>2. Attached = Copy(mem) /\ original = mem
        BY <1>0, <1>2, <2>6, <3>1, <4>1 DEF AtCopy, CopyBackup, Attached
      <4>3. s[1] = Copy(original) /\ 1 <= Len(s)
        BY <1>0, <2>2, <2>3, <4>2, LenProperties
      <4> QED BY <3>1, <4>3
    <3>2. CASE attempts # 1
      <4>1. PICK i \in 1..attempts : i <= Len(backups) /\ backups[i] = Copy(original)
        BY <2>6, <3>2, <1>0 DEF StillKept
      <4>2. i # 1
        BY <2>1, <4>1 DEF Partial, Copy
      <4>3. i \in 2..Len(backups)
        BY <1>0, <4>1, <4>2
      <4> QED BY <2>4, <4>1, <4>3
    <3> QED BY <3>1, <3>2
  <2>7. ASSUME attempts' \in 1..KeepBackups, copied'
        PROVE  \E i \in 1..attempts' : i <= Len(backups') /\ backups'[i] = Copy(original')
    <3>1. PICK i \in 1..attempts : i <= Len(s) /\ s[i] = Copy(original)
      BY <2>5, <2>6, <2>7
    <3>2. i \in 1..KeepBackups
      BY <1>0, <2>5, <2>7, <3>1
    <3>3. i <= Len(Newest(s)) /\ Newest(s)[i] = Copy(original)
      BY <2>3, <3>1, <3>2, PruneKeeps
    <3> QED BY <2>5, <3>1, <3>3
  <2> QED BY <2>5, <2>7 DEF StillKept, AtCopy, ChangeOver
<1>3. CASE \/ \E d \in Drivers : Boot(d)
           \/ Mark
  <2>1. /\ backups' = Newest(backups) /\ pc' \in {"backup", "up"} /\ attempts' = attempts
        /\ original' = original /\ copied' = copied
    BY <1>3 DEF Boot, Mark, history
  <2>2. ASSUME attempts' \in 1..KeepBackups, copied'
        PROVE  \E i \in 1..attempts' : i <= Len(backups') /\ backups'[i] = Copy(original')
    <3>1. PICK i \in 1..attempts : i <= Len(backups) /\ backups[i] = Copy(original)
      BY <1>0, <2>1, <2>2 DEF StillKept
    <3>2. i \in 1..KeepBackups
      BY <1>0, <2>1, <2>2, <3>1
    <3>3. i <= Len(Newest(backups)) /\ Newest(backups)[i] = Copy(original)
      BY <1>0, <3>1, <3>2, PruneKeeps
    <3> QED BY <2>1, <3>1, <3>3
  <2> QED BY <2>1, <2>2 DEF StillKept, AtCopy, ChangeOver
<1>4. CASE Import \/ ImportFails
  <2>1. attempts' = 0 /\ pc' # "copy"
    BY <1>0, <1>4 DEF Import, ImportFails, ChangeOver
  <2> QED BY <2>1 DEF StillKept, AtCopy, ChangeOver
<1>5. CASE Sync \/ TornSave \/ WipeDb
  <2>1. attempts' = 0 /\ pc' # "copy"
    BY <1>5 DEF Sync, TornSave, WipeDb
  <2> QED BY <2>1 DEF StillKept, AtCopy, ChangeOver
<1>6. CASE /\ UNCHANGED <<backups, attempts, original, copied>>
           /\ \/ pc' \notin {"copy", "import", "mark"}
              \/ pc' = pc /\ (pc # "copy" \/ mem' = mem)
  BY <1>0, <1>6 DEF StillKept, AtCopy, ChangeOver
<1>7. CASE Migrated
  BY <1>0, <1>6, <1>7 DEF Migrated, files, history
<1>8. CASE NoBackup \/ CopyFails \/ Migrate \/ NoImport \/ Save \/ Work \/ Crash
           \/ MendLegacy \/ UNCHANGED vars
  BY <1>6, <1>8 DEF NoBackup, CopyFails, Migrate, NoImport, Save, Work, Crash,
       MendLegacy, files, history, vars
<1> QED BY <1>1, <1>2, <1>3, <1>4, <1>5, <1>7, <1>8 DEF Next

\* The file as it was before a schema change is among the kept backups until the
\* change is done, if its copy succeeded and no more than KeepBackups boots have
\* been cut short (makeBackupDir, backupDbLite, pruneOldBackups).
THEOREM PristineKept == Spec => []PristineBackupKept
<1>1. KeptInv => PristineBackupKept
  <2> SUFFICES ASSUME KeptInv, attempts \in 1..KeepBackups, copied
               PROVE  \E i \in 1..Len(backups) : backups[i] = Copy(original)
    BY DEF PristineBackupKept
  <2>1. PICK i \in 1..attempts : i <= Len(backups) /\ backups[i] = Copy(original)
    BY DEF KeptInv, StillKept
  <2>2. i \in 1..Len(backups)
    BY <2>1, LenProperties DEF KeptInv, Typed, TypeOK
  <2> QED BY <2>1, <2>2
<1>2. Spec => []KeptInv
  BY InitKept, NextKept, PTL DEF Spec
<1> QED BY <1>1, <1>2, PTL

-----------------------------------------------------------------------------
(* Connections.                                                            *)

\* What the code takes for granted when it compares logins: within a workspace an
\* email is one person.
EmailsTellPeopleApart ==
    \A a, b \in Accounts : a.ws # 0 /\ a.ws = b.ws /\ a.email = b.email => a = b

-----------------------------------------------------------------------------
(* The invariants.                                                         *)

IsRow(row) ==
    row = Row(row.auth, row.email, row.name, row.priority, row.psd, row.owners)

\* Ids are given in order and never again.
RowIds == /\ created \in Nat
          /\ DOMAIN rows \subseteq 1..created
          /\ \A i \in DOMAIN rows : IsRow(rows[i])

\* A login's row shows the one account whose tokens it holds, or all of it but the
\* workspace when Codex did not name that.
Shows(row, a) ==
    /\ row.owners = {a} /\ row.email = a.email
    /\ row.psd = Psd(a.user, a.ws) \/ (codex /\ row.psd = Psd(a.user, 0))

LoginsShow == \A i \in DOMAIN rows : rows[i].auth = "oauth" =>
                                        \E a \in Accounts : Shows(rows[i], a)

\* An account whose logins say who it is has one row.
Says(row) == codex => row.psd.ws # 0
OneRowEach ==
    \A i, j \in DOMAIN rows :
        /\ rows[i].auth = "oauth" /\ rows[j].auth = "oauth"
        /\ rows[i].owners = rows[j].owners /\ Says(rows[i]) /\ Says(rows[j])
        => i = j

\* What a request read of a login before it waited is still what the row says.
Fresh(p) == /\ p.id \in 1..created
            /\ p.id \in DOMAIN rows /\ rows[p.id].auth = "oauth" => p.psd = rows[p.id].psd
StillTrue == /\ DOMAIN pending = Handlers
             /\ \A h \in Handlers : pending[h].op \in {"put", "refresh"} => Fresh(pending[h])

TableInv == codex \in BOOLEAN /\ RowIds /\ LoginsShow /\ OneRowEach
RowsInv == TableInv /\ StillTrue

-----------------------------------------------------------------------------
(* Tables.                                                                 *)

\* The least of the rows a login belongs to.
LEMMA FirstOf ==
    ASSUME NEW S \in SUBSET Nat, S # {}
    PROVE  (CHOOSE i \in S : \A j \in S : i <= j) \in S
<1>1. PICK x \in S : \A y \in S : ~ (<<y, x>> \in OpToRel(<, Nat))
  BY WFMin, NatLessThanWellFounded, Zenon
<1>2. ASSUME NEW y \in S, y < x PROVE FALSE
  <2>1. <<y, x>> \in OpToRel(<, Nat)
    BY <1>2 DEF OpToRel
  <2> QED
    BY <1>1, <2>1
<1>3. \A y \in S : x <= y
  BY <1>2
<1> QED
  BY <1>3

\* Two rows that agree on everything that says whose they are.
Alike(r, q) == /\ r.auth = q.auth /\ r.email = q.email
               /\ r.psd = q.psd /\ r.owners = q.owners

LEMMA RowFields ==
    ASSUME NEW a, NEW e, NEW n, NEW p, NEW d, NEW o
    PROVE  /\ IsRow(Row(a, e, n, p, d, o))
           /\ Row(a, e, n, p, d, o).auth = a /\ Row(a, e, n, p, d, o).email = e
           /\ Row(a, e, n, p, d, o).psd = d /\ Row(a, e, n, p, d, o).owners = o
           /\ Row(a, e, n, p, d, o).priority = p /\ Row(a, e, n, p, d, o).name = n
BY DEF IsRow, Row

\* Giving a row another priority, other owners or other data gives a row.
LEMMA RowEdited ==
    ASSUME NEW row, IsRow(row), NEW x
    PROVE  /\ [row EXCEPT !.priority = x]
                 = Row(row.auth, row.email, row.name, x, row.psd, row.owners)
           /\ [row EXCEPT !.psd = x]
                 = Row(row.auth, row.email, row.name, row.priority, x, row.owners)
           /\ [row EXCEPT !.owners = x]
                 = Row(row.auth, row.email, row.name, row.priority, row.psd, x)
<1>1. row \in [auth : {row.auth}, email : {row.email}, name : {row.name},
               priority : {row.priority}, psd : {row.psd}, owners : {row.owners}]
  BY DEF IsRow, Row
<1>2. [row EXCEPT !.priority = x]
         = Row(row.auth, row.email, row.name, x, row.psd, row.owners)
  BY <1>1 DEF Row
<1>3. [row EXCEPT !.psd = x]
         = Row(row.auth, row.email, row.name, row.priority, x, row.owners)
  BY <1>1 DEF Row
<1>4. [row EXCEPT !.owners = x]
         = Row(row.auth, row.email, row.name, row.priority, row.psd, x)
  BY <1>1 DEF Row
<1> QED
  BY <1>2, <1>3, <1>4

LEMMA RowPut ==
    ASSUME NEW row, IsRow(row), NEW p, NEW d
    PROVE  [row EXCEPT !.psd = d, !.priority = p]
              = Row(row.auth, row.email, row.name, p, d, row.owners)
<1> DEFINE withData == Row(row.auth, row.email, row.name, row.priority, d, row.owners)
<1>1. [row EXCEPT !.psd = d, !.priority = p] = [[row EXCEPT !.psd = d] EXCEPT !.priority = p]
  BY Zenon
<1>2. [row EXCEPT !.psd = d] = withData
  BY RowEdited
<1>3. /\ IsRow(withData) /\ withData.auth = row.auth /\ withData.email = row.email
      /\ withData.name = row.name /\ withData.psd = d /\ withData.owners = row.owners
  BY RowFields
<1> HIDE DEF withData
<1>4. [withData EXCEPT !.priority = p]
         = Row(withData.auth, withData.email, withData.name, p, withData.psd, withData.owners)
  BY <1>3, RowEdited
<1> QED
  BY <1>1, <1>2, <1>3, <1>4

LEMMA RowMerged ==
    ASSUME NEW row, IsRow(row), NEW p, NEW o
    PROVE  [row EXCEPT !.priority = p, !.owners = o]
              = Row(row.auth, row.email, row.name, p, row.psd, o)
<1> DEFINE moved == Row(row.auth, row.email, row.name, p, row.psd, row.owners)
<1>1. [row EXCEPT !.priority = p, !.owners = o]
         = [[row EXCEPT !.priority = p] EXCEPT !.owners = o]
  BY Zenon
<1>2. [row EXCEPT !.priority = p] = moved
  BY RowEdited
<1>3. /\ IsRow(moved) /\ moved.auth = row.auth /\ moved.email = row.email
      /\ moved.name = row.name /\ moved.priority = p /\ moved.psd = row.psd
  BY RowFields
<1> HIDE DEF moved
<1>4. [moved EXCEPT !.owners = o]
         = Row(moved.auth, moved.email, moved.name, moved.priority, moved.psd, o)
  BY <1>3, RowEdited
<1> QED
  BY <1>1, <1>2, <1>3, <1>4

\* The rows that reorderInTx sorts before a row.
Ahead(table, recent, id) ==
    {j \in DOMAIN table \ {id} :
        \/ table[j].priority < table[id].priority
        \/ /\ table[j].priority = table[id].priority
           /\ Place(recent, j) < Place(recent, id)}

\* Renumbering a table changes priorities and nothing else: a row's is its place.
LEMMA RankedAlike ==
    ASSUME NEW table, NEW recent, \A i \in DOMAIN table : IsRow(table[i])
    PROVE  /\ DOMAIN Reordered(table, recent) = DOMAIN table
           /\ \A i \in DOMAIN table :
                 /\ IsRow(Reordered(table, recent)[i])
                 /\ Alike(Reordered(table, recent)[i], table[i])
                 /\ Reordered(table, recent)[i].priority = Cardinality(Ahead(table, recent, i)) + 1
<1> DEFINE rank(i) == Cardinality(Ahead(table, recent, i)) + 1
           new == [id \in DOMAIN table |-> [table[id] EXCEPT !.priority = rank(id)]]
<1>1. Reordered(table, recent) = new
  BY DEF Reordered, Ahead
<1> HIDE DEF rank
<1>2. ASSUME NEW i \in DOMAIN table
      PROVE  IsRow(new[i]) /\ Alike(new[i], table[i]) /\ new[i].priority = rank(i)
  <2>1. new[i] = [table[i] EXCEPT !.priority = rank(i)]
    OBVIOUS
  <2>2. new[i] = Row(table[i].auth, table[i].email, table[i].name, rank(i),
                     table[i].psd, table[i].owners)
    BY <2>1, RowEdited
  <2> HIDE DEF new
  <2> QED
    BY <2>2, RowFields DEF Alike
<1> QED
  BY <1>1, <1>2 DEF rank

\* A table and the same table with priorities renumbered, or not.
LEMMA MaybeRanked ==
    ASSUME NEW table, NEW recent, \A i \in DOMAIN table : IsRow(table[i]), NEW ranks,
           NEW new, new = IF ranks THEN Reordered(table, recent) ELSE table
    PROVE  /\ DOMAIN new = DOMAIN table
           /\ \A i \in DOMAIN table : IsRow(new[i]) /\ Alike(new[i], table[i])
<1>1. CASE ranks
  <2>1. new = Reordered(table, recent)
    BY <1>1
  <2> QED
    BY <2>1, RankedAlike
<1>2. CASE ~ranks
  BY <1>2 DEF Alike
<1> QED
  BY <1>1, <1>2

-----------------------------------------------------------------------------
(* What the repository's functions do to the rows.                         *)

\* A login or key is merged into a known row, which takes its data ...
Merges(row, id) ==
    /\ UNCHANGED created /\ DOMAIN rows' = DOMAIN rows
    /\ \A i \in DOMAIN rows \ {id} : rows'[i] = rows[i]
    /\ IsRow(rows'[id])
    /\ rows'[id].auth = row.auth /\ rows'[id].email = row.email /\ rows'[id].psd = row.psd
    /\ rows'[id].owners = row.owners \union rows[id].owners

\* ... or gets a row of its own.
Adds(row) ==
    /\ created' = created + 1 /\ DOMAIN rows' = DOMAIN rows \union {created'}
    /\ \A i \in DOMAIN rows : IsRow(rows'[i]) /\ Alike(rows'[i], rows[i])
    /\ IsRow(rows'[created']) /\ Alike(rows'[created'], row)

LEMMA CreateFacts ==
    ASSUME RowIds, NEW row, IsRow(row), NEW known \in SUBSET DOMAIN rows,
           Create(row, known)
    PROVE  (\E id \in known : Merges(row, id)) \/ (known = {} /\ Adds(row))
<1>1. CASE known # {}
  <2> DEFINE id == CHOOSE i \in known : \A j \in known : i <= j
  <2>1. id \in known
    BY <1>1, FirstOf DEF RowIds
  <2>2. \E p : rows' = [rows EXCEPT ![id] = [row EXCEPT !.priority = p,
                                                        !.owners = @ \union rows[id].owners]]
    BY <1>1 DEF Create
  <2> HIDE DEF id
  <2>3. PICK p : rows' = [rows EXCEPT ![id] = [row EXCEPT !.priority = p,
                                                          !.owners = @ \union rows[id].owners]]
    BY <2>2
  <2> DEFINE both == row.owners \union rows[id].owners
             merged == Row(row.auth, row.email, row.name, p, row.psd, both)
  <2>4. [row EXCEPT !.priority = p, !.owners = @ \union rows[id].owners]
           = [row EXCEPT !.priority = p, !.owners = both]
    BY Zenon DEF IsRow, Row
  <2>5. [row EXCEPT !.priority = p, !.owners = both] = merged
    BY RowMerged, Zenon
  <2>6. rows' = [rows EXCEPT ![id] = merged]
    BY <2>3, <2>4, <2>5
  <2>7. /\ IsRow(merged) /\ merged.auth = row.auth /\ merged.email = row.email
        /\ merged.psd = row.psd /\ merged.owners = both
    BY RowFields
  <2> HIDE DEF merged
  <2>8. created' = created
    BY <1>1 DEF Create
  <2>9. rows'[id] = merged /\ DOMAIN rows' = DOMAIN rows
    BY <2>1, <2>6
  <2>10. \A i \in DOMAIN rows \ {id} : rows'[i] = rows[i]
    BY <2>6
  <2>11. Merges(row, id)
    BY <2>7, <2>8, <2>9, <2>10 DEF Merges
  <2> QED
    BY <2>1, <2>11
<1>2. CASE known = {}
  <2> DEFINE new == created + 1
             place == IF row.priority = 0 THEN Highest + 1 ELSE row.priority
             table == [i \in DOMAIN rows \union {new} |->
                          IF i = new THEN [row EXCEPT !.priority = place] ELSE rows[i]]
  <2>1. created' = new /\ rows' = Reordered(table, recency')
    BY <1>2 DEF Create
  <2> HIDE DEF place
  <2>2. new \notin DOMAIN rows
    BY DEF RowIds
  <2>3. /\ [row EXCEPT !.priority = place]
              = Row(row.auth, row.email, row.name, place, row.psd, row.owners)
    BY RowEdited
  <2>4. DOMAIN table = DOMAIN rows \union {new}
    OBVIOUS
  <2>5. IsRow(table[new]) /\ Alike(table[new], row)
    <3>1. table[new] = Row(row.auth, row.email, row.name, place, row.psd, row.owners)
      BY <2>3
    <3> HIDE DEF table
    <3> QED
      BY <3>1, RowFields DEF Alike
  <2>6. \A i \in DOMAIN rows : table[i] = rows[i] /\ IsRow(table[i])
    BY <2>2 DEF RowIds
  <2> HIDE DEF table, new
  <2>7. \A i \in DOMAIN table : IsRow(table[i])
    BY <2>4, <2>5, <2>6
  <2>8. /\ DOMAIN rows' = DOMAIN table
        /\ \A i \in DOMAIN table : IsRow(rows'[i]) /\ Alike(rows'[i], table[i])
    BY <2>1, <2>7, RankedAlike
  <2>9. \A i \in DOMAIN rows : IsRow(rows'[i]) /\ Alike(rows'[i], rows[i])
    BY <2>4, <2>6, <2>8
  <2>10. IsRow(rows'[new]) /\ Alike(rows'[new], row)
    BY <2>4, <2>5, <2>8 DEF Alike
  <2>11. created' = created + 1
    BY <2>1 DEF new
  <2> QED
    BY <1>2, <2>1, <2>4, <2>8, <2>9, <2>10, <2>11 DEF Adds
<1> QED
  BY <1>1, <1>2

\* An edit writes one row, if it is still there.
LEMMA UpdateFacts ==
    ASSUME RowIds, NEW id, NEW row, id \in DOMAIN rows => IsRow(row), NEW ranks,
           Update(id, row, ranks)
    PROVE  /\ DOMAIN rows' = DOMAIN rows
           /\ \A i \in DOMAIN rows : /\ IsRow(rows'[i])
                                     /\ i # id => Alike(rows'[i], rows[i])
                                     /\ i = id => Alike(rows'[i], row)
<1>1. CASE id \notin DOMAIN rows
  BY <1>1 DEF Update, RowIds, Alike
<1>2. CASE id \in DOMAIN rows
  <2> DEFINE table == [rows EXCEPT ![id] = row]
  <2>1. rows' = IF ranks THEN Reordered(table, recency') ELSE table
    BY <1>2 DEF Update
  <2>2. /\ DOMAIN table = DOMAIN rows
        /\ table[id] = row /\ \A i \in DOMAIN rows \ {id} : table[i] = rows[i]
    BY <1>2
  <2> HIDE DEF table
  <2>3. \A i \in DOMAIN table : IsRow(table[i])
    BY <1>2, <2>2 DEF RowIds
  <2>4. /\ DOMAIN rows' = DOMAIN table
        /\ \A i \in DOMAIN table : IsRow(rows'[i]) /\ Alike(rows'[i], table[i])
    BY <2>1, <2>3, MaybeRanked
  <2> QED
    BY <1>2, <2>2, <2>4
<1> QED
  BY <1>1, <1>2

\* A deletion takes one row.
LEMMA DeleteFacts ==
    ASSUME RowIds, NEW id, Without(id)
    PROVE  /\ DOMAIN rows' = DOMAIN rows \ {id}
           /\ \A i \in DOMAIN rows' : IsRow(rows'[i]) /\ Alike(rows'[i], rows[i])
<1> DEFINE recent == SelectSeq(recency, LAMBDA j : j # id)
           table == [i \in DOMAIN rows \ {id} |-> rows[i]]
<1>1. rows' = Reordered(table, recent)
  BY DEF Without
<1> HIDE DEF recent
<1>2. DOMAIN table = DOMAIN rows \ {id} /\ \A i \in DOMAIN rows \ {id} : table[i] = rows[i]
  OBVIOUS
<1> HIDE DEF table
<1>3. \A i \in DOMAIN table : IsRow(table[i])
  BY <1>2 DEF RowIds
<1> QED
  BY <1>1, <1>2, <1>3, RankedAlike

-----------------------------------------------------------------------------
(* What keeps the invariant.                                               *)

\* No row comes, and no login's row changes hands.
Keeps ==
    /\ UNCHANGED <<codex, created>>
    /\ DOMAIN rows' \subseteq DOMAIN rows
    /\ \A i \in DOMAIN rows' : /\ IsRow(rows'[i]) /\ rows'[i].auth = rows[i].auth
                               /\ rows[i].auth = "oauth" => Alike(rows'[i], rows[i])

LEMMA KeepsInv ==
    ASSUME TableInv, Keeps
    PROVE  TableInv' /\ \A p : Fresh(p) => Fresh(p)'
<1>1. codex' = codex /\ created' = created /\ DOMAIN rows' \subseteq DOMAIN rows
  BY DEF Keeps
<1>2. \A i \in DOMAIN rows' : /\ i \in DOMAIN rows /\ rows'[i].auth = rows[i].auth
                              /\ rows[i].auth = "oauth" =>
                                    /\ rows'[i].email = rows[i].email
                                    /\ rows'[i].psd = rows[i].psd
                                    /\ rows'[i].owners = rows[i].owners
  BY <1>1 DEF Keeps, Alike
<1>3. RowIds'
  BY <1>1 DEF Keeps, TableInv, RowIds
<1>4. LoginsShow'
  <2> SUFFICES ASSUME NEW i \in DOMAIN rows', rows'[i].auth = "oauth"
               PROVE  \E a \in Accounts : Shows(rows[i], a)'
    BY DEF LoginsShow
  <2>1. PICK a \in Accounts : Shows(rows[i], a)
    BY <1>2 DEF TableInv, LoginsShow
  <2>2. Shows(rows[i], a)'
    BY <1>1, <1>2, <2>1 DEF Shows
  <2> QED
    BY <2>2
<1>5. OneRowEach'
  <2> SUFFICES ASSUME NEW i \in DOMAIN rows', NEW j \in DOMAIN rows',
                      rows'[i].auth = "oauth", rows'[j].auth = "oauth",
                      rows'[i].owners = rows'[j].owners,
                      codex' => rows'[i].psd.ws # 0, codex' => rows'[j].psd.ws # 0
               PROVE  i = j
    BY DEF OneRowEach, Says
  <2> QED
    BY <1>1, <1>2 DEF TableInv, OneRowEach, Says
<1>6. ASSUME NEW p, Fresh(p) PROVE Fresh(p)'
  BY <1>1, <1>2, <1>6 DEF Fresh
<1> QED
  BY <1>1, <1>3, <1>4, <1>5, <1>6 DEF TableInv

\* A row of its own keeps the invariant if it is no login's, or that of a login that
\* has no row that says who it is.
LEMMA AddsInv ==
    ASSUME TableInv, NEW row, Adds(row), UNCHANGED codex,
           row.auth = "oauth" =>
              /\ \E a \in Accounts : Shows(row, a)
              /\ \A i \in DOMAIN rows :
                    ~(/\ rows[i].auth = "oauth" /\ rows[i].owners = row.owners
                      /\ Says(rows[i]) /\ Says(row))
    PROVE  TableInv' /\ \A p : Fresh(p) => Fresh(p)'
<1> DEFINE new == created + 1
<1>1. /\ created \in Nat /\ created' = new /\ DOMAIN rows \subseteq 1..created
      /\ new \notin DOMAIN rows /\ DOMAIN rows' = DOMAIN rows \union {new}
      /\ 1..created \subseteq 1..new /\ new \in 1..new /\ new \in Nat /\ codex' = codex
  BY DEF Adds, TableInv, RowIds
<1>2. /\ \A i \in DOMAIN rows : /\ rows'[i].auth = rows[i].auth
                                /\ rows'[i].email = rows[i].email
                                /\ rows'[i].psd = rows[i].psd
                                /\ rows'[i].owners = rows[i].owners
      /\ rows'[new].auth = row.auth /\ rows'[new].email = row.email
      /\ rows'[new].psd = row.psd /\ rows'[new].owners = row.owners
  BY DEF Adds, Alike
<1>3. RowIds'
  <2>1. \A i \in DOMAIN rows' : IsRow(rows'[i])
    BY <1>1 DEF Adds
  <2>2. DOMAIN rows' \subseteq 1..created'
    BY <1>1
  <2> QED
    BY <1>1, <2>1, <2>2 DEF RowIds
<1> HIDE DEF new
<1>4. LoginsShow'
  <2> SUFFICES ASSUME NEW i \in DOMAIN rows', rows'[i].auth = "oauth"
               PROVE  \E a \in Accounts : Shows(rows[i], a)'
    BY DEF LoginsShow
  <2>1. CASE i = new
    <3>1. PICK a \in Accounts : Shows(row, a)
      BY <1>2, <2>1
    <3>2. Shows(rows[i], a)'
      BY <1>1, <1>2, <2>1, <3>1 DEF Shows
    <3> QED
      BY <3>2
  <2>2. CASE i \in DOMAIN rows
    <3>1. PICK a \in Accounts : Shows(rows[i], a)
      BY <1>2, <2>2 DEF TableInv, LoginsShow
    <3>2. Shows(rows[i], a)'
      BY <1>1, <1>2, <2>2, <3>1 DEF Shows
    <3> QED
      BY <3>2
  <2> QED
    BY <1>1, <2>1, <2>2
<1>5. OneRowEach'
  <2> SUFFICES ASSUME NEW i \in DOMAIN rows', NEW j \in DOMAIN rows',
                      rows'[i].auth = "oauth", rows'[j].auth = "oauth",
                      rows'[i].owners = rows'[j].owners,
                      codex' => rows'[i].psd.ws # 0, codex' => rows'[j].psd.ws # 0
               PROVE  i = j
    BY DEF OneRowEach, Says
  <2>1. CASE i \in DOMAIN rows /\ j \in DOMAIN rows
    BY <1>1, <1>2, <2>1 DEF TableInv, OneRowEach, Says
  <2>2. CASE i = new /\ j \in DOMAIN rows
    BY <1>1, <1>2, <2>2 DEF Says
  <2>3. CASE j = new /\ i \in DOMAIN rows
    BY <1>1, <1>2, <2>3 DEF Says
  <2> QED
    BY <1>1, <2>1, <2>2, <2>3
<1>6. ASSUME NEW p, Fresh(p) PROVE Fresh(p)'
  <2>1. p.id \in 1..created /\ p.id \in 1..created' /\ p.id # new
    BY <1>1, <1>6 DEF Fresh, new
  <2> QED
    BY <1>1, <1>2, <1>6, <2>1 DEF Fresh
<1> QED
  BY <1>1, <1>3, <1>4, <1>5, <1>6 DEF TableInv

-----------------------------------------------------------------------------
(* Logins.                                                                 *)

\* A row that takes a login in already holds that account's tokens, and its data.
LEMMA SamePerson ==
    ASSUME EmailsTellPeopleApart, codex \in BOOLEAN, NEW a \in Accounts, NEW b \in Accounts,
           NEW ws, ws = a.ws \/ (codex /\ ws = 0),
           NEW row, row.auth = "oauth", Shows(row, b), SameIdentity(row, a.email, Psd(a.user, ws))
    PROVE  a = b /\ row.psd = Psd(a.user, ws)
<1>1. /\ a \in [email : Nat \ {0}, user : Nat, ws : Nat]
      /\ b \in [email : Nat \ {0}, user : Nat, ws : Nat]
  BY ConnectionsAssumption
<1>2. /\ \A u, w : Psd(u, w).user = u /\ Psd(u, w).ws = w
      /\ b.email = a.email
  BY DEF Psd, Shows, SameIdentity
<1>3. CASE codex
  <2>1. ws # 0 /\ row.psd.ws = ws /\ ws = a.ws
    BY <1>2, <1>3 DEF SameIdentity
  <2>2. row.psd = Psd(b.user, b.ws) /\ b.ws = a.ws
    BY <1>2, <2>1 DEF Shows
  <2>3. a = b
    BY <1>2, <2>1, <2>2 DEF EmailsTellPeopleApart
  <2> QED
    BY <2>1, <2>2, <2>3
<1>4. CASE ~codex
  <2>1. ws = a.ws /\ row.psd = Psd(b.user, b.ws)
    BY <1>4 DEF Shows
  <2>2. \/ a.ws # 0 /\ a.ws = b.ws
        \/ a.ws = 0 /\ b.ws = 0 /\ a.user = b.user
    BY <1>2, <1>4, <2>1 DEF SameIdentity
  <2>3. a = b
    <3>1. CASE a.ws # 0 /\ a.ws = b.ws
      BY <1>2, <3>1 DEF EmailsTellPeopleApart
    <3>2. CASE a.ws = 0 /\ b.ws = 0 /\ a.user = b.user
      BY <1>1, <1>2, <3>2
    <3> QED
      BY <2>2, <3>1, <3>2
  <2> QED
    BY <2>1, <2>3
<1> QED
  BY <1>3, <1>4

\* A login finds the row of its account, if both say whose they are.
LEMMA FindsItself ==
    ASSUME codex \in BOOLEAN, NEW a \in Accounts, NEW ws, ws = a.ws \/ (codex /\ ws = 0),
           NEW row, row.auth = "oauth", Shows(row, a),
           codex => row.psd.ws # 0 /\ ws # 0
    PROVE  SameIdentity(row, a.email, Psd(a.user, ws))
<1>1. \A u, w : Psd(u, w).user = u /\ Psd(u, w).ws = w
  BY DEF Psd
<1>2. row.email = a.email
  BY DEF Shows
<1>3. row.psd = Psd(a.user, a.ws) /\ ws = a.ws
  BY <1>1 DEF Shows
<1> QED
  BY <1>1, <1>2, <1>3 DEF SameIdentity

-----------------------------------------------------------------------------
(* Every step keeps the invariant.                                         *)

LEMMA InitInv == ConnectionsInit => RowsInv
<1> SUFFICES ASSUME ConnectionsInit PROVE RowsInv
  OBVIOUS
<1>1. DOMAIN rows = {}
  BY DEF ConnectionsInit
<1>2. TableInv
  BY <1>1 DEF ConnectionsInit, TableInv, RowIds, LoginsShow, OneRowEach
<1>3. Idle.op \notin {"put", "refresh"}
  BY DEF Idle
<1>4. StillTrue
  BY <1>3 DEF ConnectionsInit, StillTrue
<1> QED
  BY <1>2, <1>4 DEF RowsInv

LEMMA LoginStep ==
    ASSUME EmailsTellPeopleApart, TableInv, NEW a \in Accounts, NEW ws, Login(a, ws)
    PROVE  TableInv' /\ \A p : Fresh(p) => Fresh(p)'
<1> DEFINE psd == Psd(a.user, ws)
           row == Row("oauth", a.email, 0, 0, psd, {a})
           known == {i \in DOMAIN rows : SameIdentity(rows[i], a.email, psd)}
<1>1. ws = a.ws \/ (codex /\ ws = 0)
  BY DEF Login
<1>2. Create(row, known) /\ codex' = codex
  BY DEF Login
<1>3. /\ IsRow(row) /\ row.auth = "oauth" /\ row.email = a.email /\ row.psd = psd
      /\ row.owners = {a}
  BY RowFields
<1>4. known \in SUBSET DOMAIN rows /\ psd.ws = ws
  BY DEF Psd
<1>5. codex \in BOOLEAN /\ RowIds
  BY DEF TableInv
<1> HIDE DEF row
<1>6. ASSUME NEW id \in known, Merges(row, id) PROVE Keeps
  <2>1. id \in DOMAIN rows /\ SameIdentity(rows[id], a.email, psd) /\ rows[id].auth = "oauth"
    BY DEF SameIdentity
  <2>2. PICK b \in Accounts : Shows(rows[id], b)
    BY <2>1 DEF TableInv, LoginsShow
  <2>3. a = b /\ rows[id].psd = psd
    BY <1>1, <1>5, <2>1, <2>2, SamePerson
  <2>4. rows[id].owners = {a} /\ rows[id].email = a.email
    BY <2>2, <2>3 DEF Shows
  <2>5. /\ rows'[id].auth = "oauth" /\ rows'[id].email = a.email /\ rows'[id].psd = psd
        /\ rows'[id].owners = {a} \union {a} /\ IsRow(rows'[id])
    BY <1>3, <1>6, <2>4 DEF Merges
  <2>6. Alike(rows'[id], rows[id]) /\ rows'[id].auth = rows[id].auth
    BY <2>1, <2>3, <2>4, <2>5 DEF Alike
  <2>7. \A i \in DOMAIN rows \ {id} : /\ rows'[i] = rows[i] /\ IsRow(rows'[i])
                                      /\ Alike(rows'[i], rows[i])
    BY <1>5, <1>6 DEF Merges, RowIds, Alike
  <2>8. created' = created /\ DOMAIN rows' = DOMAIN rows
    BY <1>6 DEF Merges
  <2> QED
    BY <1>2, <2>5, <2>6, <2>7, <2>8 DEF Keeps
<1>7. ASSUME known = {}, Adds(row) PROVE TableInv' /\ \A p : Fresh(p) => Fresh(p)'
  <2>1. Shows(row, a)
    BY <1>1, <1>3 DEF Shows
  <2>2. ASSUME NEW i \in DOMAIN rows, rows[i].auth = "oauth", rows[i].owners = row.owners,
               Says(rows[i]), Says(row)
        PROVE  FALSE
    <3>1. PICK b \in Accounts : Shows(rows[i], b)
      BY <2>2 DEF TableInv, LoginsShow
    <3>2. {b} = {a}
      BY <1>3, <2>2, <3>1 DEF Shows
    <3>3. Shows(rows[i], a)
      <4>1. b = a
        BY <3>2
      <4> QED
        BY <3>1, <4>1
    <3>4. codex => rows[i].psd.ws # 0 /\ ws # 0
      BY <1>3, <1>4, <2>2 DEF Says
    <3>5. SameIdentity(rows[i], a.email, psd)
      BY <1>1, <1>5, <2>2, <3>3, <3>4, FindsItself
    <3> QED
      BY <1>7, <3>5
  <2>3. \A i \in DOMAIN rows : ~(/\ rows[i].auth = "oauth" /\ rows[i].owners = row.owners
                                 /\ Says(rows[i]) /\ Says(row))
    BY <2>2
  <2> QED
    BY <1>2, <1>7, <2>1, <2>3, AddsInv
<1> HIDE DEF known
<1>8. (\E id \in known : Merges(row, id)) \/ (known = {} /\ Adds(row))
  BY <1>2, <1>3, <1>4, <1>5, CreateFacts
<1>9. CASE \E id \in known : Merges(row, id)
  BY <1>6, <1>9, KeepsInv
<1> QED
  BY <1>7, <1>8, <1>9

\* A key or an imported token is no login.
LEMMA OtherStep ==
    ASSUME TableInv, NEW row, IsRow(row), row.auth # "oauth", UNCHANGED codex,
           NEW known \in SUBSET {i \in DOMAIN rows : rows[i].auth = row.auth},
           Create(row, known)
    PROVE  TableInv' /\ \A p : Fresh(p) => Fresh(p)'
<1>1. (\E id \in known : Merges(row, id)) \/ (known = {} /\ Adds(row))
  BY CreateFacts DEF TableInv
<1>2. ASSUME NEW id \in known, Merges(row, id) PROVE Keeps
  <2>1. id \in DOMAIN rows /\ rows[id].auth = row.auth
    OBVIOUS
  <2>2. \A i \in DOMAIN rows \ {id} : /\ rows'[i] = rows[i] /\ IsRow(rows'[i])
                                      /\ Alike(rows'[i], rows[i])
    BY <1>2 DEF Merges, TableInv, RowIds, Alike
  <2>3. /\ created' = created /\ DOMAIN rows' = DOMAIN rows /\ IsRow(rows'[id])
        /\ rows'[id].auth = row.auth
    BY <1>2 DEF Merges
  <2> QED
    BY <2>1, <2>2, <2>3 DEF Keeps
<1>3. CASE Adds(row)
  BY <1>3, AddsInv
<1> QED
  BY <1>1, <1>2, <1>3, KeepsInv

\* The rows that PUT and a token refresh write.
LEMMA PutFacts ==
    ASSUME RowIds, NEW h \in Handlers, FinishPut(h)
    PROVE  /\ DOMAIN rows' = DOMAIN rows
           /\ \A i \in DOMAIN rows :
                 /\ IsRow(rows'[i])
                 /\ i # pending[h].id => Alike(rows'[i], rows[i])
                 /\ i = pending[h].id => /\ rows'[i].auth = rows[i].auth
                                         /\ rows'[i].email = rows[i].email
                                         /\ rows'[i].psd = pending[h].psd
                                         /\ rows'[i].owners = rows[i].owners
<1> DEFINE p == pending[h]
           old == rows[p.id]
           place == IF p.priority = 0 THEN old.priority ELSE p.priority
           row == [old EXCEPT !.psd = p.psd,
                              !.priority = IF p.priority = 0 THEN @ ELSE p.priority]
<1>1. Update(p.id, row, p.priority # 0)
  BY DEF FinishPut
<1>2. ASSUME p.id \in DOMAIN rows
      PROVE  row = Row(old.auth, old.email, old.name, place, p.psd, old.owners)
  <2>1. IsRow(old)
    BY <1>2 DEF RowIds
  <2>2. row = [old EXCEPT !.psd = p.psd, !.priority = place]
    BY <2>1, Zenon DEF IsRow, Row
  <2> HIDE DEF row, place, old
  <2>3. [old EXCEPT !.psd = p.psd, !.priority = place]
           = Row(old.auth, old.email, old.name, place, p.psd, old.owners)
    BY <2>1, RowPut, Zenon
  <2> QED
    BY <2>2, <2>3
<1> HIDE DEF row, place
<1>3. p.id \in DOMAIN rows => /\ IsRow(row) /\ row.auth = old.auth /\ row.email = old.email
                              /\ row.psd = p.psd /\ row.owners = old.owners
  BY <1>2, RowFields
<1>4. /\ DOMAIN rows' = DOMAIN rows
      /\ \A i \in DOMAIN rows : /\ IsRow(rows'[i])
                                /\ i # p.id => Alike(rows'[i], rows[i])
                                /\ i = p.id => Alike(rows'[i], row)
  BY <1>1, <1>3, UpdateFacts
<1> QED
  BY <1>3, <1>4 DEF Alike

LEMMA RefreshFacts ==
    ASSUME RowIds, NEW h \in Handlers, NEW answers \in BOOLEAN, FinishRefresh(h, answers)
    PROVE  /\ DOMAIN rows' = DOMAIN rows
           /\ \A i \in DOMAIN rows :
                 /\ IsRow(rows'[i])
                 /\ i # pending[h].id => Alike(rows'[i], rows[i])
                 /\ i = pending[h].id =>
                       /\ rows'[i].auth = rows[i].auth /\ rows'[i].email = rows[i].email
                       /\ rows'[i].psd \in {rows[i].psd, pending[h].psd}
                       /\ rows'[i].owners = rows[i].owners
<1> DEFINE p == pending[h]
           old == rows[p.id]
           edited == [old EXCEPT !.psd = p.psd]
           row == IF answers THEN edited ELSE old
<1>1. Update(p.id, row, FALSE)
  BY DEF FinishRefresh
<1>2. ASSUME p.id \in DOMAIN rows
      PROVE  /\ IsRow(row) /\ row.auth = old.auth /\ row.email = old.email
             /\ row.psd \in {old.psd, p.psd} /\ row.owners = old.owners
  <2>1. IsRow(old)
    BY <1>2 DEF RowIds
  <2>2. edited = Row(old.auth, old.email, old.name, old.priority, p.psd, old.owners)
    BY <2>1, RowEdited
  <2> HIDE DEF edited
  <2>3. /\ IsRow(edited) /\ edited.auth = old.auth /\ edited.email = old.email
        /\ edited.psd = p.psd /\ edited.owners = old.owners
    <3> HIDE DEF old, p
    <3> QED
      BY <2>2, RowFields
  <2>4. CASE answers
    BY <2>3, <2>4
  <2>5. CASE ~answers
    BY <2>1, <2>5
  <2> QED
    BY <2>4, <2>5
<1> HIDE DEF row
<1>3. /\ DOMAIN rows' = DOMAIN rows
      /\ \A i \in DOMAIN rows : /\ IsRow(rows'[i])
                                /\ i # p.id => Alike(rows'[i], rows[i])
                                /\ i = p.id => Alike(rows'[i], row)
  BY <1>1, <1>2, UpdateFacts
<1> QED
  BY <1>2, <1>3 DEF Alike

\* What a request read stays true when the rows keep what it is about and the request
\* does nothing, or ends.
LEMMA StillFresh ==
    ASSUME StillTrue, \A p : Fresh(p) => Fresh(p)',
           \/ UNCHANGED pending
           \/ \E h \in Handlers : pending' = [pending EXCEPT ![h] = Idle]
    PROVE  StillTrue'
<1>1. DOMAIN pending' = Handlers
  BY DEF StillTrue
<1>2. Idle.op \notin {"put", "refresh"}
  BY DEF Idle
<1>3. \A g \in Handlers : pending'[g] = pending[g] \/ pending'[g] = Idle
  BY DEF StillTrue
<1> SUFFICES ASSUME NEW g \in Handlers, pending'[g].op \in {"put", "refresh"}
             PROVE  Fresh(pending[g])'
  BY <1>1 DEF StillTrue
<1>4. pending'[g] = pending[g]
  BY <1>2, <1>3
<1>5. Fresh(pending[g])
  BY <1>4 DEF StillTrue
<1> DEFINE q == pending[g]
<1>6. /\ q.id \in 1..created'
      /\ q.id \in DOMAIN rows' /\ rows'[q.id].auth = "oauth" => q.psd = rows'[q.id].psd
  BY <1>5 DEF Fresh
<1> QED
  BY <1>4, <1>6 DEF Fresh

\* A request that starts reads the row as it is.
LEMMA StartsFresh ==
    ASSUME TableInv, StillTrue, UNCHANGED <<codex, rows, created>>,
           NEW h \in Handlers, NEW q, pending' = [pending EXCEPT ![h] = q],
           q.id \in DOMAIN rows, q.psd = rows[q.id].psd
    PROVE  RowsInv'
<1>1. TableInv'
  <2>1. RowIds' /\ LoginsShow'
    BY DEF TableInv, RowIds, LoginsShow, Shows
  <2>2. OneRowEach' /\ codex' \in BOOLEAN
    BY DEF TableInv, OneRowEach, Says
  <2> QED
    BY <2>1, <2>2 DEF TableInv
<1>2. q.id \in 1..created
  BY DEF TableInv, RowIds
<1>3. \A g \in Handlers : pending'[g].op \in {"put", "refresh"} => Fresh(pending[g])'
  BY <1>2 DEF StillTrue, Fresh
<1>4. DOMAIN pending' = Handlers
  BY DEF StillTrue
<1> QED
  BY <1>1, <1>3, <1>4 DEF RowsInv, StillTrue

\* What a request writes back of a login is what the login's row says.
LEMMA WritesTrue ==
    ASSUME RowsInv, NEW h \in Handlers,
           FinishPut(h) \/ \E answers \in BOOLEAN : FinishRefresh(h, answers)
    PROVE  Keeps /\ pending' = [pending EXCEPT ![h] = Idle]
<1> DEFINE p == pending[h]
<1>1. RowIds /\ codex' = codex /\ created' = created /\ pending' = [pending EXCEPT ![h] = Idle]
  BY DEF RowsInv, TableInv, FinishPut, FinishRefresh
<1>2. p.op \in {"put", "refresh"}
  BY DEF FinishPut, FinishRefresh
<1>3. p.id \in DOMAIN rows /\ rows[p.id].auth = "oauth" => p.psd = rows[p.id].psd
  BY <1>2 DEF RowsInv, StillTrue, Fresh
<1>4. /\ DOMAIN rows' = DOMAIN rows
      /\ \A i \in DOMAIN rows :
            /\ IsRow(rows'[i])
            /\ i # p.id => Alike(rows'[i], rows[i])
            /\ i = p.id => /\ rows'[i].auth = rows[i].auth
                           /\ rows'[i].email = rows[i].email
                           /\ rows'[i].psd \in {rows[i].psd, p.psd}
                           /\ rows'[i].owners = rows[i].owners
  <2>1. CASE FinishPut(h)
    BY <1>1, <2>1, PutFacts
  <2>2. CASE \E answers \in BOOLEAN : FinishRefresh(h, answers)
    BY <1>1, <2>2, RefreshFacts
  <2> QED
    BY <2>1, <2>2
<1> HIDE DEF p
<1>5. Keeps
  BY <1>1, <1>3, <1>4 DEF Keeps, Alike
<1> QED
  BY <1>1, <1>5

LEMMA StepInv ==
    ASSUME EmailsTellPeopleApart, RowsInv, [ConnectionsNext]_connectionsVars
    PROVE  RowsInv'
<1> DEFINE Kept == TableInv' /\ \A p : Fresh(p) => Fresh(p)'
<1>1. TableInv /\ RowIds /\ StillTrue
  BY DEF RowsInv, TableInv
<1>2. ASSUME Kept, \/ UNCHANGED pending
                   \/ \E h \in Handlers : pending' = [pending EXCEPT ![h] = Idle]
      PROVE  RowsInv'
  BY <1>1, <1>2, StillFresh DEF RowsInv
<1>3. ASSUME NEW a \in Accounts, NEW ws, Login(a, ws) PROVE RowsInv'
  <2>1. UNCHANGED pending
    BY <1>3 DEF Login
  <2>2. Kept
    BY <1>1, <1>3, LoginStep
  <2> HIDE DEF Kept
  <2> QED
    BY <1>2, <2>1, <2>2
<1>4. CASE ImportToken
  <2> DEFINE row == Row("access_token", 0, 0, 0, Psd(0, 0), {})
  <2>1. Create(row, {}) /\ UNCHANGED <<codex, pending>>
    BY <1>4 DEF ImportToken
  <2>2. IsRow(row) /\ row.auth # "oauth"
    BY RowFields
  <2> HIDE DEF row
  <2>3. Kept
    BY <1>1, <2>1, <2>2, OtherStep
  <2> HIDE DEF Kept
  <2> QED
    BY <1>2, <2>1, <2>3
<1>5. ASSUME NEW name \in Names, AddKey(name) PROVE RowsInv'
  <2> DEFINE row == Row("apikey", 0, name, 1, Psd(0, 0), {})
             known == {i \in DOMAIN rows : rows[i].auth = "apikey" /\ rows[i].name = name}
  <2>1. Create(row, known) /\ UNCHANGED <<codex, pending>>
    BY <1>5 DEF AddKey
  <2>2. IsRow(row) /\ row.auth = "apikey"
    BY RowFields
  <2> HIDE DEF row
  <2>3. known \in SUBSET {i \in DOMAIN rows : rows[i].auth = row.auth}
    BY <2>2
  <2> HIDE DEF known
  <2>4. Kept
    BY <1>1, <2>1, <2>2, <2>3, OtherStep
  <2> HIDE DEF Kept
  <2> QED
    BY <1>2, <2>1, <2>4
<1>6. ASSUME NEW id, Delete(id) PROVE RowsInv'
  <2>1. UNCHANGED <<codex, created, pending>> /\ Without(id)
    BY <1>6 DEF Delete
  <2>2. Keeps
    BY <1>1, <2>1, DeleteFacts DEF Keeps, Alike
  <2>3. Kept
    BY <1>1, <2>2, KeepsInv
  <2> HIDE DEF Kept
  <2> QED
    BY <1>2, <2>1, <2>3
<1>7. ASSUME NEW h \in Handlers,
             FinishPut(h) \/ \E answers \in BOOLEAN : FinishRefresh(h, answers)
      PROVE  RowsInv'
  <2>1. Keeps /\ pending' = [pending EXCEPT ![h] = Idle]
    BY <1>7, WritesTrue
  <2>2. Kept
    BY <1>1, <2>1, KeepsInv
  <2> HIDE DEF Kept
  <2> QED
    BY <1>2, <2>1, <2>2
<1>8. ASSUME NEW h \in Handlers, NEW id \in DOMAIN rows, NEW p, BeginPut(h, id, p)
      PROVE  RowsInv'
  BY <1>1, <1>8, StartsFresh DEF BeginPut
<1>9. ASSUME NEW h \in Handlers, NEW id \in DOMAIN rows, BeginRefresh(h, id)
      PROVE  RowsInv'
  BY <1>1, <1>9, StartsFresh DEF BeginRefresh
<1>10. CASE UNCHANGED connectionsVars
  <2>1. UNCHANGED <<codex, rows, created, pending>>
    BY <1>10 DEF connectionsVars
  <2>2. Keeps
    BY <1>1, <2>1 DEF Keeps, Alike, RowIds
  <2>3. Kept
    BY <1>1, <2>2, KeepsInv
  <2> HIDE DEF Kept
  <2> QED
    BY <1>2, <2>1, <2>3
<1> HIDE DEF Kept
<1> QED
  BY <1>3, <1>4, <1>5, <1>6, <1>7, <1>8, <1>9, <1>10 DEF ConnectionsNext, Put

-----------------------------------------------------------------------------
(* The theorems.                                                           *)

\* What a step may do to the ids, whoever takes it.
LEMMA StepIds ==
    ASSUME RowIds, [ConnectionsNext]_connectionsVars
    PROVE  /\ RowIds'
           /\ DOMAIN rows' \subseteq DOMAIN rows \union {created + 1}
<1> DEFINE Same == created' = created /\ DOMAIN rows' \subseteq DOMAIN rows
           Ok == \A i \in DOMAIN rows' : IsRow(rows'[i])
<1>1. created \in Nat /\ DOMAIN rows \subseteq 1..created
  BY DEF RowIds
<1>2. ASSUME Same, Ok
      PROVE  RowIds' /\ DOMAIN rows' \subseteq DOMAIN rows \union {created + 1}
  BY <1>1, <1>2 DEF RowIds
<1>3. ASSUME NEW row, IsRow(row), NEW known \in SUBSET DOMAIN rows, Create(row, known)
      PROVE  RowIds' /\ DOMAIN rows' \subseteq DOMAIN rows \union {created + 1}
  <2>1. CASE \E id \in known : Merges(row, id)
    <3>1. PICK id \in known : Merges(row, id)
      BY <2>1
    <3>2. Same
      BY <3>1 DEF Merges
    <3>3. Ok
      BY <3>1 DEF Merges, RowIds
    <3> QED
      BY <1>2, <3>2, <3>3
  <2>2. CASE Adds(row)
    <3>1. created' = created + 1 /\ DOMAIN rows' = DOMAIN rows \union {created + 1} /\ Ok
      BY <2>2 DEF Adds
    <3>2. DOMAIN rows' \subseteq 1..created' /\ created' \in Nat
      BY <1>1, <3>1
    <3> QED
      BY <3>1, <3>2 DEF RowIds
  <2> QED
    BY <1>3, <2>1, <2>2, CreateFacts
<1>4. ASSUME NEW a, NEW ws, Login(a, ws)
      PROVE  RowIds' /\ DOMAIN rows' \subseteq DOMAIN rows \union {created + 1}
  <2> DEFINE row == Row("oauth", a.email, 0, 0, Psd(a.user, ws), {a})
             known == {i \in DOMAIN rows : SameIdentity(rows[i], a.email, Psd(a.user, ws))}
  <2>1. Create(row, known)
    BY <1>4 DEF Login
  <2>2. IsRow(row) /\ known \in SUBSET DOMAIN rows
    BY RowFields
  <2> HIDE DEF row, known
  <2> QED
    BY <1>3, <2>1, <2>2
<1>5. CASE ImportToken
  <2> DEFINE row == Row("access_token", 0, 0, 0, Psd(0, 0), {})
  <2>1. Create(row, {}) /\ IsRow(row)
    BY <1>5, RowFields DEF ImportToken
  <2> HIDE DEF row
  <2> QED
    BY <1>3, <2>1
<1>6. ASSUME NEW name, AddKey(name)
      PROVE  RowIds' /\ DOMAIN rows' \subseteq DOMAIN rows \union {created + 1}
  <2> DEFINE row == Row("apikey", 0, name, 1, Psd(0, 0), {})
             known == {i \in DOMAIN rows : rows[i].auth = "apikey" /\ rows[i].name = name}
  <2>1. Create(row, known)
    BY <1>6 DEF AddKey
  <2>2. IsRow(row) /\ known \in SUBSET DOMAIN rows
    BY RowFields
  <2> HIDE DEF row, known
  <2> QED
    BY <1>3, <2>1, <2>2
<1>7. ASSUME NEW id, Delete(id) PROVE Same /\ Ok
  BY <1>7, DeleteFacts DEF Delete
<1>8. ASSUME NEW h \in Handlers, Put(h) PROVE Same /\ Ok
  <2>1. CASE \E id \in DOMAIN rows, p \in 0..Len(recency) : BeginPut(h, id, p)
    BY <2>1 DEF BeginPut, RowIds
  <2>2. CASE FinishPut(h)
    <3>1. created' = created
      BY <2>2 DEF FinishPut
    <3> QED
      BY <2>2, <3>1, PutFacts
  <2> QED
    BY <1>8, <2>1, <2>2 DEF Put
<1>9. ASSUME NEW h, NEW id, BeginRefresh(h, id) PROVE Same /\ Ok
  BY <1>9 DEF BeginRefresh, RowIds
<1>10. ASSUME NEW h \in Handlers, NEW answers \in BOOLEAN, FinishRefresh(h, answers)
       PROVE  Same /\ Ok
  <2>1. created' = created
    BY <1>10 DEF FinishRefresh
  <2> QED
    BY <1>10, <2>1, RefreshFacts
<1>11. ASSUME UNCHANGED connectionsVars PROVE Same /\ Ok
  BY <1>11 DEF connectionsVars, RowIds
<1> HIDE DEF Same, Ok
<1> QED
  BY <1>2, <1>4, <1>5, <1>6, <1>7, <1>8, <1>9, <1>10, <1>11 DEF ConnectionsNext

\* An id that was given and has no row gets none again: a PUT or token refresh that
\* outlives the deletion of its connection does not bring the row back, and neither
\* does a login, which gets a new id.
THEOREM DeletedStaysGone == ConnectionsSpec => DeletedStaysDeleted
<1>1. ConnectionsInit => RowIds
  BY DEF ConnectionsInit, RowIds
<1>2. RowIds /\ [ConnectionsNext]_connectionsVars => RowIds'
  BY StepIds
<1>3. RowIds /\ [ConnectionsNext]_connectionsVars =>
          [\A i \in 1..created : i \notin DOMAIN rows => i \notin DOMAIN rows']_connectionsVars
  <2> SUFFICES ASSUME RowIds, [ConnectionsNext]_connectionsVars, NEW i \in 1..created, i \notin DOMAIN rows
               PROVE  i \notin DOMAIN rows'
    OBVIOUS
  <2>1. i # created + 1
    BY DEF RowIds
  <2> QED
    BY <2>1, StepIds
<1> QED
  BY <1>1, <1>2, <1>3, PTL DEF ConnectionsSpec, DeletedStaysDeleted

\* However logins, token refreshes, edits and deletions are ordered and overlap, a row
\* holds the tokens of one account and an account whose logins say who it is has one
\* row: the merge is by identity and what a request writes back late is what the row
\* still says.
THEOREM AccountsAreSeparate ==
    ASSUME EmailsTellPeopleApart PROVE ConnectionsSpec => []AccountsStaySeparate
<1>1. ConnectionsInit => RowsInv
  BY InitInv
<1>2. RowsInv /\ [ConnectionsNext]_connectionsVars => RowsInv'
  BY StepInv
<1>3. RowsInv => AccountsStaySeparate
  <2> SUFFICES ASSUME RowsInv PROVE AccountsStaySeparate
    OBVIOUS
  <2>1. ASSUME NEW i \in DOMAIN rows, rows[i].auth = "oauth"
        PROVE  Cardinality(rows[i].owners) = 1
    <3>1. PICK a \in Accounts : rows[i].owners = {a}
      BY <2>1 DEF RowsInv, TableInv, LoginsShow, Shows
    <3> QED
      BY <3>1, FS_Singleton
  <2>2. OneRowEach
    BY DEF RowsInv, TableInv
  <2> QED
    BY <2>1, <2>2 DEF AccountsStaySeparate, OneRowEach, Says
<1> QED
  BY <1>1, <1>2, <1>3, PTL DEF ConnectionsSpec

-----------------------------------------------------------------------------
(* The order.                                                              *)

\* Of finitely many rows one has the highest priority.
LEMMA TopOf ==
    ASSUME NEW S, IsFiniteSet(S), S # {}, NEW f, \A i \in S : f[i] \in Nat
    PROVE  \E i \in S : \A j \in S : f[j] <= f[i]
<1> DEFINE Over(i) == {j \in S : f[j] > f[i]}
           Counts == {Cardinality(Over(i)) : i \in S}
<1>1. \A i \in S : Over(i) \in SUBSET S /\ IsFiniteSet(Over(i)) /\ Cardinality(Over(i)) \in Nat
  BY FS_Subset, FS_CardinalityType
<1>2. Counts \in SUBSET Nat /\ Counts # {}
  BY <1>1
<1>3. PICK least \in Counts : \A c \in Counts : least <= c
  <2> HIDE DEF Counts
  <2>1. \A c \in Counts : (CHOOSE m \in Counts : \A n \in Counts : m <= n) <= c
    BY <1>2, FirstOf
  <2> QED
    BY <1>2, <2>1, FirstOf
<1>4. PICK i \in S : least = Cardinality(Over(i))
  OBVIOUS
<1>5. ASSUME NEW j \in S, ~(f[j] <= f[i]) PROVE FALSE
  <2>1. f[j] > f[i]
    BY <1>5
  <2>2. Over(j) \in SUBSET Over(i) /\ j \in Over(i) /\ j \notin Over(j)
    BY <2>1
  <2>3. Cardinality(Over(j)) <= Cardinality(Over(i)) /\ Cardinality(Over(j)) # Cardinality(Over(i))
    BY <1>1, <2>2, FS_Subset
  <2>4. Cardinality(Over(i)) <= Cardinality(Over(j))
    BY <1>3, <1>4
  <2> HIDE DEF Over
  <2> QED
    BY <1>1, <2>3, <2>4
<1> QED
  BY <1>5

\* Ranking keeps the order of two rows that have different priorities.
LEMMA RankOrder ==
    ASSUME NEW table, NEW recent, IsFiniteSet(DOMAIN table),
           \A i \in DOMAIN table : IsRow(table[i]),
           NEW new, new = Reordered(table, recent)
    PROVE  /\ \A i \in DOMAIN table : new[i].priority \in Nat \ {0}
           /\ (\A i \in DOMAIN table : table[i].priority \in Nat) =>
                 \A i, j \in DOMAIN table :
                    table[i].priority < table[j].priority => new[i].priority < new[j].priority
<1> DEFINE A(i) == Ahead(table, recent, i)
<1>1. \A i \in DOMAIN table : A(i) \in SUBSET DOMAIN table /\ i \notin A(i)
  BY DEF Ahead
<1>2. \A i \in DOMAIN table : IsFiniteSet(A(i)) /\ Cardinality(A(i)) \in Nat
  BY <1>1, FS_Subset, FS_CardinalityType
<1>3. \A i \in DOMAIN table : new[i].priority = Cardinality(A(i)) + 1
  BY RankedAlike
<1>4. ASSUME \A k \in DOMAIN table : table[k].priority \in Nat,
             NEW i \in DOMAIN table, NEW j \in DOMAIN table,
             table[i].priority < table[j].priority
      PROVE  Cardinality(A(i)) < Cardinality(A(j))
  <2>1. A(i) \in SUBSET A(j) /\ i \in A(j)
    BY <1>4 DEF Ahead
  <2> HIDE DEF A
  <2>2. Cardinality(A(i)) <= Cardinality(A(j)) /\ Cardinality(A(i)) # Cardinality(A(j))
    BY <1>1, <1>2, <2>1, FS_Subset
  <2> QED
    BY <1>2, <2>2
<1> HIDE DEF A
<1> QED
  BY <1>2, <1>3, <1>4

Ranked == \A i \in DOMAIN rows : rows[i].priority \in Nat \ {0}

\* A step that keeps the order of rows of different priorities, and adds at the end.
Orderly ==
    /\ \A i, j \in DOMAIN rows \cap DOMAIN rows' :
          rows[i].priority < rows[j].priority => rows'[i].priority < rows'[j].priority
    /\ \A i \in DOMAIN rows, j \in DOMAIN rows' \ DOMAIN rows :
          rows'[i].priority < rows'[j].priority

\* A step that leaves the priorities of the rows there are.
LEMMA SameOrder ==
    ASSUME Ranked, DOMAIN rows' \subseteq DOMAIN rows,
           \A i \in DOMAIN rows' : rows'[i].priority = rows[i].priority
    PROVE  Ranked' /\ Orderly
BY DEF Ranked, Orderly

LEMMA FiniteTable ==
    ASSUME RowIds PROVE IsFiniteSet(DOMAIN rows) /\ created + 1 \notin DOMAIN rows
<1>1. IsFiniteSet(1..created)
  BY FS_Interval DEF RowIds
<1> QED
  BY <1>1, FS_Subset DEF RowIds

\* What gets a row of its own without a priority goes last.
LEMMA CreateOrder ==
    ASSUME RowIds, Ranked, NEW row, IsRow(row), row.priority \in Nat,
           NEW known \in SUBSET DOMAIN rows, Create(row, known)
    PROVE  Ranked' /\ (row.priority = 0 => Orderly)
<1>1. CASE known # {}
  <2> DEFINE id == CHOOSE i \in known : \A j \in known : i <= j
             p == IF row.priority = 0 THEN rows[id].priority ELSE row.priority
             o == row.owners \union rows[id].owners
  <2>1. id \in known
    BY <1>1, FirstOf DEF RowIds
  <2>2. rows' = [rows EXCEPT ![id] = [row EXCEPT !.priority = p, !.owners = o]]
    <3>1. rows' = [rows EXCEPT ![id] =
                      [row EXCEPT !.priority = IF @ = 0 THEN rows[id].priority ELSE @,
                                  !.owners = @ \union rows[id].owners]]
      BY <1>1 DEF Create
    <3>2. [row EXCEPT !.priority = IF @ = 0 THEN rows[id].priority ELSE @,
                      !.owners = @ \union rows[id].owners]
             = [row EXCEPT !.priority = p, !.owners = o]
      BY Zenon DEF IsRow, Row
    <3> QED
      BY <3>1, <3>2
  <2> HIDE DEF id
  <2>3. [row EXCEPT !.priority = p, !.owners = o]
           = Row(row.auth, row.email, row.name, p, row.psd, o)
    BY RowMerged, Zenon
  <2>4. rows'[id].priority = p /\ DOMAIN rows' = DOMAIN rows
    BY <2>1, <2>2, <2>3, RowFields
  <2>5. \A i \in DOMAIN rows \ {id} : rows'[i] = rows[i]
    BY <2>2
  <2>6. p \in Nat \ {0}
    BY <2>1 DEF Ranked
  <2>7. Ranked'
    BY <2>4, <2>5, <2>6 DEF Ranked
  <2>8. ASSUME row.priority = 0 PROVE Orderly
    BY <2>4, <2>5, <2>8, SameOrder
  <2> QED
    BY <2>7, <2>8
<1>2. CASE known = {}
  <2> DEFINE new == created + 1
             place == IF row.priority = 0 THEN Highest + 1 ELSE row.priority
             table == [i \in DOMAIN rows \union {new} |->
                          IF i = new THEN [row EXCEPT !.priority = place] ELSE rows[i]]
  <2>1. rows' = Reordered(table, recency')
    BY <1>2 DEF Create
  <2>2. new \notin DOMAIN rows /\ IsFiniteSet(DOMAIN rows)
    BY FiniteTable
  <2> HIDE DEF place, new
  <2>3. [row EXCEPT !.priority = place]
           = Row(row.auth, row.email, row.name, place, row.psd, row.owners)
    BY RowEdited
  <2>4. DOMAIN table = DOMAIN rows \union {new} /\ IsFiniteSet(DOMAIN table)
    BY <2>2, FS_AddElement
  <2>5. table[new] = Row(row.auth, row.email, row.name, place, row.psd, row.owners)
    BY <2>3
  <2>6. \A i \in DOMAIN rows : table[i] = rows[i]
    BY <2>2
  <2> HIDE DEF table
  <2>7. IsRow(table[new]) /\ table[new].priority = place
    BY <2>5, RowFields
  <2>8. \A i \in DOMAIN table : IsRow(table[i])
    BY <2>4, <2>6, <2>7 DEF RowIds
  <2>9. DOMAIN rows' = DOMAIN table
    BY <2>1, <2>8, RankedAlike
  <2>10. Ranked'
    BY <2>1, <2>4, <2>8, <2>9, RankOrder DEF Ranked
  <2>11. ASSUME row.priority = 0 PROVE Orderly
    <3>1. CASE DOMAIN rows = {}
      BY <3>1 DEF Orderly
    <3>2. CASE DOMAIN rows # {}
      <4> DEFINE f == [i \in DOMAIN rows |-> rows[i].priority]
                 P == {rows[i].priority : i \in DOMAIN rows}
      <4>1. \E i \in DOMAIN rows : \A j \in DOMAIN rows : f[j] <= f[i]
        <5>1. \A i \in DOMAIN rows : f[i] \in Nat
          BY DEF Ranked
        <5> HIDE DEF f
        <5> QED
          BY <2>2, <3>2, <5>1, TopOf
      <4>2. \E p \in P : \A i \in DOMAIN rows : rows[i].priority <= p
        BY <4>1
      <4>3. rows # <<>>
        BY <3>2
      <4>4. Highest = CHOOSE p \in P : \A i \in DOMAIN rows : rows[i].priority <= p
        BY <4>3 DEF Highest
      <4>5. Highest \in P /\ \A i \in DOMAIN rows : rows[i].priority <= Highest
        BY <4>2, <4>4
      <4>6. place = Highest + 1 /\ Highest \in Nat
        BY <2>11, <4>5 DEF Ranked, place
      <4>7. \A i \in DOMAIN table : table[i].priority \in Nat
        BY <2>4, <2>6, <2>7, <4>6 DEF Ranked
      <4>8. \A i \in DOMAIN rows : table[i].priority < table[new].priority
        BY <2>6, <2>7, <4>5, <4>6 DEF Ranked
      <4>9. \A i, j \in DOMAIN table :
               table[i].priority < table[j].priority => rows'[i].priority < rows'[j].priority
        BY <2>1, <2>4, <2>8, <4>7, RankOrder
      <4> QED
        BY <2>4, <2>6, <2>9, <4>8, <4>9 DEF Orderly
    <3> QED
      BY <3>1, <3>2
  <2> QED
    BY <2>10, <2>11
<1> QED
  BY <1>1, <1>2

LEMMA DeleteOrder ==
    ASSUME RowIds, Ranked, NEW id, Without(id)
    PROVE  Ranked' /\ Orderly
<1> DEFINE recent == SelectSeq(recency, LAMBDA j : j # id)
           table == [i \in DOMAIN rows \ {id} |-> rows[i]]
<1>1. rows' = Reordered(table, recent)
  BY DEF Without
<1> HIDE DEF recent
<1>2. DOMAIN table = DOMAIN rows \ {id} /\ \A i \in DOMAIN rows \ {id} : table[i] = rows[i]
  OBVIOUS
<1>3. IsFiniteSet(DOMAIN table)
  BY FiniteTable, FS_RemoveElement
<1> HIDE DEF table
<1>4. \A i \in DOMAIN table : IsRow(table[i]) /\ table[i].priority \in Nat
  BY <1>2 DEF RowIds, Ranked
<1>5. DOMAIN rows' = DOMAIN table
  BY <1>1, <1>4, RankedAlike
<1>6. Ranked'
  BY <1>1, <1>3, <1>4, <1>5, RankOrder DEF Ranked
<1>7. \A i, j \in DOMAIN table :
         table[i].priority < table[j].priority => rows'[i].priority < rows'[j].priority
  BY <1>1, <1>3, <1>4, RankOrder
<1> QED
  BY <1>2, <1>5, <1>6, <1>7 DEF Orderly

\* An edit that ranks the rows gives each its place; another leaves priorities alone.
LEMMA UpdateOrder ==
    ASSUME RowIds, Ranked, NEW id, NEW row,
           id \in DOMAIN rows => IsRow(row), NEW ranks,
           ~ranks /\ id \in DOMAIN rows => row.priority = rows[id].priority,
           Update(id, row, ranks)
    PROVE  Ranked' /\ (~ranks => Orderly)
<1>1. CASE id \notin DOMAIN rows
  <2>1. rows' = rows
    BY <1>1 DEF Update
  <2> QED
    BY <2>1, SameOrder
<1>2. CASE id \in DOMAIN rows
  <2> DEFINE table == [rows EXCEPT ![id] = row]
  <2>1. rows' = IF ranks THEN Reordered(table, recency') ELSE table
    BY <1>2 DEF Update
  <2>2. /\ DOMAIN table = DOMAIN rows
        /\ table[id] = row /\ \A i \in DOMAIN rows \ {id} : table[i] = rows[i]
    BY <1>2
  <2> HIDE DEF table
  <2>3. \A i \in DOMAIN table : IsRow(table[i])
    BY <1>2, <2>2 DEF RowIds
  <2>4. CASE ranks
    <3>1. rows' = Reordered(table, recency')
      BY <2>1, <2>4
    <3>2. DOMAIN rows' = DOMAIN table
      BY <2>3, <3>1, RankedAlike
    <3>3. \A i \in DOMAIN table : rows'[i].priority \in Nat \ {0}
      BY <2>2, <2>3, <3>1, FiniteTable, RankOrder
    <3> QED
      BY <2>4, <3>2, <3>3 DEF Ranked
  <2>5. CASE ~ranks
    <3>1. \A i \in DOMAIN rows : rows'[i].priority = rows[i].priority
      BY <1>2, <2>1, <2>2, <2>5
    <3> QED
      BY <2>1, <2>2, <2>5, <3>1, SameOrder
  <2> QED
    BY <2>4, <2>5
<1> QED
  BY <1>1, <1>2

\* The steps in which the user ranks the rows keep the ranks right; every other step
\* keeps the order besides.
LEMMA StepOrder ==
    ASSUME RowIds, Ranked, [ConnectionsNext]_connectionsVars
    PROVE  Ranked' /\ (~Ranks => Orderly)
<1>1. ASSUME NEW a, NEW ws, Login(a, ws) PROVE Ranked' /\ Orderly
  <2> DEFINE row == Row("oauth", a.email, 0, 0, Psd(a.user, ws), {a})
             known == {i \in DOMAIN rows : SameIdentity(rows[i], a.email, Psd(a.user, ws))}
  <2>1. Create(row, known)
    BY <1>1 DEF Login
  <2>2. IsRow(row) /\ row.priority = 0 /\ known \in SUBSET DOMAIN rows
    BY RowFields
  <2> HIDE DEF row, known
  <2> QED
    BY <2>1, <2>2, CreateOrder
<1>2. CASE ImportToken
  <2> DEFINE row == Row("access_token", 0, 0, 0, Psd(0, 0), {})
  <2>1. Create(row, {}) /\ IsRow(row) /\ row.priority = 0
    BY <1>2, RowFields DEF ImportToken
  <2> HIDE DEF row
  <2> QED
    BY <2>1, CreateOrder
<1>3. ASSUME NEW name \in Names, AddKey(name) PROVE Ranked' /\ Ranks
  <2> DEFINE row == Row("apikey", 0, name, 1, Psd(0, 0), {})
             known == {i \in DOMAIN rows : rows[i].auth = "apikey" /\ rows[i].name = name}
  <2>1. Create(row, known)
    BY <1>3 DEF AddKey
  <2>2. IsRow(row) /\ row.priority = 1 /\ known \in SUBSET DOMAIN rows
    BY RowFields
  <2>3. Ranks
    BY <1>3 DEF Ranks
  <2> HIDE DEF row, known
  <2> QED
    BY <2>1, <2>2, <2>3, CreateOrder
<1>4. ASSUME NEW id, Delete(id) PROVE Ranked' /\ Orderly
  BY <1>4, DeleteOrder DEF Delete
<1>5. ASSUME NEW h \in Handlers, FinishPut(h)
      PROVE  Ranked' /\ (~Ranks => Orderly)
  <2> DEFINE p == pending[h]
             old == rows[p.id]
             place == IF p.priority = 0 THEN old.priority ELSE p.priority
             row == [old EXCEPT !.psd = p.psd,
                                !.priority = IF p.priority = 0 THEN @ ELSE p.priority]
  <2>1. Update(p.id, row, p.priority # 0)
    BY <1>5 DEF FinishPut
  <2>2. ASSUME p.id \in DOMAIN rows
        PROVE  row = Row(old.auth, old.email, old.name, place, p.psd, old.owners)
    <3>1. IsRow(old)
      BY <2>2 DEF RowIds
    <3>2. row = [old EXCEPT !.psd = p.psd, !.priority = place]
      BY <3>1, Zenon DEF IsRow, Row
    <3> HIDE DEF row, place, old
    <3>3. [old EXCEPT !.psd = p.psd, !.priority = place]
             = Row(old.auth, old.email, old.name, place, p.psd, old.owners)
      BY <3>1, RowPut, Zenon
    <3> QED
      BY <3>2, <3>3
  <2> HIDE DEF row
  <2>3. ASSUME p.id \in DOMAIN rows PROVE IsRow(row) /\ row.priority = place
    <3> HIDE DEF place, old
    <3> QED
      BY <2>2, <2>3, RowFields
  <2>4. Ranked' /\ (~(p.priority # 0) => Orderly)
    BY <2>1, <2>3, UpdateOrder
  <2>5. p.priority # 0 => Ranks
    BY <1>5 DEF Ranks
  <2> QED
    BY <2>4, <2>5
<1>6. ASSUME NEW h \in Handlers, NEW answers \in BOOLEAN, FinishRefresh(h, answers)
      PROVE  Ranked' /\ Orderly
  <2> DEFINE p == pending[h]
             old == rows[p.id]
             edited == [old EXCEPT !.psd = p.psd]
             row == IF answers THEN edited ELSE old
  <2>1. Update(p.id, row, FALSE)
    BY <1>6 DEF FinishRefresh
  <2>2. ASSUME p.id \in DOMAIN rows PROVE IsRow(row) /\ row.priority = old.priority
    <3>1. IsRow(old)
      BY <2>2 DEF RowIds
    <3>2. edited = Row(old.auth, old.email, old.name, old.priority, p.psd, old.owners)
      BY <3>1, RowEdited
    <3> HIDE DEF edited
    <3>3. IsRow(edited) /\ edited.priority = old.priority
      <4> HIDE DEF old, p
      <4> QED
        BY <3>2, RowFields
    <3> QED
      BY <3>1, <3>3
  <2> HIDE DEF row
  <2> QED
    BY <2>1, <2>2, UpdateOrder
<1>7. ASSUME UNCHANGED rows PROVE Ranked' /\ Orderly
  BY <1>7, SameOrder
<1>8. ASSUME NEW h, NEW id, NEW q, BeginPut(h, id, q) \/ BeginRefresh(h, id)
      PROVE  UNCHANGED rows
  BY <1>8 DEF BeginPut, BeginRefresh
<1>9. UNCHANGED connectionsVars => UNCHANGED rows
  BY DEF connectionsVars
<1> QED
  BY <1>1, <1>2, <1>3, <1>4, <1>5, <1>6, <1>7, <1>8, <1>9 DEF ConnectionsNext, Put

\* Only ranking the rows changes the order in which accounts are tried: no login, no
\* refresh, edit or import, and no deletion of another, although insertions and deletions
\* renumber all priorities; and what is added goes last.
THEOREM OrderIsKept == ConnectionsSpec => OrderKept
<1> DEFINE OrderInv == RowIds /\ Ranked
           Kept == ~Ranks /\ Distinct =>
                     /\ \A i, j \in DOMAIN rows \cap DOMAIN rows' :
                           Before(rows, i, j) => Before(rows', i, j)
                     /\ \A i \in DOMAIN rows, j \in DOMAIN rows' \ DOMAIN rows :
                           Before(rows', i, j)
<1>1. ConnectionsInit => OrderInv
  BY DEF ConnectionsInit, RowIds, Ranked
<1>2. OrderInv /\ [ConnectionsNext]_connectionsVars => OrderInv'
  BY StepIds, StepOrder
<1>3. OrderInv /\ [ConnectionsNext]_connectionsVars => [Kept]_connectionsVars
  <2> SUFFICES ASSUME OrderInv, [ConnectionsNext]_connectionsVars, ~Ranks, Distinct
               PROVE  /\ \A i, j \in DOMAIN rows \cap DOMAIN rows' :
                            Before(rows, i, j) => Before(rows', i, j)
                      /\ \A i \in DOMAIN rows, j \in DOMAIN rows' \ DOMAIN rows :
                            Before(rows', i, j)
    OBVIOUS
  <2>1. Orderly
    BY StepOrder
  <2>2. \A i \in DOMAIN rows : i \in Int
    BY DEF RowIds
  <2>3. ASSUME NEW i \in DOMAIN rows, NEW j \in DOMAIN rows, Before(rows, i, j)
        PROVE  rows[i].priority < rows[j].priority
    BY <2>2, <2>3 DEF Before, Distinct
  <2> QED
    BY <2>1, <2>3 DEF Orderly, Before
<1> HIDE DEF OrderInv
<1> QED
  BY <1>1, <1>2, <1>3, PTL DEF ConnectionsSpec, OrderKept

-----------------------------------------------------------------------------
(* Streams: the counters and the usage.                                    *)

StreamTypes ==
    /\ connection \in [Request -> Account]
    /\ phase \in [Request -> Phases]
    /\ finalized \in [Request -> BOOLEAN]
    /\ usage \in [Request -> Nat]
    /\ byModel \in Nat
    /\ byAccount \in [Account -> Nat]
    /\ silent \subseteq Request
    /\ slipped \in BOOLEAN

-----------------------------------------------------------------------------
(* The invariants.                                                         *)

\* Requests begin one at a time, so those that have begun can be counted, and an
\* aborted request that nobody reported has been closed.
Begun == {r \in Request : phase[r] # "idle"}
Countable == IsFiniteSet(Begun) /\ \A r \in silent : phase[r] = "closed"

\* The usage is saved when the stream is finalized, which it is once, before it is
\* drained and never after a failure.
FinalOnce ==
    \A r \in Request :
        /\ usage[r] = IF finalized[r] THEN 1 ELSE 0
        /\ finalized[r] => phase[r] \notin {"idle", "calling", "reading", "failed"}
        /\ phase[r] = "drained" => finalized[r]

StreamInv == StreamTypes /\ Countable /\ FinalOnce /\ NeverOverstated /\ CountIsExact

-----------------------------------------------------------------------------
(* The requests that count.                                                *)

IsOpen(r) == phase[r] \in {"calling", "streaming"} \/ r \in silent

\* A finite set with an element more, or an element less.
LEMMA OneMore ==
    ASSUME NEW S, IsFiniteSet(S), NEW x, x \notin S
    PROVE  Cardinality(S \union {x}) = Cardinality(S) + 1
BY FS_AddElement

LEMMA OneFewer ==
    ASSUME NEW S, IsFiniteSet(S), NEW x, x \in S
    PROVE  Cardinality(S \ {x}) = Cardinality(S) - 1 /\ Cardinality(S) \in Nat \ {0}
<1>1. IsFiniteSet(S \ {x})
  BY FS_Subset
<1>2. Cardinality(S \ {x}) = Cardinality(S) - 1
  BY FS_RemoveElement
<1>3. Cardinality(S \ {x}) \in Nat /\ Cardinality(S) \in Nat
  BY <1>1, FS_CardinalityType
<1> QED
  BY <1>2, <1>3

\* The open requests are some of those that have begun.
LEMMA OpenFacts ==
    ASSUME StreamTypes, Countable
    PROVE  /\ \A r : r \in AllOpen <=> r \in Request /\ IsOpen(r)
           /\ \A a, r : r \in Open(a) <=> r \in Request /\ IsOpen(r) /\ connection[r] = a
           /\ \A a : IsFiniteSet(Open(a)) /\ Cardinality(Open(a)) \in Nat
           /\ IsFiniteSet(AllOpen) /\ Cardinality(AllOpen) \in Nat
<1>1. \A a, r : r \in Open(a) <=> (r \in Request /\ IsOpen(r) /\ connection[r] = a)
  BY DEF Open, IsOpen
<1>2. \A r : r \in AllOpen <=> (r \in Request /\ IsOpen(r))
  BY <1>1 DEF AllOpen, StreamTypes
<1>3. \A r \in Request : IsOpen(r) => r \in Begun
  BY DEF IsOpen, Begun, Countable
<1>4. AllOpen \subseteq Begun
  BY <1>2, <1>3
<1>5. ASSUME NEW a PROVE Open(a) \subseteq Begun
  BY <1>1, <1>3
<1>6. IsFiniteSet(AllOpen) /\ Cardinality(AllOpen) \in Nat
  BY <1>4, FS_Subset, FS_CardinalityType DEF Countable
<1>7. ASSUME NEW a PROVE IsFiniteSet(Open(a)) /\ Cardinality(Open(a)) \in Nat
  BY <1>5, FS_Subset, FS_CardinalityType DEF Countable
<1> QED
  BY <1>1, <1>2, <1>6, <1>7

\* A step of one request opens or closes that one, and leaves the others alone.
OnlyMoves(r) ==
    /\ UNCHANGED connection
    /\ \A q \in Request \ {r} : phase'[q] = phase[q] /\ (q \in silent' <=> q \in silent)

LEMMA OpenAfter ==
    ASSUME StreamTypes, Countable, NEW r \in Request, OnlyMoves(r)
    PROVE  /\ \A a \in Account :
                 Open(a)' = IF connection[r] = a /\ IsOpen(r)' THEN Open(a) \union {r}
                            ELSE Open(a) \ {r}
           /\ AllOpen' = IF IsOpen(r)' THEN AllOpen \union {r} ELSE AllOpen \ {r}
<1>1. \A q \in Request \ {r} : IsOpen(q)' <=> IsOpen(q)
  BY DEF IsOpen, OnlyMoves
<1>2. connection' = connection /\ connection \in [Request -> Account]
  BY DEF OnlyMoves, StreamTypes
<1>3. \A a, q : q \in Open(a)' <=> (q \in Request /\ IsOpen(q)' /\ connection[q] = a)
  BY <1>2 DEF Open, IsOpen
<1>4. \A q : q \in AllOpen' <=> (q \in Request /\ IsOpen(q)')
  BY <1>2, <1>3 DEF AllOpen
<1>5. ASSUME NEW a \in Account
      PROVE  Open(a)' = IF connection[r] = a /\ IsOpen(r)' THEN Open(a) \union {r}
                        ELSE Open(a) \ {r}
  BY <1>1, <1>3, OpenFacts
<1>6. AllOpen' = IF IsOpen(r)' THEN AllOpen \union {r} ELSE AllOpen \ {r}
  BY <1>1, <1>4, OpenFacts
<1> QED
  BY <1>5, <1>6

-----------------------------------------------------------------------------
(* What the steps of a request do to the counters.                         *)

\* A request begins and its start is tracked.
LEMMA CountsStart ==
    ASSUME StreamInv, NEW r \in Request, OnlyMoves(r), ~IsOpen(r), IsOpen(r)',
           TrackStart(connection[r]), slipped' = slipped
    PROVE  NeverOverstated' /\ CountIsExact'
<1> USE DEF StreamInv
<1>1. /\ byModel \in Nat /\ byAccount \in [Account -> Nat] /\ connection[r] \in Account
  BY DEF StreamTypes
<1>2. AllOpen' = AllOpen \union {r} /\ r \notin AllOpen
  BY OpenAfter, OpenFacts
<1>3. Cardinality(AllOpen)' = Cardinality(AllOpen) + 1
  BY <1>2, OneMore, OpenFacts
<1>4. ASSUME NEW a \in Account
      PROVE  /\ byAccount'[a] \in Nat /\ byAccount[a] \in Nat
             /\ byAccount'[a] - byAccount[a] = Cardinality(Open(a))' - Cardinality(Open(a))
             /\ Cardinality(Open(a)) \in Nat /\ Cardinality(Open(a))' \in Nat
  <2>1. r \notin Open(a) /\ Cardinality(Open(a)) \in Nat /\ byAccount[a] \in Nat
    BY <1>1, OpenFacts
  <2>2. CASE a = connection[r]
    <3>1. Open(a)' = Open(a) \union {r}
      BY <2>2, OpenAfter
    <3>2. Cardinality(Open(a))' = Cardinality(Open(a)) + 1
      BY <2>1, <3>1, OneMore, OpenFacts
    <3>3. byAccount'[a] = byAccount[a] + 1
      BY <2>2, <1>1 DEF TrackStart
    <3> QED
      BY <2>1, <3>2, <3>3
  <2>3. CASE a # connection[r]
    <3>1. Open(a)' = Open(a)
      BY <2>1, <2>3, OpenAfter
    <3>2. byAccount'[a] = byAccount[a]
      BY <2>3, <1>1 DEF TrackStart
    <3> QED
      BY <2>1, <3>1, <3>2
  <2> QED
    BY <2>2, <2>3
<1>5. NeverOverstated'
  BY <1>4 DEF NeverOverstated
<1>6. ASSUME ~slipped PROVE /\ \A a \in Account : byAccount'[a] = Cardinality(Open(a))'
                            /\ byModel' = Cardinality(AllOpen)'
  BY <1>1, <1>3, <1>4, <1>6, OpenFacts DEF CountIsExact, TrackStart
<1> QED
  BY <1>5, <1>6 DEF CountIsExact

\* An open request ends, tracked once.
LEMMA CountsEnd ==
    ASSUME StreamInv, NEW r \in Request, OnlyMoves(r), IsOpen(r), ~IsOpen(r)',
           TrackEnd(connection[r]), slipped' = slipped
    PROVE  NeverOverstated' /\ CountIsExact'
<1> USE DEF StreamInv
<1>1. /\ byModel \in Nat /\ byAccount \in [Account -> Nat] /\ connection[r] \in Account
  BY DEF StreamTypes
<1>2. AllOpen' = AllOpen \ {r} /\ r \in AllOpen
  BY OpenAfter, OpenFacts
<1>3. /\ Cardinality(AllOpen)' = Cardinality(AllOpen) - 1
      /\ Cardinality(AllOpen) \in Nat \ {0}
  BY <1>2, OneFewer, OpenFacts
<1>4. ASSUME NEW a \in Account, a # connection[r]
      PROVE  byAccount'[a] = byAccount[a] /\ Open(a)' = Open(a)
  <2>1. r \notin Open(a)
    BY <1>4, OpenFacts
  <2>2. Open(a)' = Open(a)
    BY <1>4, <2>1, OpenAfter
  <2> QED
    BY <1>1, <1>4, <2>2 DEF TrackEnd
<1>5. ASSUME NEW a \in Account, a = connection[r]
      PROVE  /\ byAccount[a] \in Nat /\ byAccount'[a] = OneLess(byAccount[a])
             /\ Cardinality(Open(a))' = Cardinality(Open(a)) - 1
             /\ Cardinality(Open(a)) \in Nat \ {0}
  <2>1. r \in Open(a) /\ Open(a)' = Open(a) \ {r}
    BY <1>5, OpenFacts, OpenAfter
  <2>2. /\ Cardinality(Open(a))' = Cardinality(Open(a)) - 1
        /\ Cardinality(Open(a)) \in Nat \ {0}
    BY <2>1, OneFewer, OpenFacts
  <2> QED
    BY <1>1, <1>5, <2>2 DEF TrackEnd
<1>6. ASSUME NEW a \in Account PROVE byAccount'[a] <= Cardinality(Open(a))'
  <2>1. byAccount[a] <= Cardinality(Open(a))
    BY DEF NeverOverstated
  <2>2. CASE a = connection[r]
    BY <1>5, <2>1, <2>2 DEF OneLess
  <2>3. CASE a # connection[r]
    BY <1>4, <2>1, <2>3
  <2> QED
    BY <2>2, <2>3
<1>7. ASSUME ~slipped PROVE /\ \A a \in Account : byAccount'[a] = Cardinality(Open(a))'
                            /\ byModel' = Cardinality(AllOpen)'
  <2>1. ASSUME NEW a \in Account PROVE byAccount'[a] = Cardinality(Open(a))'
    <3>1. byAccount[a] = Cardinality(Open(a))
      BY <1>7 DEF CountIsExact
    <3>2. CASE a = connection[r]
      BY <1>5, <3>1, <3>2 DEF OneLess
    <3>3. CASE a # connection[r]
      BY <1>4, <3>1, <3>3
    <3> QED
      BY <3>2, <3>3
  <2>2. byModel' = Cardinality(AllOpen)'
    BY <1>1, <1>3, <1>7 DEF CountIsExact, TrackEnd, OneLess
  <2> QED
    BY <2>1, <2>2
<1> QED
  BY <1>6, <1>7 DEF CountIsExact, NeverOverstated

\* The open requests stay the same: the counters do too, or they only go down and the
\* step is remembered.
LEMMA CountsKept ==
    ASSUME StreamInv, NEW r \in Request, OnlyMoves(r), IsOpen(r)' <=> IsOpen(r),
           \/ UNCHANGED <<byModel, byAccount>> /\ slipped' = slipped
           \/ TrackEnd(connection[r]) /\ slipped' = TRUE
    PROVE  NeverOverstated' /\ CountIsExact'
<1> USE DEF StreamInv
<1>1. AllOpen' = AllOpen
  <2>1. r \in AllOpen <=> IsOpen(r)
    BY OpenFacts
  <2>2. CASE IsOpen(r)
    BY <2>1, <2>2, OpenAfter
  <2>3. CASE ~IsOpen(r)
    BY <2>1, <2>3, OpenAfter
  <2> QED
    BY <2>2, <2>3
<1>2. ASSUME NEW a \in Account PROVE Open(a)' = Open(a)
  <2>1. r \in Open(a) <=> IsOpen(r) /\ connection[r] = a
    BY OpenFacts
  <2>2. CASE IsOpen(r) /\ connection[r] = a
    BY <2>1, <2>2, OpenAfter
  <2>3. CASE ~(IsOpen(r) /\ connection[r] = a)
    BY <2>1, <2>3, OpenAfter
  <2> QED
    BY <2>2, <2>3
<1>3. CASE UNCHANGED <<byModel, byAccount>> /\ slipped' = slipped
  BY <1>1, <1>2, <1>3 DEF NeverOverstated, CountIsExact
<1>4. CASE TrackEnd(connection[r]) /\ slipped' = TRUE
  <2>1. ASSUME NEW a \in Account PROVE byAccount'[a] <= Cardinality(Open(a))'
    <3>1. /\ byAccount \in [Account -> Nat] /\ byAccount[a] \in Nat
          /\ byAccount[a] <= Cardinality(Open(a)) /\ Cardinality(Open(a)) \in Nat
      BY OpenFacts DEF StreamTypes, NeverOverstated
    <3>2. byAccount'[a] \in {byAccount[a], OneLess(byAccount[a])}
      BY <1>4, <3>1 DEF TrackEnd
    <3> QED
      BY <1>2, <3>1, <3>2 DEF OneLess
  <2> QED
    BY <1>4, <2>1 DEF NeverOverstated, CountIsExact
<1> QED
  BY <1>3, <1>4

-----------------------------------------------------------------------------
(* Every step keeps the invariant.                                         *)

LEMMA CountsBegin == StreamsInit => StreamInv
<1> SUFFICES ASSUME StreamsInit PROVE StreamInv
  OBVIOUS
<1>1. StreamTypes
  BY DEF StreamsInit, StreamTypes, Phases
<1>2. Begun = {}
  BY DEF StreamsInit, Begun
<1>3. Countable
  BY <1>2, FS_EmptySet DEF StreamsInit, Countable
<1>4. FinalOnce
  BY DEF StreamsInit, FinalOnce
<1>5. \A a : Open(a) = {}
  BY DEF StreamsInit, Open
<1>6. AllOpen = {}
  BY <1>5 DEF AllOpen
<1>7. Cardinality({}) = 0
  BY FS_EmptySet
<1>8. NeverOverstated /\ CountIsExact
  BY <1>5, <1>6, <1>7 DEF StreamsInit, NeverOverstated, CountIsExact
<1> QED
  BY <1>1, <1>3, <1>4, <1>8 DEF StreamInv

\* The counters keep their types, whatever is tracked.
LEMMA CounterTypes ==
    ASSUME StreamTypes, NEW a \in Account,
           TrackStart(a) \/ TrackEnd(a) \/ UNCHANGED counters
    PROVE  byModel' \in Nat /\ byAccount' \in [Account -> Nat]
BY DEF StreamTypes, TrackStart, TrackEnd, OneLess, counters

\* The set of those that have begun stays finite, one more at a time.
LEMMA StaysCountable ==
    ASSUME StreamTypes, Countable, NEW r \in Request, OnlyMoves(r)
    PROVE  IsFiniteSet(Begun)'
<1>1. Begun' \subseteq Begun \union {r}
  BY DEF Begun, OnlyMoves
<1>2. IsFiniteSet(Begun \union {r})
  BY FS_AddElement DEF Countable
<1> QED
  BY <1>1, <1>2, FS_Subset

\* However often finalizeStream is called, the usage has then been saved once.
LEMMA Finalizes ==
    ASSUME StreamTypes, FinalOnce, NEW r \in Request, FinalizeStream(r)
    PROVE  /\ finalized' = [finalized EXCEPT ![r] = TRUE]
           /\ usage' = [usage EXCEPT ![r] = 1]
<1>1. CASE finalized[r]
  BY <1>1 DEF FinalizeStream, StreamTypes, FinalOnce
<1>2. CASE ~finalized[r]
  BY <1>2 DEF FinalizeStream, StreamTypes, FinalOnce
<1> QED
  BY <1>1, <1>2

\* What a request's step may do to its phase, its final record and its usage.
LEMMA StepShape ==
    ASSUME StreamTypes, Countable, FinalOnce, NEW r \in Request, RequestStep(r)
    PROVE  /\ OnlyMoves(r)
           /\ phase' \in [Request -> Phases] /\ finalized' \in [Request -> BOOLEAN]
           /\ usage' \in [Request -> Nat] /\ silent' \subseteq Request
           /\ slipped' \in BOOLEAN
           /\ \A q \in silent' : phase'[q] = "closed"
           /\ FinalOnce'
           /\ TrackStart(connection[r]) \/ TrackEnd(connection[r]) \/ UNCHANGED counters
<1> USE DEF StreamTypes, Countable, FinalOnce, OnlyMoves, Goto, Phases
<1>1. CASE Start(r)
  BY <1>1 DEF Start
<1>2. CASE TranslateFails(r)
  BY <1>2 DEF TranslateFails
<1>3. CASE CallFails(r)
  BY <1>3 DEF CallFails
<1>4. CASE NotAStream(r)
  BY <1>4 DEF NotAStream
<1>5. CASE AnswerWhole(r)
  BY <1>5 DEF AnswerWhole
<1>6. CASE WholeRead(r)
  BY <1>6 DEF WholeRead
<1>7. CASE WholeUnreadable(r)
  BY <1>7 DEF WholeUnreadable
<1>8. CASE StreamStarts(r)
  BY <1>8 DEF StreamStarts
<1>9. CASE TerminalEvent(r)
  <2>1. /\ finalized' = [finalized EXCEPT ![r] = TRUE] /\ usage' = [usage EXCEPT ![r] = 1]
        /\ phase[r] = "streaming" /\ UNCHANGED <<connection, phase, silent, slipped, counters>>
    BY <1>9, Finalizes DEF TerminalEvent
  <2> QED
    BY <2>1
<1>10. CASE UpstreamEnds(r)
  <2>1. /\ finalized' = [finalized EXCEPT ![r] = TRUE] /\ usage' = [usage EXCEPT ![r] = 1]
        /\ phase[r] = "streaming" /\ phase' = [phase EXCEPT ![r] = "drained"]
        /\ TrackEnd(connection[r]) /\ UNCHANGED <<connection, silent, slipped>>
    BY <1>10, Finalizes DEF UpstreamEnds
  <2> QED
    BY <2>1
<1>11. CASE ReaderDone(r)
  BY <1>11 DEF ReaderDone
<1>12. CASE UpstreamBreaks(r)
  BY <1>12 DEF UpstreamBreaks
<1>13. CASE StallFires(r)
  BY <1>13 DEF StallFires
<1>14. CASE AbortSeen(r)
  BY <1>14 DEF AbortSeen
<1>15. CASE ClientCancels(r)
  BY <1>15 DEF ClientCancels
<1>16. CASE LateChunk(r)
  BY <1>16 DEF LateChunk
<1>17. CASE LateEnd(r)
  <2>1. /\ finalized' = [finalized EXCEPT ![r] = TRUE] /\ usage' = [usage EXCEPT ![r] = 1]
        /\ phase[r] \in {"aborting", "left"} /\ phase' = [phase EXCEPT ![r] = "closed"]
        /\ TrackEnd(connection[r]) /\ slipped' = TRUE /\ UNCHANGED <<connection, silent>>
    BY <1>17, Finalizes DEF LateEnd
  <2> QED
    BY <2>1
<1> QED
  BY <1>1, <1>2, <1>3, <1>4, <1>5, <1>6, <1>7, <1>8, <1>9, <1>10, <1>11, <1>12, <1>13,
     <1>14, <1>15, <1>16, <1>17 DEF RequestStep

LEMMA StepCounts ==
    ASSUME StreamInv, NEW r \in Request, RequestStep(r)
    PROVE  NeverOverstated' /\ CountIsExact'
<1>0. OnlyMoves(r)
  BY StepShape DEF StreamInv
<1>1. /\ r \in silent => phase[r] = "closed"
      /\ phase \in [Request -> Phases]
  BY DEF StreamInv, StreamTypes, Countable
<1> DEFINE Held == /\ IsOpen(r)' <=> IsOpen(r)
                   /\ \/ UNCHANGED <<byModel, byAccount>> /\ slipped' = slipped
                      \/ TrackEnd(connection[r]) /\ slipped' = TRUE
           Ended == /\ IsOpen(r) /\ ~IsOpen(r)'
                    /\ TrackEnd(connection[r]) /\ slipped' = slipped
<1>2. CASE Start(r)
  <2>1. ~IsOpen(r) /\ IsOpen(r)' /\ TrackStart(connection[r]) /\ slipped' = slipped
    BY <1>1, <1>2 DEF Start, Goto, IsOpen
  <2> QED
    BY <1>0, <2>1, CountsStart
<1>3. ASSUME Ended PROVE NeverOverstated' /\ CountIsExact'
  BY <1>0, <1>3, CountsEnd
<1>4. ASSUME Held PROVE NeverOverstated' /\ CountIsExact'
  BY <1>0, <1>4, CountsKept
<1>5. ASSUME CallFails(r) \/ NotAStream(r) \/ AnswerWhole(r) PROVE Ended
  BY <1>1, <1>5 DEF CallFails, NotAStream, AnswerWhole, Goto, IsOpen
<1>6. ASSUME UpstreamEnds(r) \/ StallFires(r) PROVE Ended
  BY <1>1, <1>6 DEF UpstreamEnds, StallFires, Goto, IsOpen
<1>7. ASSUME TranslateFails(r) PROVE Held
  BY <1>1, <1>7 DEF TranslateFails, Goto, IsOpen
<1>8. ASSUME WholeRead(r) \/ WholeUnreadable(r) PROVE Held
  BY <1>1, <1>8 DEF WholeRead, WholeUnreadable, Goto, IsOpen, counters
<1>9. ASSUME StreamStarts(r) \/ TerminalEvent(r) PROVE Held
  BY <1>1, <1>9 DEF StreamStarts, TerminalEvent, Goto, IsOpen, counters
<1>10. ASSUME ReaderDone(r) \/ AbortSeen(r) \/ LateChunk(r) \/ LateEnd(r) PROVE Held
  BY <1>1, <1>10 DEF ReaderDone, AbortSeen, LateChunk, LateEnd, Goto, IsOpen, counters
<1>11. ASSUME UpstreamBreaks(r) PROVE Ended \/ Held
  BY <1>1, <1>11 DEF UpstreamBreaks, Goto, IsOpen, counters
<1>12. ASSUME ClientCancels(r) PROVE Ended \/ Held
  <2>1. CASE phase[r] = "streaming"
    <3>1. slipped' = slipped
      <4>1. slipped' = (slipped \/ phase[r] = "drained") /\ slipped \in BOOLEAN
        BY <1>12 DEF ClientCancels, StreamInv, StreamTypes
      <4>2. phase[r] # "drained"
        BY <2>1
      <4> QED
        BY <4>1, <4>2, Zenon
    <3> QED
      BY <1>1, <1>12, <2>1, <3>1 DEF ClientCancels, IsConnected, Goto, IsOpen
  <2>2. CASE phase[r] = "drained"
    BY <1>1, <1>12, <2>2 DEF ClientCancels, IsConnected, Goto, IsOpen
  <2>3. CASE phase[r] = "aborting"
    BY <1>1, <1>12, <2>3 DEF ClientCancels, IsConnected, Goto, IsOpen, counters, StreamInv,
                            StreamTypes
  <2> QED
    BY <1>12, <2>1, <2>2, <2>3 DEF ClientCancels
<1> HIDE DEF Held, Ended
<1> QED
  BY <1>2, <1>3, <1>4, <1>5, <1>6, <1>7, <1>8, <1>9, <1>10, <1>11, <1>12 DEF RequestStep

\* The 60 s timer zeroes the counters; where nothing was counted, nothing is open.
LEMMA TimerStep ==
    ASSUME StreamInv, NEW a \in Account, PendingTimerFires(a)
    PROVE  StreamInv'
<1> USE DEF StreamInv
<1>1. /\ UNCHANGED <<connection, phase, finalized, usage, silent>>
      /\ byModel' = 0 /\ byAccount' = [byAccount EXCEPT ![a] = 0]
      /\ slipped' = (slipped \/ byModel > 0)
  BY DEF PendingTimerFires, streams
<1>2. StreamTypes' /\ Countable' /\ FinalOnce'
  <2>1. slipped' \in BOOLEAN
    BY <1>1, Zenon
  <2>2. byModel' \in Nat /\ byAccount' \in [Account -> Nat]
    BY <1>1 DEF StreamTypes
  <2>3. Begun' = Begun
    BY <1>1 DEF Begun
  <2> QED
    BY <1>1, <2>1, <2>2, <2>3 DEF StreamTypes, Countable, FinalOnce
<1>3. AllOpen' = AllOpen /\ \A b : Open(b)' = Open(b)
  BY <1>1 DEF AllOpen, Open
<1>4. ASSUME NEW b \in Account PROVE byAccount'[b] <= Cardinality(Open(b))'
  <2>1. byAccount'[b] \in {0, byAccount[b]}
    BY <1>1 DEF StreamTypes
  <2>2. byAccount[b] <= Cardinality(Open(b)) /\ Cardinality(Open(b)) \in Nat
    BY OpenFacts DEF NeverOverstated
  <2> QED
    BY <1>3, <2>1, <2>2
<1>5. ASSUME ~slipped' PROVE /\ \A b \in Account : byAccount'[b] = Cardinality(Open(b))'
                             /\ byModel' = Cardinality(AllOpen)'
  <2>1. ~slipped /\ byModel = 0
    <3>1. ~slipped /\ ~(byModel > 0)
      BY <1>1, <1>5, Zenon
    <3> QED
      BY <3>1 DEF StreamTypes
  <2>2. Cardinality(AllOpen) = 0
    BY <2>1 DEF CountIsExact
  <2>3. AllOpen = {}
    BY <2>2, OpenFacts, FS_EmptySet
  <2>4. ASSUME NEW b \in Account
        PROVE  Cardinality(Open(b)) = 0 /\ byAccount[b] = Cardinality(Open(b))
    <3>1. Open(b) = {}
      BY <2>3 DEF AllOpen
    <3> QED
      BY <2>1, <3>1, FS_EmptySet DEF CountIsExact
  <2>5. ASSUME NEW b \in Account PROVE byAccount'[b] = 0
    BY <1>1, <2>4 DEF StreamTypes
  <2> QED
    BY <1>1, <1>3, <2>2, <2>4, <2>5
<1> QED
  BY <1>2, <1>4, <1>5 DEF NeverOverstated, CountIsExact

LEMMA CountsStay == StreamInv /\ [StreamsNext]_streamsVars => StreamInv'
<1> SUFFICES ASSUME StreamInv, [StreamsNext]_streamsVars PROVE StreamInv'
  OBVIOUS
<1>1. ASSUME NEW r \in Request, RequestStep(r) PROVE StreamInv'
  <2>1. /\ OnlyMoves(r) /\ UNCHANGED connection
        /\ phase' \in [Request -> Phases] /\ finalized' \in [Request -> BOOLEAN]
        /\ usage' \in [Request -> Nat] /\ silent' \subseteq Request
        /\ slipped' \in BOOLEAN
        /\ \A q \in silent' : phase'[q] = "closed"
        /\ FinalOnce'
        /\ TrackStart(connection[r]) \/ TrackEnd(connection[r]) \/ UNCHANGED counters
    BY <1>1, StepShape DEF StreamInv, OnlyMoves
  <2>2. byModel' \in Nat /\ byAccount' \in [Account -> Nat]
    <3>1. connection[r] \in Account
      BY DEF StreamInv, StreamTypes
    <3> QED
      BY <2>1, <3>1, CounterTypes DEF StreamInv
  <2>3. IsFiniteSet(Begun)'
    BY <2>1, StaysCountable DEF StreamInv
  <2>4. NeverOverstated' /\ CountIsExact'
    BY <1>1, StepCounts
  <2>5. StreamTypes'
    BY <2>1, <2>2 DEF StreamInv, StreamTypes
  <2> QED
    BY <2>1, <2>3, <2>4, <2>5 DEF StreamInv, Countable
<1>2. ASSUME NEW a \in Account, PendingTimerFires(a) PROVE StreamInv'
  BY <1>2, TimerStep
<1>3. CASE UNCHANGED <<counters, streams, silent, slipped>>
  <2>1. /\ UNCHANGED <<connection, phase, finalized, usage, byModel, byAccount, silent, slipped>>
    BY <1>3 DEF counters, streams
  <2>2. AllOpen' = AllOpen /\ Begun' = Begun /\ \A b : Open(b)' = Open(b)
    BY <2>1 DEF AllOpen, Open, Begun
  <2> QED
    BY <2>1, <2>2 DEF StreamInv, StreamTypes, Countable, FinalOnce, NeverOverstated, CountIsExact
<1> QED
  BY <1>1, <1>2, <1>3 DEF StreamsNext, streamsVars

-----------------------------------------------------------------------------
(* The theorems.                                                           *)

LEMMA Invariance == StreamsSpec => []StreamInv
<1>1. StreamInv /\ [StreamsNext]_streamsVars => StreamInv'
  BY CountsStay
<1> QED
  BY <1>1, CountsBegin, PTL DEF StreamsSpec

\* The counter of an account (trackPendingRequest) never exceeds the number of its
\* requests whose end was not reported, whichever handlers raced.
THEOREM CountersNeverOverstate == StreamsSpec => []NeverOverstated
<1>1. StreamInv => NeverOverstated
  BY DEF StreamInv
<1> QED
  BY <1>1, Invariance, PTL

\* Until an end is counted that was not a request's own, every counter of
\* trackPendingRequest equals the number of open requests.
THEOREM CountersAreExact == StreamsSpec => []CountIsExact
<1>1. StreamInv => CountIsExact
  BY DEF StreamInv
<1> QED
  BY <1>1, Invariance, PTL

\* finalizeStream and onStreamComplete save the usage of a whole answer once, and that
\* of a failed request never.
THEOREM UsageSavedOnce == StreamsSpec => []AccountedOnce
<1>1. StreamInv => AccountedOnce
  BY DEF StreamInv, StreamTypes, FinalOnce, AccountedOnce
<1> QED
  BY <1>1, Invariance, PTL

=============================================================================
