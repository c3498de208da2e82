----------------------------- MODULE Migration -----------------------------
(***************************************************************************)
(* The schema migration that the daemon runs at every start, before it     *)
(* reads its VMs: db/migrate.go, called by doDBMigrations of main.go.      *)
(*                                                                         *)
(* SQLite commits statement by statement and nothing here is a             *)
(* transaction, so the daemon may die (or panic) between any two           *)
(* statements. The next start reads the version that is stored and goes    *)
(* through the migrations again. A step of this module is one statement.   *)
(***************************************************************************)
EXTENDS Naturals, Sequences

CONSTANTS
  MigVM,    \* VMs of the database that is upgraded
  Item      \* positions of an attachment in the list of its VM

Id == << 2024022401, 2024022402, 2024022403, 2024062701, 2024062702, 2024062703,
         2024063001, 2024063002, 2024063003, 2024110601, 2024112301, 2024112302 >>

\* Mutant: 2024063001 stores the version of 2024063002.
StoredAhead(i) == IF i = 7 THEN Id[8] ELSE Id[i]

\* What a migration leaves in the meta table; 2024063003 stores an older version.
Stored(i) == IF i = 9 THEN Id[6] ELSE Id[i]

\* An attachment: a VM and the place in its list.
Attachment == MigVM \X Item

\* The tables configs goes through.
ConfigTable == {"configs", "configs_new", "configs_2024110601"}

VARIABLES
  db,          \* the database file
  old,         \* attachments of each kind in the database that is upgraded
  vms,         \* its VMs
  schemaVersion, \* what CustomMigrate read at its start
  at,          \* the migration under way, Len(Id) + 1 when all are through
  pc,          \* what it does
  todo,        \* rows a copying loop has yet to insert
  refused      \* attachments whose last INSERT failed, by the migration that copies them

migVars == <<db, old, vms, schemaVersion, at, pc, todo, refused>>

Database ==
  [version : {0} \cup {Id[i] : i \in 1 .. Len(Id)},
   columns : SUBSET {"nics", "is_os", "disks"},   \* old columns of configs
   vmNics : BOOLEAN,                              \* is there a table vm_nics
   configId : BOOLEAN,                            \* has it the column config_id
   tables : SUBSET {"vm_isos", "vm_disks"},
   nics : SUBSET Attachment,                      \* vm_nics with a config_id
   isos : SUBSET Attachment,                      \* rows of vm_isos
   disks : SUBSET Attachment,                     \* rows of vm_disks
   requests : {"absent", "old", "new"},           \* old: it has a vm_id
   present : SUBSET ConfigTable,
   configs : [ConfigTable -> SUBSET MigVM],          \* their rows
   index : ConfigTable \cup {"none"},             \* where idx_configs_deleted_at is
   checked : SUBSET ConfigTable,                  \* tables with the new constraints
   softDeleted : BOOLEAN]                         \* soft-deleted rows in disks

MigTypeOK ==
  /\ db \in Database
  /\ vms \subseteq MigVM
  /\ old \subseteq vms \X Item
  /\ schemaVersion \in {0} \cup {Id[i] : i \in 1 .. Len(Id)}
  /\ at \in 1 .. Len(Id) + 1
  /\ pc \in {"down", "test", "copy", "create", "index", "insert", "rename", "replace",
             "forget", "store", "up"}
  /\ todo \subseteq Attachment
  /\ refused \in [{5, 8} -> SUBSET Attachment]

-----------------------------------------------------------------------------
(* Databases that releases of the daemon have left behind, by the last     *)
(* migration they had; and the file that does not exist yet.               *)

Fresh ==
  [version |-> 0, columns |-> {}, vmNics |-> FALSE, configId |-> FALSE, tables |-> {},
   nics |-> {}, isos |-> {}, disks |-> {}, requests |-> "absent", present |-> {},
   configs |-> [t \in ConfigTable |-> {}], index |-> "none", checked |-> {}, softDeleted |-> FALSE]

\* Before the first migration.
Oldest(v) ==
  [Fresh EXCEPT !.columns = {"nics", "is_os", "disks"}, !.vmNics = TRUE,
                !.requests = "old", !.present = {"configs"}, !.configs["configs"] = v,
                !.index = "configs", !.softDeleted = TRUE]

With022403(v, f) ==
  [Oldest(v) EXCEPT !.version = Id[3], !.columns = {"is_os", "disks"},
                       !.configId = TRUE, !.nics = f, !.requests = "new"]

With062703(v, f) ==
  [With022403(v, f) EXCEPT !.version = Id[6], !.columns = {"disks"},
                           !.tables = {"vm_isos"}, !.isos = f]

With063003(v, f) ==
  [With062703(v, f) EXCEPT !.columns = {}, !.tables = {"vm_isos", "vm_disks"},
                           !.disks = f]

With110601(v, f) ==
  [With063003(v, f) EXCEPT !.version = Id[10], !.checked = {"configs"},
                           !.present = {"configs", "configs_2024110601"},
                           !.configs["configs_2024110601"] = v]

Released(v, f) ==
  {Oldest(v), With022403(v, f), With062703(v, f), With063003(v, f), With110601(v, f)}

MigIdle ==
  /\ schemaVersion = 0
  /\ at = 1
  /\ pc = "down"
  /\ todo = {}
  /\ refused = [i \in {5, 8} |-> {}]

MigInit ==
  /\ \/ vms = {} /\ old = {} /\ db = Fresh
     \/ /\ vms \in SUBSET MigVM
        /\ old \in SUBSET (vms \X Item)
        /\ db \in Released(vms, old)
  /\ MigIdle

-----------------------------------------------------------------------------
(* Stepping through the migrations.                                        *)

\* CustomMigrate reads the version once.
MigStart ==
  /\ pc = "down"
  /\ schemaVersion' = db.version
  /\ at' = 1
  /\ pc' = "test"
  /\ UNCHANGED <<db, old, vms, todo, refused>>

Skip ==
  /\ pc = "test" /\ at <= Len(Id) /\ schemaVersion >= Id[at]
  /\ at' = at + 1
  /\ UNCHANGED <<db, old, vms, schemaVersion, pc, todo, refused>>

Entered(i) == pc = "test" /\ at = i /\ schemaVersion < Id[i]

\* One statement on the database, and where the migration goes on.
Statement(newDb, next) ==
  /\ db' = newDb
  /\ pc' = next
  /\ UNCHANGED <<old, vms, schemaVersion, at, todo, refused>>

\* setSchemaVersion deletes the row and inserts it again.
ForgetVersion ==
  /\ pc = "forget"
  /\ Statement([db EXCEPT !.version = 0], "store")

StoreVersion ==
  /\ pc = "store"
  /\ db' = [db EXCEPT !.version = Stored(at)]
  /\ at' = at + 1
  /\ pc' = "test"
  /\ UNCHANGED <<old, vms, schemaVersion, todo, refused>>

\* A failed statement panics; the daemon may also die at any other point.
Panic ==
  /\ schemaVersion' = 0
  /\ at' = 1
  /\ pc' = "down"
  /\ todo' = {}
  /\ UNCHANGED <<db, old, vms, refused>>

MigCrash == pc \notin {"down", "up"} /\ Panic

\* Migrator().HasColumn(&vm.Config{}, c)
HasColumn(c) == "configs" \in db.present /\ c \in db.columns

\* GORM's DropColumn is not part of the repository. It rebuilds the table, and the
\* index on it may be lost.
DropColumn(c) ==
  \E keep \in {db.index, "none"} :
    Statement([db EXCEPT !.columns = @ \ {c}, !.index = keep], "forget")

-----------------------------------------------------------------------------
(* 2024022401: NICs were a list in configs and become rows with an owner.  *)

AddConfigId ==
  /\ Entered(1)
  /\ IF db.vmNics /\ ~db.configId
     THEN Statement([db EXCEPT !.configId = TRUE], "copy")
     ELSE Statement(db, "forget")

\* vm.GetAllDB reads vm_isos and vm_disks of every VM.
VMsReadable == vms = {} \/ db.tables = {"vm_isos", "vm_disks"}

\* One Save for every NIC in a list. A step of its own for each would show nothing:
\* no database has the join tables and lacks config_id.
CopyNics ==
  /\ pc = "copy" /\ at = 1
  /\ IF VMsReadable
     THEN Statement([db EXCEPT !.nics = @ \cup old], "forget")
     ELSE Panic

\* 2024022402, 2024062703, 2024063003: drop the column that has been copied.
DropOld(i, c) ==
  /\ Entered(i)
  /\ IF HasColumn(c) THEN DropColumn(c) ELSE Statement(db, "forget")

\* 2024022403: requests are not worth keeping.
DropRequests ==
  /\ Entered(3)
  /\ Statement([db EXCEPT !.requests = IF @ = "old" THEN "absent" ELSE @], "forget")

\* 2024062701, 2024063001.
CreateTable(i, t) ==
  /\ Entered(i)
  /\ Statement([db EXCEPT !.tables = @ \cup {t}], "forget")

\* Mutant: the lists are not read again once a row has been copied.
ReadOldOnce(i, c) ==
  /\ Entered(i)
  /\ todo' = IF HasColumn(c) /\ (IF i = 5 THEN db.isos ELSE db.disks) = {} THEN old ELSE {}
  /\ pc' = "copy"
  /\ UNCHANGED <<db, old, vms, schemaVersion, at, refused>>

\* 2024062702, 2024063002: one row for every entry of the old lists.
ReadOld(i, c) ==
  /\ Entered(i)
  /\ todo' = IF HasColumn(c) THEN old ELSE {}
  /\ pc' = "copy"
  /\ UNCHANGED <<db, old, vms, schemaVersion, at, refused>>

\* The result of an INSERT is looked at nowhere: one that fails is done with like any
\* other, whether its row was there already or could not be written.
InsertRow(i, a, rows, newDb) ==
  /\ pc = "copy" /\ at = i /\ a \in todo
  /\ \/ db' = newDb /\ refused' = [refused EXCEPT ![i] = @ \ {a}]
     \/ db' = db /\ refused' = [refused EXCEPT ![i] = @ \cup ({a} \ rows)]
  /\ todo' = todo \ {a}
  /\ UNCHANGED <<old, vms, schemaVersion, at, pc>>

InsertIso(a) == InsertRow(5, a, db.isos, [db EXCEPT !.isos = @ \cup {a}])

InsertDisk(a) == InsertRow(8, a, db.disks, [db EXCEPT !.disks = @ \cup {a}])

CopyDone ==
  /\ pc = "copy" /\ at \in {5, 8} /\ todo = {}
  /\ Statement(db, "forget")

-----------------------------------------------------------------------------
(* 2024110601: a copy of configs with new constraints takes its place.     *)

Exists(t) == t \in db.present

DropIndex ==
  /\ Entered(10)
  /\ IF db.index = "none" THEN Panic
     ELSE Statement([db EXCEPT !.index = "none"], "create")

CreateConfigsNew ==
  /\ pc = "create"
  /\ IF Exists("configs_new") THEN Panic
     ELSE Statement([db EXCEPT !.present = @ \cup {"configs_new"},
                               !.checked = @ \cup {"configs_new"}], "index")

CreateIndex ==
  /\ pc = "index"
  /\ Statement([db EXCEPT !.index = "configs_new"], "insert")

\* Mutant: rows that violate the new constraints are skipped.
InsertConfigsOrIgnore ==
  /\ pc = "insert"
  /\ \E kept \in SUBSET db.configs["configs"] :
       Statement([db EXCEPT !.configs["configs_new"] = kept], "rename")

InsertConfigs ==
  /\ pc = "insert"
  /\ Statement([db EXCEPT !.configs["configs_new"] = db.configs["configs"]], "rename")

\* ALTER TABLE ... RENAME: rows, constraints and index go with the table.
Renamed(from, to) ==
  [db EXCEPT !.present = (@ \ {from}) \cup {to},
             !.configs = [@ EXCEPT ![to] = db.configs[from], ![from] = {}],
             !.index = IF @ = from THEN to ELSE @,
             !.checked = IF from \in @ THEN (@ \ {from}) \cup {to} ELSE @]

SetConfigsAside ==
  /\ pc = "rename"
  /\ IF Exists("configs_2024110601") THEN Panic
     ELSE Statement(Renamed("configs", "configs_2024110601"), "replace")

ReplaceConfigs ==
  /\ pc = "replace"
  /\ Statement(Renamed("configs_new", "configs"), "forget")

\* 2024112301: the table that was set aside goes.
DropBackup ==
  /\ Entered(11)
  /\ Statement([db EXCEPT !.present = @ \ {"configs_2024110601"},
                          !.configs["configs_2024110601"] = {},
                          !.checked = @ \ {"configs_2024110601"}], "forget")

\* 2024112302.
DeleteSoftDeleted ==
  /\ Entered(12)
  /\ Statement([db EXCEPT !.softDeleted = FALSE], "forget")

\* GORM's AutoMigrate creates what is missing; then the caches are filled and the
\* daemon serves. It can die as well.
ComeUp ==
  /\ pc = "test" /\ at = Len(Id) + 1
  /\ Statement([db EXCEPT !.vmNics = TRUE, !.configId = TRUE, !.requests = "new",
                          !.present = @ \cup {"configs"},
                          !.index = IF @ = "none" THEN "configs" ELSE @], "up")

GoDown == pc = "up" /\ Panic

MigNext ==
  \/ MigStart \/ Skip \/ ForgetVersion \/ StoreVersion \/ MigCrash
  \/ AddConfigId \/ CopyNics
  \/ DropOld(2, "nics") \/ DropOld(6, "is_os") \/ DropOld(9, "disks")
  \/ DropRequests
  \/ CreateTable(4, "vm_isos") \/ CreateTable(7, "vm_disks")
  \/ ReadOld(5, "is_os") \/ ReadOld(8, "disks")
  \/ \E a \in todo : InsertIso(a) \/ InsertDisk(a)
  \/ CopyDone
  \/ DropIndex \/ CreateConfigsNew \/ CreateIndex \/ InsertConfigs
  \/ SetConfigsAside \/ ReplaceConfigs
  \/ DropBackup \/ DeleteSoftDeleted
  \/ ComeUp \/ GoDown

MigSpec == MigInit /\ [][MigNext]_migVars

-----------------------------------------------------------------------------
(* Properties.                                                             *)

\* What the database must have before it may carry the version of a migration.
Done(i) ==
  CASE i = 1 -> db.vmNics => db.configId
    [] i = 2 -> "nics" \notin db.columns
    [] i = 3 -> db.requests # "old"
    [] i = 4 -> "vm_isos" \in db.tables
    [] i = 5 -> old \subseteq db.isos \cup refused[5]
    [] i = 6 -> "is_os" \notin db.columns
    [] i = 7 -> "vm_disks" \in db.tables
    [] i = 8 -> old \subseteq db.disks \cup refused[8]
    [] i = 9 -> "disks" \notin db.columns
    [] i = 10 -> db.configs["configs"] = vms /\ "configs" \in db.checked
    [] i = 11 -> ~Exists("configs_2024110601")
    [] i = 12 -> ~db.softDeleted

\* The version that is stored never promises a migration that has not been carried
\* out, wherever earlier starts were cut off. The next start trusts it blindly. A
\* migration that copies attachments promises only that each was copied or that its
\* INSERT failed: the code stores the version all the same.
VersionHonest == \A i \in 1 .. Len(Id) : db.version >= Id[i] => Done(i)

\* No interrupted or repeated migration loses an ISO or a disk of a VM: as long as its
\* row is missing, the old column still has it. The exception is what the code gives
\* up itself: the last INSERT of this very attachment failed and nobody looked.
AttachmentsSurvive ==
  /\ "is_os" \in db.columns \/ old \subseteq db.isos \cup refused[5]
  /\ "disks" \in db.columns \/ old \subseteq db.disks \cup refused[8]

\* There is always a table with the configurations of all VMs, through the copy, the
\* two renamings and the removal of the old table, and through any number of retries.
ConfigsSurvive == vms = {} \/ \E t \in ConfigTable : db.configs[t] = vms

\* "copy nics from config.nics to vm_nics.config_id" (db/migrate.go:131): once the
\* column with the lists of NICs is gone, every NIC in them has its owner.
NicsSurvive == "nics" \in db.columns \/ old \subseteq db.nics
=============================================================================
