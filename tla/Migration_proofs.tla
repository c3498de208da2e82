-------------------------- MODULE Migration_proofs --------------------------
(***************************************************************************)
(* Proofs about Migration, for every set of VMs and of attachments.        *)
(***************************************************************************)
EXTENDS Migration, TLAPS

\* The migrations by number.
Number == 1 .. 12

LEMMA Ids ==
  /\ Len(Id) = 12
  /\ \A i \in Number : Id[i] \in Nat /\ Id[i] > 0
  /\ \A i, j \in Number : Id[i] < Id[j] <=> i < j
<1>1. Len(Id) = 12
  BY DEF Id
<1>2. /\ Id[1] = 2024022401 /\ Id[2] = 2024022402 /\ Id[3] = 2024022403
      /\ Id[4] = 2024062701 /\ Id[5] = 2024062702 /\ Id[6] = 2024062703
      /\ Id[7] = 2024063001 /\ Id[8] = 2024063002 /\ Id[9] = 2024063003
      /\ Id[10] = 2024110601 /\ Id[11] = 2024112301 /\ Id[12] = 2024112302
  BY DEF Id
<1>3. \A i \in Number : i \in {1, 2, 3, 4, 5, 6, 7, 8, 9, 10, 11, 12}
  BY DEF Number
<1>4. QED
  BY <1>1, <1>2, <1>3 DEF Number

\* What is left in the meta table is never ahead of the migration that left it.
LEMMA StoredType ==
  ASSUME NEW i \in Number
  PROVE  Stored(i) \in {Id[j] : j \in Number} /\ Stored(i) <= Id[i]
  BY Ids DEF Stored, Number

Version == {0} \cup {Id[i] : i \in Number}

LEMMA VersionType == Version \subseteq Nat /\ \A v \in Version : v >= 0
  BY Ids DEF Version

-----------------------------------------------------------------------------
(* Types *)

LEMMA TypeInit == MigInit => MigTypeOK
<1> SUFFICES ASSUME MigInit PROVE MigTypeOK
  OBVIOUS
<1>1. vms \subseteq MigVM /\ old \subseteq vms \X Item
  BY DEF MigInit
<1>2. old \subseteq Attachment
  BY <1>1 DEF Attachment
<1>3. Id[3] \in Version /\ Id[6] \in Version /\ Id[10] \in Version /\ 0 \in Version
  BY DEF Version, Number
<1>4. \A v \in SUBSET MigVM : [t \in ConfigTable |-> {}] \in [ConfigTable -> SUBSET MigVM]
  OBVIOUS
<1>5. Fresh \in Database
  BY Ids, <1>3 DEF Fresh, Database, ConfigTable, Version, Number
<1>6. Oldest(vms) \in Database
  BY <1>1, <1>5, Ids DEF Oldest, Fresh, Database, ConfigTable
<1>7. With022403(vms, old) \in Database
  BY <1>2, <1>3, <1>6, Ids DEF With022403, Database, ConfigTable, Version, Number
<1>8. With062703(vms, old) \in Database
  BY <1>2, <1>3, <1>7, Ids DEF With062703, Database, ConfigTable, Version, Number
<1>9. With063003(vms, old) \in Database
  BY <1>2, <1>8 DEF With063003, Database, ConfigTable
<1>10. With110601(vms, old) \in Database
  BY <1>1, <1>3, <1>9, Ids DEF With110601, Database, ConfigTable, Version, Number
<1>11. db \in Database
  BY <1>5, <1>6, <1>7, <1>8, <1>9, <1>10 DEF MigInit, Released
<1>12. QED
  BY <1>1, <1>11, Ids DEF MigInit, MigIdle, MigTypeOK
\* A statement keeps the types when the database it leaves has its type.
LEMMA TypeStatement ==
  ASSUME MigTypeOK, NEW d \in Database,
         NEW n \in {"down", "test", "copy", "create", "index", "insert", "rename", "replace",
                    "forget", "store", "up"},
         Statement(d, n)
  PROVE  MigTypeOK'
  BY DEF Statement, MigTypeOK

LEMMA TypePanic == ASSUME MigTypeOK, Panic PROVE MigTypeOK'
  BY Ids DEF Panic, MigTypeOK

\* A migration that works on something was entered.
AtWork == pc \notin {"down", "test", "up"} => at \in Number /\ schemaVersion < Id[at]

LEMMA TypeStep == MigTypeOK /\ AtWork /\ [MigNext]_migVars => MigTypeOK'
<1> SUFFICES ASSUME MigTypeOK, AtWork, [MigNext]_migVars PROVE MigTypeOK'
  OBVIOUS
<1>d. db \in Database /\ old \subseteq Attachment
  BY DEF MigTypeOK, Attachment
<1>1. CASE MigStart
  BY <1>1, <1>d, Ids DEF MigStart, MigTypeOK, Database
<1>2. CASE Skip
  BY <1>2, Ids DEF Skip, MigTypeOK
<1>3. CASE ForgetVersion
  <2>1. [db EXCEPT !.version = 0] \in Database
    BY <1>d DEF Database
  <2>2. QED
    BY <1>3, <2>1, TypeStatement DEF ForgetVersion
<1>4. CASE StoreVersion
  <2>1. at \in Number
    BY <1>4 DEF StoreVersion, AtWork
  <2>2. QED
    BY <1>4, <1>d, <2>1, StoredType, Ids DEF StoreVersion, MigTypeOK, Database, Number
<1>5. CASE MigCrash \/ GoDown
  BY <1>5, TypePanic DEF MigCrash, GoDown
<1>6. CASE AddConfigId
  <2>1. [db EXCEPT !.configId = TRUE] \in Database
    BY <1>d DEF Database
  <2>2. QED
    BY <1>6, <1>d, <2>1, TypeStatement DEF AddConfigId
<1>7. CASE CopyNics
  <2>1. [db EXCEPT !.nics = @ \cup old] \in Database
    BY <1>d DEF Database
  <2>2. QED
    BY <1>7, <2>1, TypeStatement, TypePanic DEF CopyNics
<1>8. ASSUME NEW i, NEW c, DropOld(i, c) PROVE MigTypeOK'
  <2>1. \A k \in {db.index, "none"} :
          [db EXCEPT !.columns = @ \ {c}, !.index = k] \in Database
    BY <1>d DEF Database
  <2>2. QED
    BY <1>8, <1>d, <2>1, TypeStatement DEF DropOld, DropColumn
<1>9. CASE DropRequests
  <2>1. [db EXCEPT !.requests = IF @ = "old" THEN "absent" ELSE @] \in Database
    BY <1>d DEF Database
  <2>2. QED
    BY <1>9, <2>1, TypeStatement DEF DropRequests
<1>10. ASSUME NEW i, NEW t \in {"vm_isos", "vm_disks"}, CreateTable(i, t) PROVE MigTypeOK'
  <2>1. [db EXCEPT !.tables = @ \cup {t}] \in Database
    BY <1>d DEF Database
  <2>2. QED
    BY <1>10, <2>1, TypeStatement DEF CreateTable
<1>11. ASSUME NEW i, NEW c, ReadOld(i, c) PROVE MigTypeOK'
  BY <1>11, <1>d DEF ReadOld, MigTypeOK
<1>12. ASSUME NEW a \in todo, InsertIso(a) \/ InsertDisk(a) PROVE MigTypeOK'
  <2>1. /\ [db EXCEPT !.isos = @ \cup {a}] \in Database
        /\ [db EXCEPT !.disks = @ \cup {a}] \in Database
    BY <1>12, <1>d DEF MigTypeOK, Database
  <2>2. /\ refused \in [{5, 8} -> SUBSET Attachment] /\ a \in Attachment
        /\ db.isos \subseteq Attachment /\ db.disks \subseteq Attachment
    BY <1>12, <1>d DEF MigTypeOK, Database
  <2>3. db' \in Database /\ refused' \in [{5, 8} -> SUBSET Attachment]
    <3>1. CASE InsertIso(a)
      <4>1. db' \in Database
        BY <1>d, <2>1, <3>1 DEF InsertIso, InsertRow
      <4>2. refused' \in [{5, 8} -> SUBSET Attachment]
        BY <2>2, <3>1 DEF InsertIso, InsertRow
      <4>3. QED
        BY <4>1, <4>2
    <3>2. CASE InsertDisk(a)
      <4>1. db' \in Database
        BY <1>d, <2>1, <3>2 DEF InsertDisk, InsertRow
      <4>2. refused' \in [{5, 8} -> SUBSET Attachment]
        BY <2>2, <3>2 DEF InsertDisk, InsertRow
      <4>3. QED
        BY <4>1, <4>2
    <3>3. QED
      BY <1>12, <3>1, <3>2
  <2>4. UNCHANGED <<old, vms, schemaVersion, at, pc>> /\ todo' \subseteq todo
    BY <1>12 DEF InsertIso, InsertDisk, InsertRow
  <2>5. QED
    BY <2>3, <2>4 DEF MigTypeOK
<1>13. CASE CopyDone
  BY <1>13, <1>d, TypeStatement DEF CopyDone
<1>14. CASE DropIndex
  <2>1. [db EXCEPT !.index = "none"] \in Database
    BY <1>d DEF Database
  <2>2. QED
    BY <1>14, <2>1, TypeStatement, TypePanic DEF DropIndex
<1>15. CASE CreateConfigsNew
  <2>1. [db EXCEPT !.present = @ \cup {"configs_new"}, !.checked = @ \cup {"configs_new"}]
          \in Database
    BY <1>d DEF Database, ConfigTable
  <2>2. QED
    BY <1>15, <2>1, TypeStatement, TypePanic DEF CreateConfigsNew
<1>16. CASE CreateIndex
  <2>1. [db EXCEPT !.index = "configs_new"] \in Database
    BY <1>d DEF Database, ConfigTable
  <2>2. QED
    BY <1>16, <2>1, TypeStatement DEF CreateIndex
<1>17. CASE InsertConfigs
  <2>1. [db EXCEPT !.configs["configs_new"] = db.configs["configs"]] \in Database
    BY <1>d DEF Database, ConfigTable
  <2>2. QED
    BY <1>17, <2>1, TypeStatement DEF InsertConfigs
<1>18. \A from, to \in ConfigTable : Renamed(from, to) \in Database
  BY <1>d, ZenonT(60) DEF Renamed, Database
<1>19. CASE SetConfigsAside \/ ReplaceConfigs
  <2>1. {"configs", "configs_new", "configs_2024110601"} \subseteq ConfigTable
    BY DEF ConfigTable
  <2>2. QED
    BY <1>18, <1>19, <2>1, TypeStatement, TypePanic DEF SetConfigsAside, ReplaceConfigs
<1>20. CASE DropBackup
  <2>1. [db EXCEPT !.present = @ \ {"configs_2024110601"},
                   !.configs["configs_2024110601"] = {},
                   !.checked = @ \ {"configs_2024110601"}] \in Database
    BY <1>d DEF Database, ConfigTable
  <2>2. QED
    BY <1>20, <2>1, TypeStatement DEF DropBackup
<1>21. CASE DeleteSoftDeleted
  <2>1. [db EXCEPT !.softDeleted = FALSE] \in Database
    BY <1>d DEF Database
  <2>2. QED
    BY <1>21, <2>1, TypeStatement DEF DeleteSoftDeleted
<1>22. CASE ComeUp
  <2>1. [db EXCEPT !.vmNics = TRUE, !.configId = TRUE, !.requests = "new",
                   !.present = @ \cup {"configs"},
                   !.index = IF @ = "none" THEN "configs" ELSE @] \in Database
    BY <1>d DEF Database, ConfigTable
  <2>2. QED
    BY <1>22, <2>1, TypeStatement DEF ComeUp
<1>23. CASE UNCHANGED migVars
  BY <1>23 DEF migVars, MigTypeOK
<1>24. QED
  BY <1>1, <1>2, <1>3, <1>4, <1>5, <1>6, <1>7, <1>8, <1>9, <1>10, <1>11, <1>12, <1>13, <1>14,
     <1>15, <1>16, <1>17, <1>19, <1>20, <1>21, <1>22, <1>23 DEF MigNext
\* The statements of a migration, from its first one to the removal of the version.
Work ==
  \/ AddConfigId \/ CopyNics
  \/ DropOld(2, "nics") \/ DropOld(6, "is_os") \/ DropOld(9, "disks")
  \/ DropRequests
  \/ CreateTable(4, "vm_isos") \/ CreateTable(7, "vm_disks")
  \/ ReadOld(5, "is_os") \/ ReadOld(8, "disks")
  \/ \E a \in todo : InsertIso(a) \/ InsertDisk(a)
  \/ CopyDone
  \/ DropIndex \/ CreateConfigsNew \/ CreateIndex \/ InsertConfigs
  \/ SetConfigsAside \/ ReplaceConfigs
  \/ DropBackup \/ DeleteSoftDeleted
  \/ ForgetVersion

\* What all of them have in common.
LEMMA WorkStays ==
  ASSUME MigTypeOK, AtWork, Work
  PROVE  /\ pc \notin {"down", "up"} /\ at \in Number /\ schemaVersion < Id[at]
         /\ \/ Panic
            \/ /\ pc' \notin {"down", "test", "up"}
               /\ UNCHANGED <<schemaVersion, at, old, vms>>
               /\ db'.version \in {0, db.version}
<1> DEFINE Worked ==
      /\ pc \notin {"down", "up"} /\ at \in Number /\ schemaVersion < Id[at]
      /\ \/ Panic
         \/ /\ pc' \notin {"down", "test", "up"}
            /\ UNCHANGED <<schemaVersion, at, old, vms>>
            /\ db'.version \in {0, db.version}
<1>d. db \in Database
  BY DEF MigTypeOK
<1> USE DEF Statement, Entered, AtWork, Number
<1>1. CASE AddConfigId
  BY <1>1, <1>d DEF AddConfigId, Database
<1>2. CASE CopyNics
  BY <1>2, <1>d DEF CopyNics, Database
<1>3. ASSUME NEW i \in Number, NEW c, DropOld(i, c) PROVE Worked
  BY <1>3, <1>d DEF DropOld, DropColumn, Database
<1>4. CASE DropRequests
  BY <1>4, <1>d DEF DropRequests, Database
<1>5. ASSUME NEW i \in Number, NEW t, CreateTable(i, t) PROVE Worked
  BY <1>5, <1>d DEF CreateTable, Database
<1>6. ASSUME NEW i \in Number, NEW c, ReadOld(i, c) PROVE Worked
  BY <1>6 DEF ReadOld
<1>7. ASSUME NEW a \in todo, InsertIso(a) \/ InsertDisk(a) PROVE Worked
  BY <1>7, <1>d DEF InsertIso, InsertDisk, InsertRow, Database
<1>8. CASE CopyDone
  BY <1>8 DEF CopyDone
<1>9. CASE DropIndex
  BY <1>9, <1>d DEF DropIndex, Database
<1>10. CASE CreateConfigsNew
  BY <1>10, <1>d DEF CreateConfigsNew, Database
<1>11. CASE CreateIndex
  BY <1>11, <1>d DEF CreateIndex, Database
<1>12. CASE InsertConfigs
  BY <1>12, <1>d DEF InsertConfigs, Database
<1>13. \A from, to : Renamed(from, to).version = db.version
  BY <1>d DEF Renamed, Database
<1>14. CASE SetConfigsAside
  BY <1>13, <1>14 DEF SetConfigsAside
<1>15. CASE ReplaceConfigs
  BY <1>13, <1>15 DEF ReplaceConfigs
<1>16. CASE DropBackup
  BY <1>16, <1>d DEF DropBackup, Database
<1>17. CASE DeleteSoftDeleted
  BY <1>17, <1>d DEF DeleteSoftDeleted, Database
<1>18. CASE ForgetVersion
  BY <1>18, <1>d DEF ForgetVersion, Database
<1>19. QED
  BY <1>1, <1>2, <1>3, <1>4, <1>5, <1>6, <1>7, <1>8, <1>9, <1>10, <1>11, <1>12, <1>14, <1>15,
     <1>16, <1>17, <1>18 DEF Work

\* The other steps.
LEMMA NextCases ==
  MigNext => Work \/ MigStart \/ Skip \/ StoreVersion \/ Panic \/ ComeUp
  BY DEF MigNext, Work, MigCrash, GoDown

LEMMA AtWorkStep == MigTypeOK /\ AtWork /\ [MigNext]_migVars => AtWork'
<1> SUFFICES ASSUME MigTypeOK, AtWork, [MigNext]_migVars PROVE AtWork'
  OBVIOUS
<1>1. CASE Work
  BY <1>1, WorkStays DEF AtWork, Panic
<1>2. CASE MigStart \/ Skip \/ StoreVersion \/ Panic \/ ComeUp
  BY <1>2 DEF MigStart, Skip, StoreVersion, Panic, ComeUp, Statement, AtWork
<1>3. CASE UNCHANGED migVars
  BY <1>3 DEF migVars, AtWork
<1>4. QED
  BY <1>1, <1>2, <1>3, NextCases

\* Every variable keeps its type, wherever the daemon dies and however often it starts.
THEOREM TypeCorrect == MigSpec => []MigTypeOK
<1>1. MigInit => MigTypeOK /\ AtWork
  BY TypeInit DEF MigInit, MigIdle, AtWork
<1>2. MigTypeOK /\ AtWork /\ [MigNext]_migVars => MigTypeOK' /\ AtWork'
  BY TypeStep, AtWorkStep
<1>3. QED
  BY <1>1, <1>2, PTL DEF MigSpec
-----------------------------------------------------------------------------
(* The version is honest. A start trusts what it read, so all migrations up  *)
(* to that version and all it has gone through must have been carried out;   *)
(* and while it works on one, no version of that one or a later one may be   *)
(* stored, because the work may undo what an earlier start has done.         *)

Through ==
  pc # "down" => \A j \in Number : (j < at \/ schemaVersion >= Id[j]) => Done(j)

Behind ==
  pc \notin {"down", "up"} =>
    db.version <= schemaVersion \/ \E j \in Number : j < at /\ db.version <= Id[j]

\* What a migration has reached at each of its statements.
Reached ==
  /\ pc = "copy" => at \in {1, 5, 8}
  /\ pc = "copy" /\ at = 1 => Done(1)
  /\ pc = "copy" /\ at = 5 => old \subseteq db.isos \cup refused[5] \cup todo
  /\ pc = "copy" /\ at = 8 => old \subseteq db.disks \cup refused[8] \cup todo
  /\ pc \in {"forget", "store"} => Done(at)
  /\ pc \in {"create", "index", "insert", "rename", "replace"} => at = 10

\* The old and the new table of 2024110601.
NewReady == "configs_new" \in db.checked /\ "configs_new" \in db.present

Aside ==
  NewReady /\ db.configs["configs_new"] = vms /\ db.configs["configs_2024110601"] = vms

Tables ==
  /\ db.configs["configs"] = vms \/ Aside
  /\ pc \in {"index", "insert", "rename"} => db.configs["configs"] = vms /\ NewReady
  /\ pc = "rename" => db.configs["configs_new"] = vms
  /\ pc = "replace" => Aside
  /\ "configs" \notin db.present => db.columns = {}

MigInv ==
  /\ MigTypeOK /\ AtWork /\ VersionHonest /\ AttachmentsSurvive
  /\ Through /\ Behind /\ Reached /\ Tables

\* A statement may undo what is done of its own migration and of later ones, but not of
\* earlier ones.
LEMMA WorkKeepsVersion ==
  ASSUME MigInv, Work, ~Panic, \A j \in Number : j < at /\ Done(j) => Done(j)'
  PROVE  VersionHonest' /\ Through' /\ Behind'
<1> USE DEF MigInv
<1>1. /\ pc \notin {"down", "up"} /\ pc' \notin {"down", "up"}
      /\ at \in Number /\ schemaVersion < Id[at]
      /\ UNCHANGED <<schemaVersion, at>> /\ db'.version \in {0, db.version}
  BY WorkStays
<1>2. db.version \in Nat /\ schemaVersion \in Nat /\ Number \subseteq Nat
  BY Ids DEF MigTypeOK, Database, Number
<1>3. \A j \in Number : Id[j] \in Nat /\ Id[j] > 0
  BY Ids
<1>4. db.version < Id[at] /\ db'.version < Id[at] /\ db'.version \in Nat
  BY <1>1, <1>2, <1>3, Ids DEF Behind
<1>5. \A j \in Number : j < at => Done(j)'
  BY <1>1 DEF Through
<1>6. VersionHonest'
  BY <1>1, <1>2, <1>3, <1>4, <1>5, Ids DEF VersionHonest, Number
<1>7. Through'
  BY <1>1, <1>2, <1>3, <1>5, Ids DEF Through, Number
<1>8. Behind'
  BY <1>1, <1>2, <1>3 DEF Behind
<1>9. QED
  BY <1>6, <1>7, <1>8

\* Done, one migration at a time.
DoneMeans ==
  /\ Done(1) <=> (db.vmNics => db.configId)
  /\ Done(2) <=> "nics" \notin db.columns
  /\ Done(3) <=> db.requests # "old"
  /\ Done(4) <=> "vm_isos" \in db.tables
  /\ Done(5) <=> old \subseteq db.isos \cup refused[5]
  /\ Done(6) <=> "is_os" \notin db.columns
  /\ Done(7) <=> "vm_disks" \in db.tables
  /\ Done(8) <=> old \subseteq db.disks \cup refused[8]
  /\ Done(9) <=> "disks" \notin db.columns
  /\ Done(10) <=> db.configs["configs"] = vms /\ "configs" \in db.checked
  /\ Done(11) <=> "configs_2024110601" \notin db.present
  /\ Done(12) <=> ~db.softDeleted

LEMMA Dones == DoneMeans /\ DoneMeans'
<1>1. DoneMeans
  BY DEF Done, DoneMeans, Exists
<1>2. DoneMeans'
  BY DEF Done, DoneMeans, Exists
<1>3. QED
  BY <1>1, <1>2

\* An attachment that has been gone through is a row, or its INSERT failed; the others
\* keep what they have.
LEMMA InsertKeeps ==
  ASSUME MigTypeOK, NEW a \in todo, InsertIso(a) \/ InsertDisk(a)
  PROVE  /\ at = 5 => /\ db.isos \cup refused[5] \cup {a} \subseteq db'.isos \cup refused'[5]
                      /\ db'.disks = db.disks /\ refused'[8] = refused[8]
         /\ at = 8 => /\ db'.isos = db.isos /\ refused'[5] = refused[5]
                      /\ db.disks \cup refused[8] \cup {a} \subseteq db'.disks \cup refused'[8]
<1>d. db \in Database /\ refused \in [{5, 8} -> SUBSET Attachment]
  BY DEF MigTypeOK
<1>1. CASE InsertIso(a)
  <2>1. at = 5 /\ db'.disks = db.disks /\ refused'[8] = refused[8]
    BY <1>1, <1>d DEF InsertIso, InsertRow, Database
  <2>2. db.isos \cup refused[5] \cup {a} \subseteq db'.isos \cup refused'[5]
    BY <1>1, <1>d DEF InsertIso, InsertRow, Database
  <2>3. QED
    BY <2>1, <2>2
<1>2. CASE InsertDisk(a)
  <2>1. at = 8 /\ db'.isos = db.isos /\ refused'[5] = refused[5]
    BY <1>2, <1>d DEF InsertDisk, InsertRow, Database
  <2>2. db.disks \cup refused[8] \cup {a} \subseteq db'.disks \cup refused'[8]
    BY <1>2, <1>d DEF InsertDisk, InsertRow, Database
  <2>3. QED
    BY <2>1, <2>2
<1>3. QED
  BY <1>1, <1>2

LEMMA MigInitial == MigInit => MigInv
<1> SUFFICES ASSUME MigInit PROVE MigInv
  OBVIOUS
<1>1. MigTypeOK
  BY TypeInit
<1>2. pc = "down"
  BY DEF MigInit, MigIdle
<1>3. AtWork /\ Through /\ Behind /\ Reached
  BY <1>2 DEF AtWork, Through, Behind, Reached
<1>4. {1, 2, 3, 4, 5, 6, 7, 8, 9, 10, 11, 12} = Number /\ Number = 1 .. Len(Id)
  BY Ids DEF Number
<1>5. \A i \in Number : ~(0 >= Id[i])
  BY Ids
<1>6. \A i, j \in Number : Id[j] >= Id[i] <=> i <= j
  BY Ids DEF Number
<1> USE DEF VersionHonest, AttachmentsSurvive, Tables, ConfigTable
<1>7. CASE db = Fresh /\ vms = {} /\ old = {}
  <2>1. /\ db.version = 0 /\ db.columns = {} /\ db.configs["configs"] = {}
    BY <1>7 DEF Fresh
  <2>2. QED
    BY <1>1, <1>2, <1>3, <1>4, <1>5, <1>7, <2>1 DEF MigInv
<1>8. CASE db = Oldest(vms)
  <2>1. /\ db.version = 0 /\ db.columns = {"nics", "is_os", "disks"}
        /\ db.present = {"configs"} /\ db.configs["configs"] = vms
    BY <1>8 DEF Oldest, Fresh
  <2>2. QED
    BY <1>1, <1>2, <1>3, <1>4, <1>5, <2>1 DEF MigInv
<1>9. CASE db = With022403(vms, old)
  <2>1. /\ db.version = Id[3] /\ db.columns = {"is_os", "disks"} /\ db.configId
        /\ db.requests = "new" /\ db.present = {"configs"} /\ db.configs["configs"] = vms
    BY <1>9 DEF With022403, Oldest, Fresh
  <2>2. \A i \in Number : db.version >= Id[i] => i \in {1, 2, 3}
    BY <1>4, <1>6, <2>1 DEF Number
  <2>3. VersionHonest
    BY <1>4, <2>1, <2>2, Dones DEF DoneMeans
  <2>4. QED
    BY <1>1, <1>2, <1>3, <2>1, <2>3 DEF MigInv
<1>10. CASE db = With062703(vms, old)
  <2>1. /\ db.version = Id[6] /\ db.columns = {"disks"} /\ db.configId /\ db.requests = "new"
        /\ db.tables = {"vm_isos"} /\ db.isos = old
        /\ db.present = {"configs"} /\ db.configs["configs"] = vms
    BY <1>10 DEF With062703, With022403, Oldest, Fresh
  <2>2. \A i \in Number : db.version >= Id[i] => i \in {1, 2, 3, 4, 5, 6}
    BY <1>4, <1>6, <2>1 DEF Number
  <2>3. VersionHonest
    BY <1>4, <2>1, <2>2, Dones DEF DoneMeans
  <2>4. QED
    BY <1>1, <1>2, <1>3, <2>1, <2>3 DEF MigInv
<1>11. CASE db = With063003(vms, old)
  <2>1. /\ db.version = Id[6] /\ db.columns = {} /\ db.configId /\ db.requests = "new"
        /\ db.tables = {"vm_isos", "vm_disks"} /\ db.isos = old /\ db.disks = old
        /\ db.present = {"configs"} /\ db.configs["configs"] = vms
    BY <1>11 DEF With063003, With062703, With022403, Oldest, Fresh
  <2>2. \A i \in Number : db.version >= Id[i] => i \in {1, 2, 3, 4, 5, 6}
    BY <1>4, <1>6, <2>1 DEF Number
  <2>3. VersionHonest
    BY <1>4, <2>1, <2>2, Dones DEF DoneMeans
  <2>4. QED
    BY <1>1, <1>2, <1>3, <2>1, <2>3 DEF MigInv
<1>12. CASE db = With110601(vms, old)
  <2>1. /\ db.version = Id[10] /\ db.columns = {} /\ db.configId /\ db.requests = "new"
        /\ db.tables = {"vm_isos", "vm_disks"} /\ db.isos = old /\ db.disks = old
        /\ db.configs["configs"] = vms /\ db.checked = {"configs"}
    BY <1>12 DEF With110601, With063003, With062703, With022403, Oldest, Fresh
  <2>2. "configs" \in db.present
    BY <1>12 DEF With110601
  <2>3. \A i \in Number : db.version >= Id[i] => i \in {1, 2, 3, 4, 5, 6, 7, 8, 9, 10}
    BY <1>4, <1>6, <2>1 DEF Number
  <2>4. VersionHonest
    BY <1>4, <2>1, <2>3, Dones DEF DoneMeans
  <2>5. QED
    BY <1>1, <1>2, <1>3, <2>1, <2>2, <2>4 DEF MigInv
<1>13. QED
  BY <1>7, <1>8, <1>9, <1>10, <1>11, <1>12 DEF MigInit, Released
\* A statement that keeps what is done below its migration, and what it reaches itself.
LEMMA WorkStep == MigInv /\ Work => VersionHonest' /\ Through' /\ Behind' /\ Reached'
<1> SUFFICES ASSUME MigInv, Work PROVE VersionHonest' /\ Through' /\ Behind' /\ Reached'
  OBVIOUS
<1>d. db \in Database /\ db.columns \subseteq {"nics", "is_os", "disks"}
  BY DEF MigInv, MigTypeOK, Database
<1>n. DoneMeans /\ DoneMeans'
  BY Dones
<1> DEFINE Kept == \A j \in Number : j < at /\ Done(j) => Done(j)'
<1>k. ASSUME Kept, ~Panic, Reached' PROVE VersionHonest' /\ Through' /\ Behind' /\ Reached'
  BY <1>k, WorkKeepsVersion
<1>p. ASSUME Panic PROVE VersionHonest' /\ Through' /\ Behind' /\ Reached'
  BY <1>p, <1>n DEF Panic, MigInv, VersionHonest, Through, Behind, Reached, Done, Exists
<1>i. \A j \in Number : j \in {1, 2, 3, 4, 5, 6, 7, 8, 9, 10, 11, 12}
  BY DEF Number
<1>q. ASSUME ~Panic => Kept /\ Reached'
      PROVE  VersionHonest' /\ Through' /\ Behind' /\ Reached'
  BY <1>k, <1>p, <1>q
<1> HIDE DEF Kept
<1> USE DEF Statement, Entered
<1>1. CASE AddConfigId
  <2>1. Kept
    BY <1>1, <1>d DEF AddConfigId, Kept, Number
  <2>2. Reached'
    BY <1>1, <1>d, <1>n DEF AddConfigId, Reached, DoneMeans, Database
  <2>3. QED
    BY <1>q, <2>1, <2>2
<1>2. CASE CopyNics
  <2>1. Kept
    BY <1>2, <1>d DEF CopyNics, Kept, Number
  <2>2. ~Panic => Reached'
    BY <1>2, <1>d, <1>n DEF CopyNics, Reached, DoneMeans, Database, MigInv
  <2>3. QED
    BY <1>q, <2>1, <2>2
<1> DEFINE Same(fields) ==
      /\ UNCHANGED <<at, old, vms>>
      /\ "nics" \in fields => db'.vmNics = db.vmNics /\ db'.configId = db.configId
      /\ "columns" \in fields => db'.columns = db.columns
      /\ "requests" \in fields => db'.requests = db.requests
      /\ "tables" \in fields => db'.tables = db.tables
      /\ "rows" \in fields => db'.isos = db.isos /\ db'.disks = db.disks /\ refused' = refused
<1> DEFINE All == {"nics", "columns", "requests", "tables", "rows"}
<1>s. ASSUME Same(All), at \in 1 .. 10 PROVE Kept
  <2>1. \A j \in Number : j < at => j \in {1, 2, 3, 4, 5, 6, 7, 8, 9}
    BY <1>i, <1>s
  <2>2. QED
    BY <1>n, <1>s, <2>1 DEF Kept, DoneMeans
<1>3. ASSUME NEW i \in {2, 6, 9}, NEW c, DropOld(i, c),
             i = 2 => c = "nics", i = 6 => c = "is_os", i = 9 => c = "disks"
      PROVE  VersionHonest' /\ Through' /\ Behind' /\ Reached'
  <2>1. /\ at = i /\ pc' = "forget" /\ Same(All \ {"columns"})
        /\ db'.columns \subseteq db.columns
        /\ "configs" \in db.present => c \notin db'.columns
    <3>1. CASE HasColumn(c)
      <4>1. PICK k : db' = [db EXCEPT !.columns = @ \ {c}, !.index = k]
        BY <1>3, <3>1 DEF DropOld, DropColumn
      <4>2. db'.columns = db.columns \ {c} /\ Same(All \ {"columns"})
        BY <1>3, <1>d, <3>1, <4>1 DEF DropOld, DropColumn, Database
      <4>3. QED
        BY <1>3, <3>1, <4>2 DEF DropOld, DropColumn
    <3>2. CASE ~HasColumn(c)
      BY <1>3, <1>d, <3>2 DEF DropOld, HasColumn
    <3>3. QED
      BY <3>1, <3>2
  <2>2. c \notin db'.columns
    BY <1>3, <1>d, <2>1 DEF MigInv, Tables
  <2>3. Kept
    BY <1>i, <1>n, <2>1 DEF Kept, DoneMeans
  <2>4. Reached'
    BY <1>3, <1>n, <2>1, <2>2 DEF Reached, DoneMeans
  <2>5. QED
    BY <1>q, <2>3, <2>4
<1>4. CASE DropRequests
  <2>1. /\ at = 3 /\ pc' = "forget" /\ Same({"nics", "columns"}) /\ db'.requests # "old"
    BY <1>4, <1>d DEF DropRequests, Database
  <2>2. Kept
    BY <1>i, <1>n, <2>1 DEF Kept, DoneMeans
  <2>3. Reached'
    BY <1>n, <2>1 DEF Reached, DoneMeans
  <2>4. QED
    BY <1>q, <2>2, <2>3
<1>5. ASSUME NEW i \in {4, 7}, NEW t, CreateTable(i, t),
             i = 4 => t = "vm_isos", i = 7 => t = "vm_disks"
      PROVE  VersionHonest' /\ Through' /\ Behind' /\ Reached'
  <2>1. /\ at = i /\ pc' = "forget" /\ Same(All \ {"tables"})
        /\ db.tables \subseteq db'.tables /\ t \in db'.tables
    BY <1>5, <1>d DEF CreateTable, Database
  <2>2. Kept
    BY <1>i, <1>n, <2>1 DEF Kept, DoneMeans
  <2>3. Reached'
    BY <1>5, <1>n, <2>1 DEF Reached, DoneMeans
  <2>4. QED
    BY <1>q, <2>2, <2>3
<1>6. ASSUME NEW i \in {5, 8}, NEW c, ReadOld(i, c),
             i = 5 => c = "is_os", i = 8 => c = "disks"
      PROVE  VersionHonest' /\ Through' /\ Behind' /\ Reached'
  <2>1. /\ at = i /\ pc' = "copy" /\ UNCHANGED <<db, old, vms, at, refused>>
        /\ todo' = IF HasColumn(c) THEN old ELSE {}
    BY <1>6 DEF ReadOld
  <2>2. c \in db.columns => HasColumn(c)
    BY DEF HasColumn, MigInv, Tables
  <2>3. i = 5 => old \subseteq db.isos \cup refused[5] \cup todo'
    BY <1>6, <2>1, <2>2 DEF MigInv, AttachmentsSurvive
  <2>4. i = 8 => old \subseteq db.disks \cup refused[8] \cup todo'
    BY <1>6, <2>1, <2>2 DEF MigInv, AttachmentsSurvive
  <2>5. Kept
    BY <1>s, <1>6, <2>1
  <2>6. Reached'
    BY <1>6, <2>1, <2>3, <2>4 DEF Reached
  <2>7. QED
    BY <1>q, <2>5, <2>6
<1>7. ASSUME NEW a \in todo, InsertIso(a) \/ InsertDisk(a)
      PROVE  VersionHonest' /\ Through' /\ Behind' /\ Reached'
  <2>1. /\ pc = "copy" /\ pc' = "copy" /\ at \in {5, 8} /\ Same(All \ {"rows"})
        /\ todo' = todo \ {a}
    BY <1>7, <1>d DEF InsertIso, InsertDisk, InsertRow, Database
  <2>e. /\ at = 5 => db.isos \cup refused[5] \cup {a} \subseteq db'.isos \cup refused'[5]
        /\ at = 8 => /\ db'.isos = db.isos /\ refused'[5] = refused[5]
                    /\ db.disks \cup refused[8] \cup {a} \subseteq db'.disks \cup refused'[8]
    BY <1>7, InsertKeeps DEF MigInv
  <2>2. Kept
    BY <1>i, <1>n, <2>1, <2>e DEF Kept, DoneMeans
  <2>3. Reached'
    BY <2>1, <2>e DEF Reached, MigInv
  <2>4. QED
    BY <1>q, <2>2, <2>3
<1>8. CASE CopyDone
  <2>1. /\ pc = "copy" /\ pc' = "forget" /\ at \in {5, 8} /\ todo = {}
        /\ UNCHANGED <<db, old, vms, at, refused>>
    BY <1>8 DEF CopyDone
  <2>2. Kept
    BY <1>s, <2>1
  <2>3. Reached'
    BY <1>n, <2>1 DEF Reached, MigInv, DoneMeans
  <2>4. QED
    BY <1>q, <2>2, <2>3
<1>9. CASE DropIndex \/ CreateConfigsNew \/ CreateIndex \/ InsertConfigs \/ SetConfigsAside
  <2>1. \A from, to : LET d == Renamed(from, to) IN
          /\ d.vmNics = db.vmNics /\ d.configId = db.configId /\ d.requests = db.requests
          /\ d.tables = db.tables /\ d.isos = db.isos /\ d.disks = db.disks
          /\ d.columns = db.columns
    BY <1>d DEF Renamed, Database
  <2>2. ~Panic => /\ at = 10 /\ pc' \in {"create", "index", "insert", "rename", "replace"}
                  /\ UNCHANGED <<at, old, vms, refused>>
    BY <1>9 DEF DropIndex, CreateConfigsNew, CreateIndex, InsertConfigs, SetConfigsAside, MigInv,
       Reached
  <2>3. ~Panic /\ ~SetConfigsAside => Same(All)
    BY <1>9, <1>d, <2>2, ZenonT(60)
       DEF DropIndex, CreateConfigsNew, CreateIndex, InsertConfigs, Database
  <2>4. ~Panic /\ SetConfigsAside => Same(All)
    BY <2>1, <2>2 DEF SetConfigsAside
  <2>5. ~Panic => Reached'
    BY <2>2 DEF Reached
  <2>6. ~Panic => Kept
    BY <1>s, <2>2, <2>3, <2>4
  <2>7. QED
    BY <1>q, <2>5, <2>6
<1>10. CASE ReplaceConfigs
  <2>1. /\ at = 10 /\ pc' = "forget" /\ UNCHANGED <<at, old, vms, refused>> /\ Aside
        /\ db' = Renamed("configs_new", "configs")
    BY <1>10 DEF ReplaceConfigs, MigInv, Reached, Tables
  <2>2. Same(All)
    BY <1>d, <2>1 DEF Renamed, Database
  <2>3. db'.configs["configs"] = vms /\ "configs" \in db'.checked
    BY <1>d, <2>1 DEF Renamed, Database, ConfigTable, Aside, NewReady
  <2>4. Kept
    BY <1>s, <2>1, <2>2
  <2>5. Reached'
    BY <1>n, <2>1, <2>3 DEF Reached, DoneMeans
  <2>6. QED
    BY <1>q, <2>4, <2>5
<1>11. CASE DropBackup
  <2>1. /\ at = 11 /\ pc' = "forget" /\ Same(All)
        /\ db'.present = db.present \ {"configs_2024110601"}
        /\ db'.checked = db.checked \ {"configs_2024110601"}
        /\ db'.configs["configs"] = db.configs["configs"]
    BY <1>11, <1>d DEF DropBackup, Database, ConfigTable
  <2>2. Kept
    BY <1>i, <1>n, <2>1 DEF Kept, DoneMeans
  <2>3. Reached'
    BY <1>n, <2>1 DEF Reached, DoneMeans
  <2>4. QED
    BY <1>q, <2>2, <2>3
<1>12. CASE DeleteSoftDeleted
  <2>1. /\ at = 12 /\ pc' = "forget" /\ Same(All) /\ ~db'.softDeleted
        /\ db'.present = db.present /\ db'.checked = db.checked /\ db'.configs = db.configs
    BY <1>12, <1>d DEF DeleteSoftDeleted, Database
  <2>2. Kept
    BY <1>i, <1>n, <2>1 DEF Kept, DoneMeans
  <2>3. Reached'
    BY <1>n, <2>1 DEF Reached, DoneMeans
  <2>4. QED
    BY <1>q, <2>2, <2>3
<1>13. CASE ForgetVersion
  <2>1. /\ pc = "forget" /\ pc' = "store" /\ Same(All) /\ db'.softDeleted = db.softDeleted
        /\ db'.present = db.present /\ db'.checked = db.checked /\ db'.configs = db.configs
    BY <1>13, <1>d DEF ForgetVersion, Database
  <2>2. \A j \in Number : Done(j)' <=> Done(j)
    BY <1>i, <1>n, <2>1 DEF DoneMeans
  <2>3. at \in Number /\ Done(at)
    BY <2>1 DEF MigInv, AtWork, Reached
  <2>4. Kept /\ Done(at)'
    BY <2>1, <2>2, <2>3 DEF Kept
  <2>5. Reached'
    BY <2>1, <2>4 DEF Reached
  <2>6. QED
    BY <1>q, <2>4, <2>5
<1>14. QED
  BY <1>1, <1>2, <1>3, <1>4, <1>5, <1>6, <1>7, <1>8, <1>9, <1>10, <1>11, <1>12, <1>13 DEF Work
\* A statement that leaves the tables of configurations and the columns alone.
LEMMA TablesFrame ==
  ASSUME Tables, UNCHANGED vms, db'.columns \subseteq db.columns, db'.present = db.present,
         db'.checked = db.checked, db'.configs = db.configs,
         pc' \notin {"index", "insert", "rename", "replace"}
  PROVE  Tables'
<1>1. Aside' <=> Aside
  BY DEF Aside, NewReady
<1>2. QED
  BY <1>1 DEF Tables

LEMMA WorkKeepsTables == MigInv /\ Work => Tables' /\ AttachmentsSurvive'
<1> SUFFICES ASSUME MigInv, Work PROVE Tables' /\ AttachmentsSurvive'
  OBVIOUS
<1>d. /\ db \in Database /\ Tables /\ AttachmentsSurvive /\ DoneMeans /\ at \in Number
      /\ db.columns \subseteq {"nics", "is_os", "disks"}
  BY WorkStays, Dones DEF MigInv, MigTypeOK, Database
<1>p. ASSUME Panic PROVE Tables' /\ AttachmentsSurvive'
  BY <1>p, <1>d, TablesFrame DEF Panic, AttachmentsSurvive
<1>f. ASSUME /\ UNCHANGED <<old, vms>> /\ db'.columns \subseteq db.columns
             /\ db'.present = db.present /\ db'.checked = db.checked
             /\ db'.configs = db.configs
             /\ pc' \notin {"index", "insert", "rename", "replace"}
             /\ db.isos \cup refused[5] \subseteq db'.isos \cup refused'[5]
             /\ db.disks \cup refused[8] \subseteq db'.disks \cup refused'[8]
             /\ "is_os" \in db.columns \ db'.columns => old \subseteq db.isos \cup refused[5]
             /\ "disks" \in db.columns \ db'.columns => old \subseteq db.disks \cup refused[8]
      PROVE  Tables' /\ AttachmentsSurvive'
  BY <1>d, <1>f, TablesFrame DEF AttachmentsSurvive
<1> USE DEF Statement, Entered
<1>1. CASE AddConfigId \/ CopyNics
  <2>1. CASE Panic
    BY <1>p, <2>1
  <2>2. CASE ~Panic
    <3>1. /\ UNCHANGED <<old, vms, refused>> /\ pc' \in {"copy", "forget"}
          /\ db'.columns = db.columns /\ db'.present = db.present /\ db'.checked = db.checked
          /\ db'.configs = db.configs /\ db'.isos = db.isos /\ db'.disks = db.disks
      BY <1>1, <1>d, <2>2 DEF AddConfigId, CopyNics, Database
    <3>2. QED
      BY <1>f, <3>1
  <2>3. QED
    BY <2>1, <2>2
<1>2. ASSUME NEW i \in {2, 6, 9}, NEW c, DropOld(i, c),
             i = 2 => c = "nics", i = 6 => c = "is_os", i = 9 => c = "disks"
      PROVE  Tables' /\ AttachmentsSurvive'
  <2>1. at = i /\ pc' = "forget" /\ UNCHANGED <<old, vms, refused>>
    BY <1>2 DEF DropOld, DropColumn
  <2>2. \A j \in Number : j < at => Done(j)
    BY <1>2, <2>1 DEF MigInv, Through, DropOld
  <2>3. /\ at = 6 => old \subseteq db.isos \cup refused[5]
        /\ at = 9 => old \subseteq db.disks \cup refused[8]
    BY <1>d, <2>2 DEF DoneMeans, Number
  <2>4. /\ db.columns \ {c} \subseteq db'.columns /\ db'.columns \subseteq db.columns
        /\ db'.present = db.present /\ db'.checked = db.checked
        /\ db'.configs = db.configs /\ db'.isos = db.isos /\ db'.disks = db.disks
    <3>1. PICK k, l : db' = [db EXCEPT !.columns = k, !.index = l] /\ db.columns \ {c} \subseteq k
                      /\ k \subseteq db.columns
      <4>1. CASE HasColumn(c)
        <5>1. PICK l : db' = [db EXCEPT !.columns = db.columns \ {c}, !.index = l]
          BY <1>2, <4>1 DEF DropOld, DropColumn
        <5>2. QED
          BY <5>1
      <4>2. CASE ~HasColumn(c)
        <5>1. db' = [db EXCEPT !.columns = db.columns, !.index = db.index]
          BY <1>2, <1>d, <4>2 DEF DropOld, Database
        <5>2. QED
          BY <5>1
      <4>3. QED
        BY <4>1, <4>2
    <3>2. QED
      BY <1>d, <3>1 DEF Database
  <2>5. QED
    BY <1>f, <1>2, <2>1, <2>3, <2>4
<1>3. ASSUME NEW i, NEW t, DropRequests \/ CreateTable(i, t) \/ DeleteSoftDeleted \/ ForgetVersion
      PROVE  Tables' /\ AttachmentsSurvive'
  <2>1. /\ UNCHANGED <<old, vms, refused>> /\ pc' \in {"forget", "store"}
        /\ db'.columns = db.columns /\ db'.present = db.present /\ db'.checked = db.checked
        /\ db'.configs = db.configs /\ db'.isos = db.isos /\ db'.disks = db.disks
    BY <1>3, <1>d DEF DropRequests, CreateTable, DeleteSoftDeleted, ForgetVersion, Database
  <2>2. QED
    BY <1>f, <2>1
<1>4. ASSUME NEW i, NEW c, ReadOld(i, c) \/ CopyDone PROVE Tables' /\ AttachmentsSurvive'
  <2>1. UNCHANGED <<old, vms, db, refused>> /\ pc' \in {"copy", "forget"}
    BY <1>4 DEF ReadOld, CopyDone
  <2>2. QED
    BY <1>f, <2>1
<1>5. ASSUME NEW a \in todo, InsertIso(a) \/ InsertDisk(a) PROVE Tables' /\ AttachmentsSurvive'
  <2>1. /\ UNCHANGED <<old, vms>> /\ pc' = "copy"
        /\ db'.columns = db.columns /\ db'.present = db.present /\ db'.checked = db.checked
        /\ db'.configs = db.configs /\ at \in {5, 8}
    BY <1>5, <1>d DEF InsertIso, InsertDisk, InsertRow, Database
  <2>2. /\ db.isos \cup refused[5] \subseteq db'.isos \cup refused'[5]
        /\ db.disks \cup refused[8] \subseteq db'.disks \cup refused'[8]
    BY <1>5, <2>1, InsertKeeps DEF MigInv
  <2>3. QED
    BY <1>f, <2>1, <2>2
<1> DEFINE RowsSame == /\ UNCHANGED <<old, vms, refused>> /\ db'.columns = db.columns
                       /\ db'.isos = db.isos /\ db'.disks = db.disks
<1>r. ASSUME RowsSame PROVE AttachmentsSurvive'
  BY <1>d, <1>r DEF AttachmentsSurvive
<1>6. CASE DropIndex /\ ~Panic
  <2>1. /\ RowsSame /\ pc' = "create"
        /\ db'.present = db.present /\ db'.checked = db.checked /\ db'.configs = db.configs
    BY <1>6, <1>d DEF DropIndex, Database
  <2>2. QED
    BY <1>f, <2>1
<1>7. CASE CreateConfigsNew /\ ~Panic
  <2>1. /\ RowsSame /\ pc' = "index" /\ "configs_new" \notin db.present
        /\ db'.present = db.present \cup {"configs_new"}
        /\ db'.checked = db.checked \cup {"configs_new"} /\ db'.configs = db.configs
    BY <1>7, <1>d DEF CreateConfigsNew, Exists, Database
  <2>2. Tables'
    BY <1>d, <2>1 DEF Tables, Aside, NewReady
  <2>3. QED
    BY <1>r, <2>1, <2>2
<1>8. CASE CreateIndex
  <2>1. /\ RowsSame /\ pc = "index" /\ pc' = "insert"
        /\ db'.present = db.present /\ db'.checked = db.checked /\ db'.configs = db.configs
    BY <1>8, <1>d DEF CreateIndex, Database
  <2>2. Tables'
    BY <1>d, <2>1 DEF Tables, Aside, NewReady
  <2>3. QED
    BY <1>r, <2>1, <2>2
<1>9. CASE InsertConfigs
  <2>1. /\ RowsSame /\ pc = "insert" /\ pc' = "rename"
        /\ db'.present = db.present /\ db'.checked = db.checked
        /\ db'.configs = [db.configs EXCEPT !["configs_new"] = db.configs["configs"]]
    BY <1>9, <1>d DEF InsertConfigs, Database
  <2>2. /\ db'.configs["configs_new"] = db.configs["configs"]
        /\ db'.configs["configs"] = db.configs["configs"]
    BY <1>d, <2>1 DEF Database, ConfigTable
  <2>3. Tables'
    BY <1>d, <2>1, <2>2 DEF Tables, Aside, NewReady
  <2>4. QED
    BY <1>r, <2>1, <2>3
<1>10. CASE SetConfigsAside /\ ~Panic
  <2>1. /\ pc = "rename" /\ pc' = "replace" /\ UNCHANGED <<old, vms, refused>>
        /\ db' = Renamed("configs", "configs_2024110601")
    BY <1>10 DEF SetConfigsAside
  <2>2. /\ RowsSame /\ db'.present = (db.present \ {"configs"}) \cup {"configs_2024110601"}
        /\ db'.configs = [db.configs EXCEPT !["configs_2024110601"] = db.configs["configs"],
                                            !["configs"] = {}]
        /\ "configs_new" \in db.checked => "configs_new" \in db'.checked
    BY <1>d, <2>1 DEF Renamed, Database
  <2>3. /\ db'.configs["configs_new"] = db.configs["configs_new"]
        /\ db'.configs["configs_2024110601"] = db.configs["configs"]
    BY <1>d, <2>2 DEF Database, ConfigTable
  <2>4. db.columns = {}
    <3>1. \A j \in Number : j < 10 => Done(j)
      BY <2>1 DEF MigInv, Through, Reached
    <3>2. QED
      BY <1>d, <3>1 DEF DoneMeans, Number
  <2>5. Tables'
    BY <1>d, <2>1, <2>2, <2>3, <2>4 DEF Tables, Aside, NewReady
  <2>6. QED
    BY <1>r, <2>2, <2>5
<1>11. CASE ReplaceConfigs
  <2>1. /\ pc = "replace" /\ pc' = "forget" /\ UNCHANGED <<old, vms, refused>>
        /\ db' = Renamed("configs_new", "configs")
    BY <1>11 DEF ReplaceConfigs
  <2>2. /\ RowsSame /\ "configs" \in db'.present
        /\ db'.configs = [db.configs EXCEPT !["configs"] = db.configs["configs_new"],
                                            !["configs_new"] = {}]
    BY <1>d, <2>1 DEF Renamed, Database
  <2>3. db'.configs["configs"] = vms
    BY <1>d, <2>1, <2>2 DEF Tables, Aside, Database, ConfigTable
  <2>4. Tables'
    BY <2>1, <2>2, <2>3 DEF Tables
  <2>5. QED
    BY <1>r, <2>2, <2>4
<1>12. CASE DropBackup
  <2>1. /\ RowsSame /\ at = 11 /\ pc' = "forget"
        /\ db'.present = db.present \ {"configs_2024110601"}
        /\ db'.configs = [db.configs EXCEPT !["configs_2024110601"] = {}]
    BY <1>12, <1>d DEF DropBackup, Database
  <2>2. Done(10)
    BY <1>12, <2>1 DEF MigInv, Through, DropBackup, Number
  <2>3. db'.configs["configs"] = vms
    BY <1>d, <2>1, <2>2 DEF DoneMeans, Database, ConfigTable
  <2>4. Tables'
    BY <1>d, <2>1, <2>3 DEF Tables
  <2>5. QED
    BY <1>r, <2>1, <2>4
<1>13. QED
  BY <1>p, <1>1, <1>2, <1>3, <1>4, <1>5, <1>6, <1>7, <1>8, <1>9, <1>10, <1>11, <1>12 DEF Work

LEMMA MigStep == MigInv /\ [MigNext]_migVars => MigInv'
<1> SUFFICES ASSUME MigInv, [MigNext]_migVars PROVE MigInv'
  OBVIOUS
<1>t. MigTypeOK' /\ AtWork'
  BY TypeStep, AtWorkStep DEF MigInv
<1>d. /\ db \in Database /\ DoneMeans /\ DoneMeans' /\ Number \subseteq Nat /\ at \in Nat
      /\ schemaVersion \in Nat /\ db.version \in Nat
  BY Dones, Ids DEF MigInv, MigTypeOK, Database, Number
<1> DEFINE Kept == \A j \in Number : Done(j)' <=> Done(j)
<1>i. \A j \in Number : j \in {1, 2, 3, 4, 5, 6, 7, 8, 9, 10, 11, 12}
  BY DEF Number
<1>1. CASE Work
  BY <1>1, <1>t, WorkStep, WorkKeepsTables DEF MigInv
<1>2. CASE MigStart \/ Skip \/ Panic \/ UNCHANGED migVars
  <2>1. UNCHANGED <<db, old, vms, refused>>
    BY <1>2 DEF MigStart, Skip, Panic, migVars
  <2>2. Kept
    BY <2>1 DEF Done, Exists
  <2>3. VersionHonest' /\ AttachmentsSurvive'
    BY <2>1, <2>2, Ids DEF MigInv, VersionHonest, AttachmentsSurvive, Number
  <2>4. Through'
    BY <1>2, <1>d, <2>2, Ids
       DEF MigInv, Through, VersionHonest, MigStart, Skip, Panic, migVars, Number
  <2>5. Behind'
    BY <1>2, <1>d, <2>1 DEF MigInv, Behind, MigStart, Skip, Panic, migVars
  <2>6. Reached'
    BY <1>2, <2>1, <2>2 DEF MigInv, AtWork, Reached, MigStart, Skip, Panic, migVars
  <2>7. Tables'
    BY <1>2, <2>1
       DEF MigInv, Tables, Aside, NewReady, MigStart, Skip, Panic, migVars
  <2>8. QED
    BY <1>t, <2>3, <2>4, <2>5, <2>6, <2>7 DEF MigInv
<1>3. CASE StoreVersion
  <2>1. /\ pc = "store" /\ pc' = "test" /\ at' = at + 1 /\ at \in Number /\ Done(at)
        /\ db' = [db EXCEPT !.version = Stored(at)]
        /\ UNCHANGED <<old, vms, schemaVersion, todo, refused>>
    BY <1>3 DEF StoreVersion, MigInv, AtWork, Reached
  <2>2. /\ db'.version = Stored(at) /\ db'.columns = db.columns /\ db'.vmNics = db.vmNics
        /\ db'.configId = db.configId /\ db'.tables = db.tables /\ db'.requests = db.requests
        /\ db'.isos = db.isos /\ db'.disks = db.disks /\ db'.present = db.present
        /\ db'.configs = db.configs /\ db'.checked = db.checked
        /\ db'.softDeleted = db.softDeleted
    BY <1>d, <2>1 DEF Database
  <2>3. Kept
    BY <1>d, <1>i, <2>1, <2>2 DEF DoneMeans
  <2>4. Stored(at) \in Nat /\ Stored(at) <= Id[at]
    BY <2>1, StoredType, Ids
  <2>5. \A j \in Number : j <= at => Done(j)'
    BY <1>d, <2>1, <2>3 DEF MigInv, Through
  <2>6. \A j \in Number : Stored(at) >= Id[j] => j <= at
    BY <1>d, <2>1, <2>4, Ids
  <2>7. VersionHonest'
    BY <2>2, <2>5, <2>6, Ids DEF VersionHonest, Number
  <2>8. Through'
    BY <1>d, <2>1, <2>3, <2>5 DEF MigInv, Through
  <2>9. Behind'
    BY <1>d, <2>1, <2>2, <2>4 DEF Behind
  <2>10. Reached' /\ AttachmentsSurvive'
    BY <2>1, <2>2 DEF MigInv, Reached, AttachmentsSurvive
  <2>11. Tables'
    BY <2>1, <2>2, TablesFrame DEF MigInv
  <2>12. QED
    BY <1>t, <2>7, <2>8, <2>9, <2>10, <2>11 DEF MigInv
<1>4. CASE ComeUp
  <2>1. /\ pc = "test" /\ pc' = "up" /\ UNCHANGED <<at, old, vms, schemaVersion, todo, refused>>
    BY <1>4 DEF ComeUp, Statement
  <2>2. /\ db'.version = db.version /\ db'.columns = db.columns /\ db'.configId
        /\ db'.tables = db.tables /\ db'.requests = "new"
        /\ db'.isos = db.isos /\ db'.disks = db.disks
        /\ db'.present = db.present \cup {"configs"}
        /\ db'.configs = db.configs /\ db'.checked = db.checked
        /\ db'.softDeleted = db.softDeleted
    BY <1>4, <1>d DEF ComeUp, Statement, Database
  <2>3. \A j \in Number : Done(j) => Done(j)'
    BY <1>d, <1>i, <2>1, <2>2 DEF DoneMeans
  <2>4. VersionHonest' /\ AttachmentsSurvive'
    BY <2>1, <2>2, <2>3, Ids DEF MigInv, VersionHonest, AttachmentsSurvive, Number
  <2>5. Through' /\ Behind' /\ Reached'
    BY <2>1, <2>3 DEF MigInv, Through, Behind, Reached
  <2>6. Tables'
    BY <2>1, <2>2 DEF MigInv, Tables, Aside, NewReady
  <2>7. QED
    BY <1>t, <2>4, <2>5, <2>6 DEF MigInv
<1>5. QED
  BY <1>1, <1>2, <1>3, <1>4, NextCases

\* However often a start is cut off, the version that is stored promises only migrations
\* that have been carried out.
THEOREM HonestVersion == MigSpec => []VersionHonest
<1>1. MigInv => VersionHonest
  BY DEF MigInv
<1>2. QED
  BY <1>1, MigInitial, MigStep, PTL DEF MigSpec

\* No ISO and no disk of any VM loses its last record.
THEOREM AttachmentsKept == MigSpec => []AttachmentsSurvive
<1>1. MigInv => AttachmentsSurvive
  BY DEF MigInv
<1>2. QED
  BY <1>1, MigInitial, MigStep, PTL DEF MigSpec

\* There is always one table with all configurations, also when the replacement of the
\* table is cut off half way and every later start fails.
THEOREM ConfigsKept == MigSpec => []ConfigsSurvive
<1>1. MigInv => ConfigsSurvive
  BY DEF MigInv, Tables, Aside, ConfigsSurvive, ConfigTable
<1>2. QED
  BY <1>1, MigInitial, MigStep, PTL DEF MigSpec
=============================================================================
