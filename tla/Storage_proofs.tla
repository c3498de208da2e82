--------------------------- MODULE Storage_proofs ---------------------------
(***************************************************************************)
(* Proofs about the disks: DiskUse, for every set of VMs, disks and calls, *)
(* and DiskBacking, for every set of disks, calls, sizes and images.  The  *)
(* two share no state, and a part of the module is about each.             *)
(***************************************************************************)
EXTENDS MCDisks, FiniteSetTheorems, SequenceTheorems, TLAPS

(***************************************************************************)
(* Who uses a disk.                                                        *)
(***************************************************************************)

\* Ops that work on the attachments of a VM.
EditPc == {"fill", "saveDelete", "saveInsert"}

\* v.mu is held by an edit of this VM, and only while the VM is STOPPED.
EditorAt ==
  \A v \in VM : editor[v] # NoOp => pc[editor[v]] \in EditPc /\ status[v] = "STOPPED"

\* Which ops have a VM, and that a list is filled under v.mu only.
OpAt ==
  \A o \in Op :
    /\ onVM[o] = NoVM <=> pc[o] \notin EditPc
    /\ pc[o] = "fill" => editor[onVM[o]] = o

\* bhyve has the disks of its VM.
Launched ==
  \A v \in VM : /\ status[v] = "UP" => launch[v] = disks[v]
                /\ status[v] # "UP" => launch[v] = {}

\* One Start has vmStartLock, its VM is STARTING, and what it has still to lock is
\* among the disks of this VM.
StartAt ==
  /\ \A v \in VM : startPc[v] # "none" => status[v] = "STARTING"
  /\ \A u, v \in VM : startPc[u] # "none" /\ startPc[v] # "none" => u = v
  /\ toLock # {} => \E v \in VM : startPc[v] = "lock"
  /\ \A v \in VM : startPc[v] = "lock" => toLock \subseteq disks[v]

TypeInv == TypeOK /\ EditorAt /\ OpAt /\ Launched /\ StartAt

-----------------------------------------------------------------------------
\* The VM has all its disks: bhyve runs, Done has yet to unlock, Start is through
\* with locking, or it has failed.
Keeps(v) == \/ v \in unlocking \/ status[v] = "UP"
            \/ status[v] = "STARTING" /\ startPc[v] # "lock"

\* The mutex of d is held for a VM, and for an op.
VMHolds(v, d) == d \in disks[v] /\ (Keeps(v) \/ (startPc[v] = "lock" /\ d \notin toLock))
OpHolds(o, d) == pc[o] \in {"receive", "removeCheck", "removeDelete"} /\ d \in onDisks[o]

\* No list changes between SetStopped and unlockDisks, and a Start that comes in between
\* waits for its first disk.
WindowShut ==
  \A v \in VM : v \in unlocking =>
    /\ editor[v] = NoOp
    /\ status[v] # "STOPPED" /\ disks[v] # {} => startPc[v] = "lock" /\ toLock = disks[v]

\* Every mutex is locked for those who hold it, and has one holder.
Held ==
  \A d \in Disk :
    /\ \A v \in VM : VMHolds(v, d) => d \in held
    /\ \A o \in Op : OpHolds(o, d) => d \in held
    /\ \A u, v \in VM : VMHolds(u, d) /\ VMHolds(v, d) => u = v
    /\ \A o, p \in Op : OpHolds(o, d) /\ OpHolds(p, d) => o = p
    /\ \A v \in VM, o \in Op : ~(VMHolds(v, d) /\ OpHolds(o, d))

MutexInv == "window" \notin hist => ~fatal /\ WindowShut /\ Held

-----------------------------------------------------------------------------
\* The database has no disk of a running VM that it does not have.
NoneTooMany ==
  \A v \in VM : status[v] = "UP" \/ startPc[v] = "insert" => rows[v] \subseteq disks[v]

\* Nobody is about to write the rows of v.
Settled(v) == startPc[v] # "insert" /\ \A o \in Op : onVM[o] # v

\* The last Save to end has written the disks the VM has.
NoneMissing ==
  "torn" \notin hist => \A v \in VM : Settled(v) => disks[v] \subseteq rows[v]

StoredInv == NoneTooMany /\ NoneMissing

-----------------------------------------------------------------------------
\* One edit at a time.
OneEdit == \A o, p \in Editing : o = p

\* Rows that a Save has yet to replace.
Outdated(v) == editor[v] # NoOp /\ pc[editor[v]] \in {"fill", "saveDelete"}

\* Lists and rows of different VMs have nothing in common.
Apart ==
  \A u, v \in VM : u # v =>
    /\ disks[u] \cap disks[v] = {} /\ rows[u] \cap rows[v] = {} /\ rows[u] \cap disks[v] = {}

OwnRows == \A v \in VM : rows[v] \subseteq disks[v] \/ Outdated(v)

AllExist == \A v \in VM : disks[v] \subseteq exists /\ rows[v] \subseteq exists

\* What an edit is about to attach belongs to no other VM.
FillApart ==
  \A o \in Op : pc[o] = "fill" => \A v \in VM : v # onVM[o] => onDisks[o] \cap disks[v] = {}

\* What is about to be removed belongs to nobody.
RemoveApart ==
  \A o \in Op : pc[o] = "removeDelete" =>
    \A v \in VM : onDisks[o] \cap disks[v] = {} /\ onDisks[o] \cap rows[v] = {}

\* A removal is of one disk.
RemovesOne ==
  \A o \in Op : pc[o] \in {"removeCheck", "removeDelete"} => \E d \in Disk : onDisks[o] = {d}

AttachedInv ==
  /\ RemovesOne
  /\ hist = {} => OneEdit /\ Apart /\ OwnRows /\ AllExist /\ FillApart /\ RemoveApart
-----------------------------------------------------------------------------
LEMMA TypeInit == Init => TypeInv
<1> SUFFICES ASSUME Init PROVE TypeInv
  OBVIOUS
<1>1. rows \in [VM -> SUBSET Disk] /\ disks \in [VM -> SUBSET Disk]
  BY DEF Init
<1>2. TypeOK
  BY <1>1, ConstantsAssumption DEF Init, TypeOK, OpPc, Mishap
<1>3. EditorAt /\ OpAt /\ Launched /\ StartAt
  BY <1>1, ConstantsAssumption DEF Init, EditorAt, OpAt, Launched, StartAt, EditPc
<1>4. QED
  BY <1>2, <1>3 DEF TypeInv

LEMMA TypeStep == TypeInv /\ [Next]_vars => TypeInv'
<1> SUFFICES ASSUME TypeInv, [Next]_vars PROVE TypeInv'
  OBVIOUS
<1> USE ConstantsAssumption
       DEF TypeInv, TypeOK, EditorAt, OpAt, Launched, StartAt, EditPc, OpPc, Mishap,
        dbVars, startVars, vmVars, opVars
<1>1. ASSUME NEW v \in VM, StartBegin(v) PROVE TypeInv'
  BY <1>1 DEF StartBegin
<1>2. ASSUME NEW v \in VM, StartDelete(v) PROVE TypeInv'
  BY <1>2 DEF StartDelete
<1>3. ASSUME NEW v \in VM, StartInsert(v) PROVE TypeInv'
  <2>1. TypeOK'
    BY <1>3 DEF StartInsert, Insert
  <2>2. EditorAt'
    BY <1>3 DEF StartInsert, Insert
  <2>3. OpAt'
    BY <1>3 DEF StartInsert, Insert
  <2>4. Launched'
    <3> SUFFICES ASSUME NEW u \in VM
                 PROVE  /\ status'[u] = "UP" => launch'[u] = disks'[u]
                        /\ status'[u] # "UP" => launch'[u] = {}
      BY DEF Launched
    <3>1. status' = [status EXCEPT ![v] = "UP"] /\ launch' = [launch EXCEPT ![v] = disks[v]]
          /\ disks' = disks
      BY <1>3 DEF StartInsert
    <3>2. QED
      BY <3>1
  <2>5. StartAt'
    BY <1>3 DEF StartInsert, Insert
  <2>6. QED
    BY <2>1, <2>2, <2>3, <2>4, <2>5
<1>4. ASSUME NEW v \in VM, StartFails(v) PROVE TypeInv'
  BY <1>4 DEF StartFails
<1>5. ASSUME NEW v \in VM, Done(v) PROVE TypeInv'
  <2>1. TypeOK'
    BY <1>5 DEF Done
  <2>2. EditorAt'
    BY <1>5 DEF Done
  <2>3. OpAt'
    BY <1>5 DEF Done
  <2>4. Launched'
    <3> SUFFICES ASSUME NEW u \in VM
                 PROVE  /\ status'[u] = "UP" => launch'[u] = disks'[u]
                        /\ status'[u] # "UP" => launch'[u] = {}
      BY DEF Launched
    <3>1. status' = [status EXCEPT ![v] = "STOPPED"] /\ launch' = [launch EXCEPT ![v] = {}]
          /\ disks' = disks
      BY <1>5 DEF Done
    <3>2. QED
      BY <3>1
  <2>5. StartAt'
    BY <1>5 DEF Done
  <2>6. QED
    BY <2>1, <2>2, <2>3, <2>4, <2>5
<1>6. ASSUME NEW v \in VM, UnlockDisks(v) PROVE TypeInv'
  BY <1>6 DEF UnlockDisks, Unlock
<1>7. ASSUME NEW d \in Disk, LockDisk(d) PROVE TypeInv'
  BY <1>7 DEF LockDisk
<1>8. ASSUME NEW o \in Op, NEW v \in VM, UpdateBegin(o, v) PROVE TypeInv'
  BY <1>8 DEF UpdateBegin, Begins
<1>9. ASSUME NEW o \in Op, NEW v \in VM, NEW S \in SUBSET Disk, AttachBegin(o, v, S) PROVE TypeInv'
  BY <1>9 DEF AttachBegin, Begins
<1>10. ASSUME NEW o \in Op, AttachFill(o) PROVE TypeInv'
  <2>1. onVM[o] \in VM /\ editor[onVM[o]] = o /\ status[onVM[o]] = "STOPPED"
    BY <1>10 DEF AttachFill
  <2>2. TypeOK'
    <3>1. CASE Goes(o, "saveDelete") /\ editor' = editor /\ hist' = hist
               /\ disks' = [disks EXCEPT ![onVM[o]] = onDisks[o]]
      BY <1>10, <2>1, <3>1 DEF AttachFill, Goes
    <3>2. CASE /\ Ends(o) /\ editor' = [editor EXCEPT ![onVM[o]] = NoOp] /\ hist' = hist \cup {"torn"}
               /\ \E S \in SUBSET (onDisks[o] \cap exists) : disks' = [disks EXCEPT ![onVM[o]] = S]
      <4>1. disks' \in [VM -> SUBSET Disk]
        BY <2>1, <3>2
      <4>2. \A u \in VM : editor'[u] # NoOp => onVM'[editor'[u]] = u
        BY <2>1, <3>2 DEF Ends
      <4>3. QED
        BY <1>10, <2>1, <3>2, <4>1, <4>2 DEF AttachFill, Ends
    <3>3. QED
      BY <1>10, <3>1, <3>2 DEF AttachFill
  <2>3. EditorAt'
    BY <1>10, <2>1 DEF AttachFill, Goes, Ends
  <2>4. OpAt'
    BY <1>10, <2>1 DEF AttachFill, Goes, Ends
  <2>5. Launched'
    BY <1>10, <2>1 DEF AttachFill, Goes, Ends
  <2>6. StartAt'
    BY <1>10, <2>1 DEF AttachFill, Goes, Ends
  <2>7. QED
    BY <2>2, <2>3, <2>4, <2>5, <2>6
<1>11. ASSUME NEW o \in Op, SaveDelete(o) PROVE TypeInv'
  BY <1>11 DEF SaveDelete, Goes
<1>12. ASSUME NEW o \in Op, SaveInsert(o) PROVE TypeInv'
  BY <1>12 DEF SaveInsert, Ends, Insert, Released
<1>13. ASSUME NEW o \in Op, SaveFails(o) PROVE TypeInv'
  BY <1>13 DEF SaveFails, Ends, Released
<1>14. ASSUME NEW o \in Op, NEW d \in Disk, UploadBegin(o, d) PROVE TypeInv'
  BY <1>14 DEF UploadBegin, Begins
<1>15. ASSUME NEW o \in Op, NEW d \in Disk, RemoveBegin(o, d) PROVE TypeInv'
  BY <1>15 DEF RemoveBegin, Begins
<1>16. ASSUME NEW o \in Op, NEW d \in Disk, WipeBegin(o, d) PROVE TypeInv'
  BY <1>16 DEF WipeBegin, Begins
<1>17. ASSUME NEW o \in Op, UploadLock(o) PROVE TypeInv'
  BY <1>17 DEF UploadLock, Goes
<1>18. ASSUME NEW o \in Op, UploadEnd(o) PROVE TypeInv'
  BY <1>18 DEF UploadEnd, Ends, Unlock
<1>19. ASSUME NEW o \in Op, RemoveCheck(o) PROVE TypeInv'
  <2>1. TypeOK'
    <3>1. CASE Unlock(onDisks[o]) /\ Ends(o) /\ UNCHANGED hist
      BY <1>19, <3>1 DEF RemoveCheck, Ends, Unlock
    <3>2. CASE /\ Goes(o, "removeDelete") /\ UNCHANGED <<held, fatal>>
               /\ hist' = hist \cup (IF Editing = {} THEN {} ELSE {"overlap"})
      BY <1>19, <3>2 DEF RemoveCheck, Goes
    <3>3. QED
      BY <1>19, <3>1, <3>2 DEF RemoveCheck
  <2>2. EditorAt'
    BY <1>19 DEF RemoveCheck, Goes, Ends, Unlock
  <2>3. OpAt'
    BY <1>19 DEF RemoveCheck, Goes, Ends, Unlock
  <2>4. Launched'
    BY <1>19 DEF RemoveCheck, Goes, Ends, Unlock
  <2>5. StartAt'
    BY <1>19 DEF RemoveCheck, Goes, Ends, Unlock
  <2>6. QED
    BY <2>1, <2>2, <2>3, <2>4, <2>5
<1>20. ASSUME NEW o \in Op, RemoveDelete(o) PROVE TypeInv'
  BY <1>20 DEF RemoveDelete, Ends, Unlock
<1>21. ASSUME NEW o \in Op, WipeCreate(o) PROVE TypeInv'
  BY <1>21 DEF WipeCreate, Goes
<1>22. ASSUME NEW o \in Op, WipeHandler(o) PROVE TypeInv'
  BY <1>22 DEF WipeHandler, Goes, Ends
<1>23. ASSUME NEW o \in Op, WipeErase(o) PROVE TypeInv'
  BY <1>23 DEF WipeErase, Ends
<1>24. CASE Restart
  BY <1>24 DEF Restart
<1>25. CASE UNCHANGED vars
  BY <1>25 DEF vars
<1>26. QED
  BY <1>1, <1>2, <1>3, <1>4, <1>5, <1>6, <1>7, <1>8, <1>9, <1>10, <1>11, <1>12, <1>13, <1>14,
     <1>15, <1>16, <1>17, <1>18, <1>19, <1>20, <1>21, <1>22, <1>23, <1>24, <1>25 DEF Next,
     Running, VMStep, EditStep, DiskStep

-----------------------------------------------------------------------------
LEMMA MutexInit == Init => MutexInv
  BY DEF Init, MutexInv, WindowShut, Held, VMHolds, OpHolds, Keeps

LEMMA MutexStep == TypeInv /\ MutexInv /\ [Next]_vars => MutexInv'
<1> SUFFICES ASSUME TypeInv, MutexInv, [Next]_vars, "window" \notin hist'
             PROVE  ~fatal' /\ WindowShut' /\ Held'
  BY DEF MutexInv
<1> USE ConstantsAssumption DEF TypeInv, TypeOK, EditorAt, OpAt, StartAt, EditPc, OpPc, Mishap,
        dbVars, startVars, vmVars, opVars, MutexInv, WindowShut, Held, VMHolds, OpHolds, Keeps
<1>1. ASSUME NEW v \in VM, StartBegin(v) PROVE ~fatal' /\ WindowShut' /\ Held'
  BY <1>1 DEF StartBegin
<1>2. ASSUME NEW v \in VM, StartDelete(v) PROVE ~fatal' /\ WindowShut' /\ Held'
  BY <1>2 DEF StartDelete
<1>3. ASSUME NEW v \in VM, StartInsert(v) PROVE ~fatal' /\ WindowShut' /\ Held'
  BY <1>3 DEF StartInsert, Insert
<1>4. ASSUME NEW v \in VM, StartFails(v) PROVE ~fatal' /\ WindowShut' /\ Held'
  BY <1>4 DEF StartFails
<1>5. ASSUME NEW v \in VM, Done(v) PROVE ~fatal' /\ WindowShut' /\ Held'
  BY <1>5 DEF Done
<1>6. ASSUME NEW v \in VM, UnlockDisks(v) PROVE ~fatal' /\ WindowShut' /\ Held'
  BY <1>6 DEF UnlockDisks, Unlock
<1>7. ASSUME NEW d \in Disk, LockDisk(d) PROVE ~fatal' /\ WindowShut' /\ Held'
  BY <1>7 DEF LockDisk
<1>8. ASSUME NEW o \in Op, NEW v \in VM, UpdateBegin(o, v) PROVE ~fatal' /\ WindowShut' /\ Held'
  BY <1>8 DEF UpdateBegin, Begins
<1>9. ASSUME NEW o \in Op, NEW v \in VM, NEW S \in SUBSET Disk, AttachBegin(o, v, S)
      PROVE  ~fatal' /\ WindowShut' /\ Held'
  BY <1>9 DEF AttachBegin, Begins
<1>10. ASSUME NEW o \in Op, AttachFill(o) PROVE ~fatal' /\ WindowShut' /\ Held'
  BY <1>10 DEF AttachFill, Goes, Ends
<1>11. ASSUME NEW o \in Op, SaveDelete(o) PROVE ~fatal' /\ WindowShut' /\ Held'
  BY <1>11 DEF SaveDelete, Goes
<1>12. ASSUME NEW o \in Op, SaveInsert(o) PROVE ~fatal' /\ WindowShut' /\ Held'
  BY <1>12 DEF SaveInsert, Ends, Insert, Released
<1>13. ASSUME NEW o \in Op, SaveFails(o) PROVE ~fatal' /\ WindowShut' /\ Held'
  BY <1>13 DEF SaveFails, Ends, Released
<1>14. ASSUME NEW o \in Op, NEW d \in Disk, UploadBegin(o, d) PROVE ~fatal' /\ WindowShut' /\ Held'
  BY <1>14 DEF UploadBegin, Begins
<1>15. ASSUME NEW o \in Op, NEW d \in Disk, RemoveBegin(o, d) PROVE ~fatal' /\ WindowShut' /\ Held'
  BY <1>15 DEF RemoveBegin, Begins
<1>16. ASSUME NEW o \in Op, NEW d \in Disk, WipeBegin(o, d) PROVE ~fatal' /\ WindowShut' /\ Held'
  BY <1>16 DEF WipeBegin, Begins
<1>17. ASSUME NEW o \in Op, UploadLock(o) PROVE ~fatal' /\ WindowShut' /\ Held'
  BY <1>17 DEF UploadLock, Goes
<1>18. ASSUME NEW o \in Op, UploadEnd(o) PROVE ~fatal' /\ WindowShut' /\ Held'
  BY <1>18 DEF UploadEnd, Ends, Unlock
<1>19. ASSUME NEW o \in Op, RemoveCheck(o) PROVE ~fatal' /\ WindowShut' /\ Held'
  BY <1>19 DEF RemoveCheck, Goes, Ends, Unlock
<1>20. ASSUME NEW o \in Op, RemoveDelete(o) PROVE ~fatal' /\ WindowShut' /\ Held'
  BY <1>20 DEF RemoveDelete, Ends, Unlock
<1>21. ASSUME NEW o \in Op, WipeCreate(o) PROVE ~fatal' /\ WindowShut' /\ Held'
  BY <1>21 DEF WipeCreate, Goes
<1>22. ASSUME NEW o \in Op, WipeHandler(o) PROVE ~fatal' /\ WindowShut' /\ Held'
  BY <1>22 DEF WipeHandler, Goes, Ends
<1>23. ASSUME NEW o \in Op, WipeErase(o) PROVE ~fatal' /\ WindowShut' /\ Held'
  BY <1>23 DEF WipeErase, Ends
<1>24. CASE Restart
  BY <1>24 DEF Restart
<1>25. CASE UNCHANGED vars
  BY <1>25 DEF vars
<1> HIDE DEF TypeInv, TypeOK, EditorAt, OpAt, StartAt, EditPc, OpPc, Mishap, dbVars, startVars,
             vmVars, opVars, MutexInv, WindowShut, Held, VMHolds, OpHolds, Keeps
<1>26. QED
  BY <1>1, <1>2, <1>3, <1>4, <1>5, <1>6, <1>7, <1>8, <1>9, <1>10, <1>11, <1>12, <1>13, <1>14,
     <1>15, <1>16, <1>17, <1>18, <1>19, <1>20, <1>21, <1>22, <1>23, <1>24, <1>25
  DEF Next, Running, VMStep, EditStep, DiskStep
\* A set in which all elements are equal has at most one.
LEMMA AtMostOne ==
  ASSUME NEW S, \A x, y \in S : x = y
  PROVE  Cardinality(S) <= 1
<1>1. CASE S = {}
  BY <1>1, FS_EmptySet
<1>2. CASE \E x \in S : TRUE
  <2>1. PICK x \in S : S = {x}
    BY <1>2
  <2>2. QED
    BY <2>1, FS_Singleton
<1>3. QED
  BY <1>1, <1>2

\* Whoever relies on having a disk holds its mutex, so the users of a disk are one.
LEMMA MutexOneUser == TypeInv /\ MutexInv => OneUser
<1> SUFFICES ASSUME TypeInv, MutexInv, "window" \notin hist
             PROVE  ~fatal /\ \A d \in Disk : Cardinality(Users(d)) <= 1
  BY DEF OneUser
<1>1. ~fatal /\ Held
  BY DEF MutexInv
<1>2. ASSUME NEW d \in Disk PROVE Cardinality(Users(d)) <= 1
  <2>1. \A v \in VM : d \in launch[v] => VMHolds(v, d)
    BY DEF TypeInv, Launched, VMHolds, Keeps
  <2>2. \A o \in Op : pc[o] \in {"receive", "removeDelete"} /\ d \in onDisks[o] => OpHolds(o, d)
    BY DEF OpHolds
  <2>3. \A x, y \in Users(d) : x = y
    BY <1>1, <2>1, <2>2 DEF Users, Held
  <2>4. QED
    BY <2>3, AtMostOne
<1>3. QED
  BY <1>1, <1>2

-----------------------------------------------------------------------------
LEMMA StoredInit == Init => StoredInv
  BY DEF Init, StoredInv, NoneTooMany, NoneMissing, Settled

LEMMA StoredStep == TypeInv /\ StoredInv /\ [Next]_vars => StoredInv'
<1> SUFFICES ASSUME TypeInv, StoredInv, [Next]_vars PROVE StoredInv'
  OBVIOUS
<1> USE ConstantsAssumption DEF TypeInv, TypeOK, EditorAt, OpAt, StartAt, EditPc, OpPc, Mishap,
        dbVars, startVars, vmVars, opVars, StoredInv, NoneTooMany, NoneMissing, Settled
<1>1. ASSUME NEW v \in VM, StartBegin(v) PROVE StoredInv'
  BY <1>1 DEF StartBegin
<1>2. ASSUME NEW v \in VM, StartDelete(v) PROVE StoredInv'
  BY <1>2 DEF StartDelete
<1>3. ASSUME NEW v \in VM, StartInsert(v) PROVE StoredInv'
  BY <1>3 DEF StartInsert, Insert
<1>4. ASSUME NEW v \in VM, StartFails(v) PROVE StoredInv'
  BY <1>4 DEF StartFails
<1>5. ASSUME NEW v \in VM, Done(v) PROVE StoredInv'
  BY <1>5 DEF Done
<1>6. ASSUME NEW v \in VM, UnlockDisks(v) PROVE StoredInv'
  BY <1>6 DEF UnlockDisks, Unlock
<1>7. ASSUME NEW d \in Disk, LockDisk(d) PROVE StoredInv'
  BY <1>7 DEF LockDisk
<1>8. ASSUME NEW o \in Op, NEW v \in VM, UpdateBegin(o, v) PROVE StoredInv'
  BY <1>8 DEF UpdateBegin, Begins
<1>9. ASSUME NEW o \in Op, NEW v \in VM, NEW S \in SUBSET Disk, AttachBegin(o, v, S)
      PROVE  StoredInv'
  BY <1>9 DEF AttachBegin, Begins
<1>10. ASSUME NEW o \in Op, AttachFill(o) PROVE StoredInv'
  BY <1>10 DEF AttachFill, Goes, Ends
<1>11. ASSUME NEW o \in Op, SaveDelete(o) PROVE StoredInv'
  BY <1>11 DEF SaveDelete, Goes
<1>12. ASSUME NEW o \in Op, SaveInsert(o) PROVE StoredInv'
  BY <1>12 DEF SaveInsert, Ends, Insert, Released
<1>13. ASSUME NEW o \in Op, SaveFails(o) PROVE StoredInv'
  BY <1>13 DEF SaveFails, Ends, Released
<1>14. ASSUME NEW o \in Op, NEW d \in Disk, UploadBegin(o, d) PROVE StoredInv'
  BY <1>14 DEF UploadBegin, Begins
<1>15. ASSUME NEW o \in Op, NEW d \in Disk, RemoveBegin(o, d) PROVE StoredInv'
  BY <1>15 DEF RemoveBegin, Begins
<1>16. ASSUME NEW o \in Op, NEW d \in Disk, WipeBegin(o, d) PROVE StoredInv'
  BY <1>16 DEF WipeBegin, Begins
<1>17. ASSUME NEW o \in Op, UploadLock(o) PROVE StoredInv'
  BY <1>17 DEF UploadLock, Goes
<1>18. ASSUME NEW o \in Op, UploadEnd(o) PROVE StoredInv'
  BY <1>18 DEF UploadEnd, Ends, Unlock
<1>19. ASSUME NEW o \in Op, RemoveCheck(o) PROVE StoredInv'
  BY <1>19 DEF RemoveCheck, Goes, Ends, Unlock
<1>20. ASSUME NEW o \in Op, RemoveDelete(o) PROVE StoredInv'
  BY <1>20 DEF RemoveDelete, Ends, Unlock
<1>21. ASSUME NEW o \in Op, WipeCreate(o) PROVE StoredInv'
  BY <1>21 DEF WipeCreate, Goes
<1>22. ASSUME NEW o \in Op, WipeHandler(o) PROVE StoredInv'
  BY <1>22 DEF WipeHandler, Goes, Ends
<1>23. ASSUME NEW o \in Op, WipeErase(o) PROVE StoredInv'
  BY <1>23 DEF WipeErase, Ends
<1>24. CASE Restart
  BY <1>24 DEF Restart
<1>25. CASE UNCHANGED vars
  BY <1>25 DEF vars
<1>26. QED
  BY <1>1, <1>2, <1>3, <1>4, <1>5, <1>6, <1>7, <1>8, <1>9, <1>10, <1>11, <1>12, <1>13, <1>14,
     <1>15, <1>16, <1>17, <1>18, <1>19, <1>20, <1>21, <1>22, <1>23, <1>24, <1>25 DEF Next,
     Running, VMStep, EditStep, DiskStep

-----------------------------------------------------------------------------
LEMMA AttachedInit == Init => AttachedInv
  BY DEF Init, AttachedInv, RemovesOne, OneEdit, Editing, Apart, OwnRows, Outdated, AllExist,
         FillApart, RemoveApart

LEMMA AttachedStep == TypeInv /\ MutexInv /\ StoredInv /\ AttachedInv /\ [Next]_vars => AttachedInv'
<1> SUFFICES ASSUME TypeInv, MutexInv, StoredInv, AttachedInv, [Next]_vars PROVE AttachedInv'
  OBVIOUS
<1> USE ConstantsAssumption DEF TypeInv, TypeOK, EditorAt, OpAt, StartAt, EditPc, OpPc, Mishap,
        dbVars, startVars, vmVars, opVars, AttachedInv, RemovesOne, OneEdit, Editing, Apart,
        OwnRows, Outdated, AllExist, FillApart, RemoveApart
<1>1. ASSUME NEW v \in VM, StartBegin(v) PROVE AttachedInv'
  BY <1>1 DEF StartBegin
<1>2. ASSUME NEW v \in VM, StartDelete(v) PROVE AttachedInv'
  BY <1>2 DEF StartDelete
<1>3. ASSUME NEW v \in VM, StartInsert(v) PROVE AttachedInv'
  BY <1>3 DEF StartInsert, Insert
<1>4. ASSUME NEW v \in VM, StartFails(v) PROVE AttachedInv'
  BY <1>4 DEF StartFails
<1>5. ASSUME NEW v \in VM, Done(v) PROVE AttachedInv'
  BY <1>5 DEF Done
<1>6. ASSUME NEW v \in VM, UnlockDisks(v) PROVE AttachedInv'
  BY <1>6 DEF UnlockDisks, Unlock
<1>7. ASSUME NEW d \in Disk, LockDisk(d) PROVE AttachedInv'
  BY <1>7 DEF LockDisk
<1>8. ASSUME NEW o \in Op, NEW v \in VM, UpdateBegin(o, v) PROVE AttachedInv'
  BY <1>8 DEF UpdateBegin, Begins
<1>9. ASSUME NEW o \in Op, NEW v \in VM, NEW S \in SUBSET Disk, AttachBegin(o, v, S)
      PROVE  AttachedInv'
  <2>1. RemovesOne'
    BY <1>9 DEF AttachBegin, Begins
  <2>2. ASSUME hist' = {}
        PROVE  (OneEdit /\ Apart /\ OwnRows /\ AllExist /\ FillApart /\ RemoveApart)'
    <3>1. hist = {} /\ Editing = {}
      BY <1>9, <2>2 DEF AttachBegin
    <3>2. \A u \in VM \ {v} : S \cap disks[u] = {} /\ rows[u] \subseteq disks[u]
      BY <1>9, <3>1 DEF AttachBegin, AttachedTo
    <3>3. OneEdit' /\ FillApart' /\ RemoveApart'
      BY <1>9, <3>1, <3>2 DEF AttachBegin, Begins
    <3>4. Apart' /\ AllExist'
      BY <1>9, <3>1 DEF AttachBegin
    <3>5. OwnRows'
      BY <1>9, <3>1 DEF AttachBegin, Begins
    <3>6. QED
      BY <3>3, <3>4, <3>5
  <2>3. QED
    BY <2>1, <2>2
<1>10. ASSUME NEW o \in Op, AttachFill(o) PROVE AttachedInv'
  <2>1. RemovesOne'
    BY <1>10 DEF AttachFill, Goes, Ends
  <2>2. ASSUME hist' = {}
        PROVE  (OneEdit /\ Apart /\ OwnRows /\ AllExist /\ FillApart /\ RemoveApart)'
    <3> DEFINE v == onVM[o]
    <3>1. /\ hist = {} /\ onDisks[o] \subseteq exists /\ Goes(o, "saveDelete")
          /\ disks' = [disks EXCEPT ![v] = onDisks[o]]
          /\ rows' = rows /\ exists' = exists /\ editor' = editor
      BY <1>10, <2>2 DEF AttachFill
    <3>2. v \in VM /\ editor[v] = o /\ \A p \in Editing : p = o
      BY <1>10, <3>1 DEF AttachFill
    <3>3. \A u \in VM \ {v} : onDisks[o] \cap disks[u] = {} /\ rows[u] \subseteq disks[u]
      BY <1>10, <3>1, <3>2 DEF AttachFill
    <3>4. OneEdit' /\ FillApart' /\ RemoveApart'
      BY <1>10, <3>1, <3>2 DEF AttachFill, Goes
    <3>5. Apart' /\ AllExist'
      BY <3>1, <3>2, <3>3
    <3>6. OwnRows'
      BY <3>1, <3>2, <3>3 DEF Goes
    <3>7. QED
      BY <3>4, <3>5, <3>6
  <2>3. QED
    BY <2>1, <2>2
<1>11. ASSUME NEW o \in Op, SaveDelete(o) PROVE AttachedInv'
  BY <1>11 DEF SaveDelete, Goes
<1>12. ASSUME NEW o \in Op, SaveInsert(o) PROVE AttachedInv'
  BY <1>12 DEF SaveInsert, Ends, Insert, Released
<1>13. ASSUME NEW o \in Op, SaveFails(o) PROVE AttachedInv'
  BY <1>13 DEF SaveFails, Ends, Released
<1>14. ASSUME NEW o \in Op, NEW d \in Disk, UploadBegin(o, d) PROVE AttachedInv'
  BY <1>14 DEF UploadBegin, Begins
<1>15. ASSUME NEW o \in Op, NEW d \in Disk, RemoveBegin(o, d) PROVE AttachedInv'
  BY <1>15 DEF RemoveBegin, Begins
<1>16. ASSUME NEW o \in Op, NEW d \in Disk, WipeBegin(o, d) PROVE AttachedInv'
  BY <1>16 DEF WipeBegin, Begins
<1>17. ASSUME NEW o \in Op, UploadLock(o) PROVE AttachedInv'
  BY <1>17 DEF UploadLock, Goes
<1>18. ASSUME NEW o \in Op, UploadEnd(o) PROVE AttachedInv'
  BY <1>18 DEF UploadEnd, Ends, Unlock
<1>19. ASSUME NEW o \in Op, RemoveCheck(o) PROVE AttachedInv'
  <2>1. RemovesOne'
    BY <1>19 DEF RemoveCheck, Goes, Ends
  <2>2. ASSUME hist' = {}
        PROVE  (OneEdit /\ Apart /\ OwnRows /\ AllExist /\ FillApart /\ RemoveApart)'
    <3>1. hist = {} /\ rows' = rows /\ disks' = disks /\ exists' = exists /\ editor' = editor
      BY <1>19, <2>2 DEF RemoveCheck
    <3>2. CASE Ends(o)
      BY <1>19, <3>1, <3>2 DEF Ends, RemoveCheck
    <3>3. CASE Goes(o, "removeDelete") /\ Editing = {} /\ \A v \in VM : ~(onDisks[o] \subseteq rows[v])
      <4>1. PICK d \in Disk : onDisks[o] = {d}
        BY <1>19 DEF RemoveCheck
      \* The mutex keeps Start away, and nobody else has deleted rows.
      <4>2. \A v \in VM : d \notin rows[v] /\ d \notin disks[v]
        <5> SUFFICES ASSUME NEW v \in VM, d \in disks[v] PROVE FALSE
          BY <3>3, <4>1
        <5>1. startPc[v] # "insert"
          BY <1>19, <3>1, <4>1 DEF RemoveCheck, MutexInv, Held, VMHolds, OpHolds, Keeps
        <5>2. \A p \in Op : onVM[p] # v
          BY <3>3
        <5>3. QED
          BY <3>1, <3>3, <4>1, <5>1, <5>2 DEF StoredInv, NoneMissing, Settled
      <4>3. OneEdit' /\ FillApart' /\ RemoveApart'
        BY <3>1, <3>3, <4>1, <4>2 DEF Goes
      <4>4. Apart' /\ AllExist' /\ OwnRows'
        BY <3>1, <3>3
      <4>5. QED
        BY <4>3, <4>4
    <3>4. QED
      BY <1>19, <2>2, <3>1, <3>2, <3>3 DEF RemoveCheck
  <2>3. QED
    BY <2>1, <2>2
<1>20. ASSUME NEW o \in Op, RemoveDelete(o) PROVE AttachedInv'
  BY <1>20 DEF RemoveDelete, Ends, Unlock
<1>21. ASSUME NEW o \in Op, WipeCreate(o) PROVE AttachedInv'
  BY <1>21 DEF WipeCreate, Goes
<1>22. ASSUME NEW o \in Op, WipeHandler(o) PROVE AttachedInv'
  BY <1>22 DEF WipeHandler, Goes, Ends
<1>23. ASSUME NEW o \in Op, WipeErase(o) PROVE AttachedInv'
  BY <1>23 DEF WipeErase, Ends
<1>24. CASE Restart
  BY <1>24 DEF Restart
<1>25. CASE UNCHANGED vars
  BY <1>25 DEF vars
<1>26. QED
  BY <1>1, <1>2, <1>3, <1>4, <1>5, <1>6, <1>7, <1>8, <1>9, <1>10, <1>11, <1>12, <1>13, <1>14,
     <1>15, <1>16, <1>17, <1>18, <1>19, <1>20, <1>21, <1>22, <1>23, <1>24, <1>25 DEF Next,
     Running, VMStep, EditStep, DiskStep
-----------------------------------------------------------------------------
IInv == TypeInv /\ MutexInv /\ StoredInv /\ AttachedInv

LEMMA Inductive == Spec => []IInv
<1>1. Init => IInv
  BY TypeInit, MutexInit, StoredInit, AttachedInit DEF IInv
<1>2. IInv /\ [Next]_vars => IInv'
  BY TypeStep, MutexStep, StoredStep, AttachedStep DEF IInv
<1>3. QED
  BY <1>1, <1>2, PTL DEF Spec

\* Every table and every goroutine of the disks keeps its type, and v.mu is held by a call
\* that works on v: a call that ends, well or not, has given it back.
THEOREM TypeCorrect == Spec => []TypeOK
<1>1. IInv => TypeOK
  BY DEF IInv, TypeInv
<1>2. QED
  BY <1>1, Inductive, PTL

\* While no attachment is edited between SetStopped and unlockDisks, a disk has one user at a
\* time, a bhyve, an upload or a removal, and unlockDisks never meets an unlocked mutex.
THEOREM DiskHasOneUser == Spec => []OneUser
<1>1. IInv => OneUser
  BY MutexOneUser DEF IInv
<1>2. QED
  BY <1>1, Inductive, PTL

\* Edits of attachments that come one after the other and do not fail leave every disk with one
\* VM, in memory and in the database, and no VM with a disk that was removed.
THEOREM DiskHasOneOwner == Spec => []AttachedOnce
<1>1. IInv => AttachedOnce
  BY DEF IInv, AttachedInv, Apart, AllExist, AttachedOnce
<1>2. QED
  BY <1>1, Inductive, PTL

\* What bhyve was started with is what a restarted daemon finds in vm_disks, unless the VM is
\* being saved or a save has failed.
THEOREM RunningStored == Spec => []RunningIsStored
<1>1. ASSUME IInv PROVE RunningIsStored
  <2>. SUFFICES ASSUME NEW v \in VM, status[v] = "UP", "torn" \notin hist,
                       \A o \in Op : onVM[o] # v
                PROVE  rows[v] = launch[v]
    BY DEF RunningIsStored
  <2>1. launch[v] = disks[v]
    BY <1>1 DEF IInv, TypeInv, Launched
  <2>2. rows[v] \subseteq disks[v]
    BY <1>1 DEF IInv, StoredInv, NoneTooMany
  <2>3. startPc[v] # "insert"
    BY <1>1 DEF IInv, TypeInv, StartAt
  <2>4. disks[v] \subseteq rows[v]
    BY <1>1, <2>3 DEF IInv, StoredInv, NoneMissing, Settled
  <2>5. QED
    BY <2>1, <2>2, <2>4
<1>2. QED
  BY <1>1, Inductive, PTL

-----------------------------------------------------------------------------
(***************************************************************************)
(* What is on a disk.                                                      *)
(***************************************************************************)

DiskCallState ==
  [op : {"none", "add", "upload", "wipe"},
   pc : {"idle", "exists", "backing", "row", "size", "open", "lock", "recv",
         "queued", "stuck", "erase", "create"},
   disk : DiskID \cup {0}, kind : Backing, size : 0 .. Wide, image : DiskImage \cup {Blank},
   got : 0 .. Wide, open : BOOLEAN, ok : BOOLEAN]
Telling == [what : {"unknown", Blank} \cup DiskImage, size : 0 .. Wide]

\* The type invariant, with the functions and records as a whole and no file or volume
\* larger than a size can tell.
DiskTyped ==
  /\ live \subseteq DiskID /\ devType \in [DiskID -> Backing \cup {"unused"}]
  /\ store \in [Backing -> Seq(Cell)] /\ \A k \in Backing : Len(store[k]) <= Wide
  /\ present \subseteq Backing /\ snapshot \in 0 .. Wide
  /\ diskMu \in [DiskID -> DiskCall \cup {"vm", "free"}]
  /\ guest \in [disk : DiskID \cup {0}, open : Backing \cup {"none"}, size : 0 .. Wide, up : BOOLEAN]
  /\ diskCall \in [DiskCall -> DiskCallState]
  /\ told \in [Backing -> Telling]

\* What is not there has no cells.
Absent == \A k \in Backing : k \notin present => store[k] = << >>

\* Where a call is, which disk it has and how far an upload is; a file that is open is there.
Placed(u, there) ==
  /\ u.op = "upload" <=> u.pc \in {"size", "open", "lock", "recv"}
  /\ u.op = "upload" => u.disk \in DiskID /\ u.image \in DiskImage
  /\ u.open => u.pc \in {"lock", "recv"} /\ (u.kind = "FILE" => "FILE" \in there)
  /\ u.got <= u.size /\ (u.pc # "recv" => u.got = 0)
CallsPlaced == \A c \in DiskCall : Placed(diskCall[c], present)

\* An upload that receives has the mutex of its disk, and so has a VM that runs.
Locked == \A c \in DiskCall : diskCall[c].pc = "recv" => diskMu[diskCall[c].disk] = c
GuestPlaced ==
  /\ guest.up => guest.disk \in DiskID /\ diskMu[guest.disk] = "vm"
  /\ guest.open \in Backing => guest.up /\ (guest.open = "FILE" => "FILE" \in present)

AllBlank(cells) == \A j \in 1 .. Len(cells) : cells[j] = Blank

\* What a call that nobody has disturbed finds: AddDisk no file or volume, and then the
\* empty one it has made, an upload the cells it has written, a wipe nothing of what was.
Found(u, cells, there) ==
  /\ u.pc = "backing" => u.kind \notin there
  /\ u.pc = "row" => /\ u.kind \in there /\ AllBlank(cells[u.kind])
                     /\ u.kind = "FILE" => Len(cells[u.kind]) = u.size
  /\ u.open => /\ u.kind \in there /\ u.got <= Len(cells[u.kind])
               /\ \A j \in 1 .. u.got : cells[u.kind][j] = u.image
               /\ u.kind = "FILE" => Len(cells[u.kind]) = u.got
  /\ u.pc = "create" => /\ u.kind = "FILE" => u.kind \notin there
                        /\ u.kind = "ZVOL" => u.kind \in there /\ AllBlank(cells[u.kind])
CallsFind == \A c \in DiskCall : diskCall[c].ok => Found(diskCall[c], store, present)

\* ContentAsTold of one kind of backing.
Tells(t, k, cells, there) ==
  /\ t.what = Blank => AllBlank(cells[k])
  /\ t.what \in DiskImage => Len(cells[k]) >= t.size /\ \A j \in 1 .. t.size : cells[k][j] = t.what
  /\ t.what # "unknown" => k \in there /\ (k = "FILE" => Len(cells[k]) = t.size)

DiskInv ==
  DiskTyped /\ Absent /\ CallsPlaced /\ Locked /\ GuestPlaced /\ CallsFind /\ ContentAsTold

-----------------------------------------------------------------------------
(* Cells.                                                                  *)

\* A new file or volume is blank.
LEMMA BlanksAre ==
  ASSUME NEW n \in Nat
  PROVE  Blanks(n) \in Seq(Cell) /\ Len(Blanks(n)) = n /\ AllBlank(Blanks(n))
BY DEF Blanks, AllBlank, Cell

\* Resizing keeps the cells that fit and adds blank ones.
LEMMA ResizedIs ==
  ASSUME NEW cells \in Seq(Cell), NEW n \in Nat
  PROVE  /\ Resized(cells, n) \in Seq(Cell) /\ Len(Resized(cells, n)) = n
         /\ \A j \in 1 .. n : Resized(cells, n)[j] = IF j <= Len(cells) THEN cells[j] ELSE Blank
<1>1. \A j \in 1 .. n : (IF j <= Len(cells) THEN cells[j] ELSE Blank) \in Cell
  BY DEF Cell
<1>. QED
  BY <1>1 DEF Resized

\* A rounded size is a size.
LEMMA RoundUpIs ==
  ASSUME NEW n \in Nat
  PROVE  RoundUp(n) \in 0 .. Wide
<1>1. n % BlockSize \in Nat /\ BlockSize - (n % BlockSize) \in Nat
  BY DiskAssumption
<1>. DEFINE m == IF n % BlockSize > 0 THEN n + (BlockSize - (n % BlockSize)) ELSE n
<1>2. m \in Nat
  BY <1>1
<1>. HIDE DEF m
<1>3. m % Wide \in 0 .. Wide
  BY <1>2, DiskAssumption
<1>. QED
  BY <1>3 DEF RoundUp, m

\* MakeBacking leaves a file of the size it was asked for, with the cells it had, or a
\* blank volume.
LEMMA MakeBackingIs ==
  ASSUME DiskTyped, NEW k \in Backing, NEW n \in 0 .. Wide, MakeBacking(k, n)
  PROVE  /\ store' \in [Backing -> Seq(Cell)] /\ \A q \in Backing : Len(store'[q]) <= Wide
         /\ \A q \in Backing \ {k} : store'[q] = store[q]
         /\ snapshot' \in 0 .. Wide
         /\ k = "FILE" => Len(store'[k]) = n
         /\ k = "ZVOL" => k \notin present
         /\ (k = "ZVOL" \/ store[k] = << >>) => AllBlank(store'[k])
<1>1. CASE k = "FILE"
  <2>1. store' = [store EXCEPT ![k] = Resized(store[k], n)] /\ snapshot' = snapshot
    BY <1>1 DEF MakeBacking
  <2>2. /\ store[k] \in Seq(Cell) /\ store \in [Backing -> Seq(Cell)] /\ snapshot \in 0 .. Wide
        /\ \A q \in Backing : Len(store[q]) <= Wide
    BY DEF DiskTyped
  <2>3. /\ Resized(store[k], n) \in Seq(Cell) /\ Len(Resized(store[k], n)) = n
        /\ \A j \in 1 .. n : Resized(store[k], n)[j] = IF j <= Len(store[k]) THEN store[k][j] ELSE Blank
    BY <2>2, ResizedIs, DiskAssumption
  <2>4. store[k] = << >> => AllBlank(Resized(store[k], n))
    BY <2>3 DEF AllBlank
  <2>. QED
    BY <1>1, <2>1, <2>2, <2>3, <2>4
<1>2. CASE k = "ZVOL"
  <2>1. /\ store' = [store EXCEPT ![k] = Blanks(RoundUp(n))] /\ snapshot' \in {0, RoundUp(n)}
        /\ k \notin present
    BY <1>2 DEF MakeBacking
  <2>2. store \in [Backing -> Seq(Cell)] /\ \A q \in Backing : Len(store[q]) <= Wide
    BY DEF DiskTyped
  <2>3. RoundUp(n) \in 0 .. Wide
    BY RoundUpIs
  <2>4. Blanks(RoundUp(n)) \in Seq(Cell) /\ Len(Blanks(RoundUp(n))) = RoundUp(n) /\ AllBlank(Blanks(RoundUp(n)))
    BY <2>3, BlanksAre
  <2>. QED
    BY <1>2, <2>1, <2>2, <2>3, <2>4, DiskAssumption
<1>. QED
  BY <1>1, <1>2 DEF Backing

\* A guest or an upload writes a cell: nothing else changes but a hole, which is blank.
LEMMA CellWritten ==
  ASSUME DiskTyped, NEW k \in Backing, NEW j \in 1 .. Wide, NEW x \in Cell,
         k = "ZVOL" => j <= Len(store[k]),
         store' = [store EXCEPT ![k] = WrittenAt(@, j, x)]
  PROVE  /\ store' \in [Backing -> Seq(Cell)] /\ \A q \in Backing : Len(store'[q]) <= Wide
         /\ \A q \in Backing \ {k} : store'[q] = store[q]
         /\ Len(store'[k]) = IF Len(store[k]) < j THEN j ELSE Len(store[k])
         /\ store'[k][j] = x
         /\ \A i \in 1 .. Len(store[k]) : i # j => store'[k][i] = store[k][i]
<1>1. /\ store[k] \in Seq(Cell) /\ store \in [Backing -> Seq(Cell)]
      /\ \A q \in Backing : Len(store[q]) <= Wide
  BY DEF DiskTyped
<1>2. j \in Nat \ {0} /\ Wide \in Nat
  BY DiskAssumption
<1>3. PICK w : w = WrittenAt(store[k], j, x)
  OBVIOUS
<1>4. /\ w \in Seq(Cell) /\ Len(w) = IF Len(store[k]) < j THEN j ELSE Len(store[k])
      /\ w[j] = x /\ \A i \in 1 .. Len(store[k]) : i # j => w[i] = store[k][i]
  <2>. DEFINE n == IF Len(store[k]) < j THEN j ELSE Len(store[k])
  <2>1. store[k] \in Seq(Cell) /\ n \in Nat /\ j \in 1 .. n /\ 1 .. Len(store[k]) \subseteq 1 .. n
    BY <1>1, <1>2
  <2>2. w = [i \in 1 .. n |-> IF i = j THEN x ELSE IF i <= Len(store[k]) THEN store[k][i] ELSE Blank]
    BY <1>3, <2>1 DEF WrittenAt, Resized
  <2>. HIDE DEF n
  <2>3. /\ \A i \in 1 .. n : w[i] \in Cell
        /\ w[j] = x /\ \A i \in 1 .. Len(store[k]) : i # j => w[i] = store[k][i]
    BY <1>2, <2>1, <2>2 DEF Cell
  <2>4. w \in Seq(Cell) /\ Len(w) = n
    BY <2>1, <2>2, <2>3
  <2>. QED
    BY <2>3, <2>4 DEF n
<1>5. store' = [store EXCEPT ![k] = w]
  BY <1>3
<1>6. store'[k] = w /\ \A q \in Backing \ {k} : store'[q] = store[q]
  BY <1>1, <1>5
<1>7. Len(w) <= Wide
  BY <1>1, <1>2, <1>4
<1>8. store' \in [Backing -> Seq(Cell)]
  BY <1>1, <1>4, <1>5
<1>. QED
  BY <1>1, <1>4, <1>6, <1>7, <1>8

-----------------------------------------------------------------------------
(* Calls.                                                                  *)

\* v is the call u, but it may have been disturbed and its file may be gone.
Lowered(u, v) ==
  /\ v.op = u.op /\ v.pc = u.pc /\ v.disk = u.disk /\ v.kind = u.kind
  /\ v.size = u.size /\ v.image = u.image /\ v.got = u.got
  /\ v.open => u.open
  /\ v.ok => u.ok

\* DiskGoes: c goes on, and the others are where they were.
LEMMA GoesIs ==
  ASSUME DiskTyped, NEW c \in DiskCall, NEW r \in DiskCallState, NEW D, DiskGoes(c, r, D)
  PROVE  /\ diskCall' \in [DiskCall -> DiskCallState] /\ diskCall'[c] = r
         /\ \A x \in DiskCall \ {c} : /\ Lowered(diskCall[x], diskCall'[x])
                                      /\ diskCall'[x].open = diskCall[x].open
                                      /\ diskCall'[x].ok => x \notin D
<1>1. \A x \in DiskCall : diskCall[x] \in DiskCallState
  BY DEF DiskTyped
<1>2. \A x \in DiskCall : diskCall'[x] = IF x = c THEN r
                                          ELSE [diskCall[x] EXCEPT !.ok = @ /\ x \notin D]
  BY DEF DiskGoes
<1>3. ASSUME NEW x \in DiskCall \ {c}
      PROVE  /\ diskCall'[x] \in DiskCallState
             /\ Lowered(diskCall[x], diskCall'[x])
             /\ diskCall'[x].open = diskCall[x].open
             /\ diskCall'[x].ok => x \notin D
  <2>1. PICK u \in DiskCallState : u = diskCall[x]
    BY <1>1
  <2>2. diskCall'[x] = [u EXCEPT !.ok = u.ok /\ x \notin D]
    BY <1>2, <2>1
  <2>. QED
    BY <2>1, <2>2 DEF DiskCallState, Lowered
<1>4. diskCall' = [x \in DiskCall |-> IF x = c THEN r
                                          ELSE [diskCall[x] EXCEPT !.ok = @ /\ x \notin D]]
  BY DEF DiskGoes
<1>5. \A x \in DiskCall : diskCall'[x] \in DiskCallState
  BY <1>2, <1>3
<1>6. diskCall' = [x \in DiskCall |-> diskCall'[x]]
  BY <1>4
<1>7. diskCall' \in [DiskCall -> DiskCallState]
  BY <1>5, <1>6
<1>. QED
  BY <1>2, <1>3, <1>7

\* A call that is over.
LEMMA OverCall ==
  ASSUME NEW cells, NEW there
  PROVE  /\ NoDiskCall \in DiskCallState /\ NoDiskCall.pc = "idle"
         /\ Placed(NoDiskCall, there) /\ Found(NoDiskCall, cells, there)
BY DiskAssumption DEF NoDiskCall, DiskCallState, Placed, Found, Backing

\* A call that has no work on a file or a volume finds what it needs, which is nothing.
LEMMA IdleFinds ==
  ASSUME NEW u, NEW there, Placed(u, there), NEW cells, NEW then,
         u.pc \notin {"backing", "row", "lock", "recv", "create"}
  PROVE  Found(u, cells, then)
BY DEF Placed, Found

\* A call for which the kind of backing it works on is as it was finds what it did.
LEMMA FindsStill ==
  ASSUME NEW u, NEW v, Lowered(u, v), NEW cells, NEW cells2, NEW there, NEW there2,
         cells2[u.kind] = cells[u.kind], (u.kind \in there2) <=> (u.kind \in there),
         Found(u, cells, there)
  PROVE  Found(v, cells2, there2)
BY DEF Lowered, Found

\* A call stays placed as long as a file it has open is there.
LEMMA PlacedStill ==
  ASSUME NEW u, NEW v, Lowered(u, v), NEW there, NEW there2, Placed(u, there),
         v.open /\ v.kind = "FILE" => "FILE" \in there2
  PROVE  Placed(v, there2)
BY DEF Lowered, Placed

\* ContentAsTold is Tells of both kinds.
LEMMA ToldTells == ContentAsTold <=> \A k \in Backing : Tells(told[k], k, store, present)
BY DEF ContentAsTold, Tells, AllBlank

\* A step about one kind of backing: a call of this kind that is at work is disturbed, or
\* finds what it needs, and then so do all others.
LEMMA OthersFind ==
  ASSUME DiskInv, NEW k \in Backing, NEW x \in DiskCall, Lowered(diskCall[x], diskCall'[x]),
         \A q \in Backing \ {k} : store'[q] = store[q] /\ ((q \in present') <=> (q \in present)),
         \/ x \in WorkOn(k) => (diskCall'[x].ok => Found(diskCall'[x], store', present'))
         \/ store'[k] = store[k] /\ ((k \in present') <=> (k \in present)),
         diskCall'[x].ok
  PROVE  Found(diskCall'[x], store', present')
<1>. DEFINE u == diskCall[x]
            v == diskCall'[x]
<1>1. u \in DiskCallState /\ u.kind \in Backing
  BY DEF DiskInv, DiskTyped, DiskCallState
<1>2. Lowered(u, v) /\ v.ok /\ u.ok /\ v.pc = u.pc
  BY DEF Lowered
<1>3. Placed(u, present) /\ Found(u, store, present)
  BY <1>2 DEF DiskInv, CallsPlaced, CallsFind
<1>4. x \in WorkOn(k) <=> u.kind = k /\ u.pc \in {"backing", "row", "lock", "recv", "erase", "create"}
  BY DEF WorkOn
<1>. HIDE DEF u, v
<1>5. CASE u.kind # k \/ (store'[k] = store[k] /\ ((k \in present') <=> (k \in present)))
  <2>1. store'[u.kind] = store[u.kind] /\ ((u.kind \in present') <=> (u.kind \in present))
    BY <1>1, <1>5
  <2>2. Found(v, store', present')
    BY <1>2, <1>3, <2>1, FindsStill
  <2>. QED
    BY <2>2 DEF v
<1>6. CASE u.kind = k /\ u.pc \notin {"backing", "row", "lock", "recv", "erase", "create"}
  <2>1. Found(u, store', present')
    BY <1>3, <1>6, IdleFinds
  <2>2. Found(v, store', present')
    BY <1>2, <2>1, FindsStill
  <2>. QED
    BY <2>2 DEF v
<1>7. CASE x \in WorkOn(k) /\ ~(store'[k] = store[k] /\ ((k \in present') <=> (k \in present)))
  BY <1>7
<1>. QED
  BY <1>4, <1>5, <1>6, <1>7

\* An upload that a write under the mutex of its disk spares waits for this mutex with a
\* volume, of which it has written nothing.
LEMMA SparedFinds ==
  ASSUME DiskInv, NEW k \in Backing, NEW i \in DiskID,
         NEW x \in DiskCall, x \in WorkOn(k), x \in Spared(k, i),
         diskMu[i] # x, Lowered(diskCall[x], diskCall'[x]), diskCall'[x].ok,
         present' = present, Len(store'[k]) \in Nat
  PROVE  Found(diskCall'[x], store', present')
<1>. DEFINE u == diskCall[x]
            v == diskCall'[x]
<1>1. u \in DiskCallState /\ Placed(u, present) /\ Lowered(u, v) /\ (u.ok => Found(u, store, present))
  BY DEF DiskInv, DiskTyped, CallsPlaced, CallsFind
<1>2. /\ u.kind = k /\ u.pc \in {"backing", "row", "lock", "recv", "erase", "create"}
      /\ u.op = "upload" /\ u.disk = i /\ (k = "ZVOL" \/ u.pc = "recv")
  BY DEF WorkOn, Spared, DiskAt
<1>3. u.pc # "recv"
  BY <1>2 DEF DiskInv, Locked
<1>4. u.ok /\ v.ok
  BY DEF Lowered
<1>. HIDE DEF u, v
<1>5. u.pc = "lock" /\ u.got = 0 /\ k = "ZVOL"
  BY <1>1, <1>2, <1>3 DEF Placed
<1>6. v.pc = "lock" /\ v.got = 0 /\ v.kind = "ZVOL" /\ (v.open => u.open)
  BY <1>1, <1>2, <1>5 DEF Lowered
<1>7. u.open => k \in present
  BY <1>1, <1>2, <1>4 DEF Found
<1>8. Found(v, store', present')
  BY <1>5, <1>6, <1>7 DEF Found
<1>. QED
  BY <1>8 DEF v

\* What was told of a kind of backing stays true while nothing about it changes.
LEMMA TellsStill ==
  ASSUME NEW q \in Backing, ContentAsTold, told'[q] = told[q], store'[q] = store[q],
         (q \in present') <=> (q \in present)
  PROVE  Tells(told'[q], q, store', present')
<1>1. Tells(told[q], q, store, present)
  BY ToldTells
<1>. QED
  BY <1>1 DEF Tells

\* Says changes what was told of one kind of backing.
LEMMA SaysIs ==
  ASSUME DiskTyped, NEW k \in Backing, NEW w \in {"unknown", Blank} \cup DiskImage, NEW n \in 0 .. Wide,
         Says(k, w, n)
  PROVE  /\ told' \in [Backing -> Telling]
         /\ told'[k].what = w /\ told'[k].size = n
         /\ \A q \in Backing \ {k} : told'[q] = told[q]
<1>1. told \in [Backing -> Telling]
  BY DEF DiskTyped
<1>. DEFINE t == [what |-> w, size |-> n]
<1>2. t \in Telling /\ t.what = w /\ t.size = n
  BY DEF Telling
<1>3. told' = [told EXCEPT ![k] = t]
  BY DEF Says
<1>. HIDE DEF t
<1>. QED
  BY <1>1, <1>2, <1>3

\* Who says nothing says the truth.
LEMMA UnknownTells ==
  ASSUME NEW t, t.what = "unknown", t.size = 0, NEW k, NEW cells, Len(cells[k]) \in Nat, NEW there
  PROVE  Tells(t, k, cells, there)
BY DiskAssumption DEF Tells, Blank

\* A step about one kind of backing, k: what has to be seen to. The calls in C go on, and
\* the others are disturbed at most.
LEMMA StepKeeps ==
  ASSUME DiskInv, NEW k \in Backing, NEW C \in SUBSET DiskCall, diskCall' \in [DiskCall -> DiskCallState],
         live' \subseteq DiskID, devType' \in [DiskID -> Backing \cup {"unused"}],
         store' \in [Backing -> Seq(Cell)], \A q \in Backing : Len(store'[q]) <= Wide,
         present' \subseteq Backing, snapshot' \in 0 .. Wide,
         diskMu' \in [DiskID -> DiskCall \cup {"vm", "free"}],
         told' \in [Backing -> Telling],
         guest' \in [disk : DiskID \cup {0}, open : Backing \cup {"none"}, size : 0 .. Wide, up : BOOLEAN],
         GuestPlaced',
         \A q \in Backing \ {k} : /\ store'[q] = store[q] /\ told'[q] = told[q]
                                  /\ (q \in present') <=> (q \in present),
         k \notin present' => store'[k] = << >>,
         Tells(told'[k], k, store', present'),
         \A x \in DiskCall \ C : /\ Lowered(diskCall[x], diskCall'[x])
                                 /\ (diskCall'[x].open /\ diskCall'[x].kind = "FILE") => "FILE" \in present',
         \/ \A x \in WorkOn(k) \ C : diskCall'[x].ok => Found(diskCall'[x], store', present')
         \/ store'[k] = store[k] /\ ((k \in present') <=> (k \in present)),
         \A x \in C : /\ Placed(diskCall'[x], present')
                      /\ diskCall'[x].ok => Found(diskCall'[x], store', present')
                      /\ diskCall'[x].pc = "recv" => diskMu'[diskCall'[x].disk] = x,
         \A i \in DiskID : diskMu[i] \in DiskCall \ C => diskMu'[i] = diskMu[i]
  PROVE  DiskInv'
<1>1. \A x \in DiskCall : Placed(diskCall[x], present)
  BY DEF DiskInv, CallsPlaced
<1>2. DiskTyped'
  BY DEF DiskTyped
<1>3. Absent'
  BY DEF DiskInv, Absent
<1>4. CallsPlaced'
  <2>. SUFFICES ASSUME NEW x \in DiskCall PROVE Placed(diskCall'[x], present')
    BY DEF CallsPlaced
  <2>1. CASE x \in C
    BY <2>1
  <2>2. CASE x \notin C
    BY <1>1, <2>2, PlacedStill
  <2>. QED
    BY <2>1, <2>2
<1>5. Locked'
  <2>. SUFFICES ASSUME NEW x \in DiskCall, diskCall'[x].pc = "recv"
                PROVE  diskMu'[diskCall'[x].disk] = x
    BY DEF Locked
  <2>1. CASE x \in C
    BY <2>1
  <2>2. CASE x \notin C
    <3>1. diskCall[x].pc = "recv" /\ diskCall'[x].disk = diskCall[x].disk
      BY <2>2 DEF Lowered
    <3>2. diskCall[x].disk \in DiskID /\ diskMu[diskCall[x].disk] = x
      BY <1>1, <3>1 DEF Placed, DiskInv, Locked
    <3>. QED
      BY <2>2, <3>1, <3>2
  <2>. QED
    BY <2>1, <2>2
<1>6. CallsFind'
  <2>. SUFFICES ASSUME NEW x \in DiskCall, diskCall'[x].ok
                PROVE  Found(diskCall'[x], store', present')
    BY DEF CallsFind
  <2>1. CASE x \in C
    BY <2>1
  <2>2. CASE x \notin C
    BY <2>2, OthersFind
  <2>. QED
    BY <2>1, <2>2
<1>7. ContentAsTold'
  <2>1. \A q \in Backing : Tells(told'[q], q, store', present')
    BY TellsStill DEF DiskInv
  <2>. QED
    BY <2>1 DEF ContentAsTold, Tells, AllBlank
<1>. QED
  BY <1>2, <1>3, <1>4, <1>5, <1>6, <1>7 DEF DiskInv

\* The same of a call that goes on as r, while the guest goes on as it did.
LEMMA CallStep ==
  ASSUME DiskInv, NEW c \in DiskCall, NEW r \in DiskCallState, NEW D, DiskGoes(c, r, D),
         NEW k \in Backing,
         live' \subseteq DiskID, devType' \in [DiskID -> Backing \cup {"unused"}],
         store' \in [Backing -> Seq(Cell)], \A q \in Backing : Len(store'[q]) <= Wide,
         present' \subseteq Backing, snapshot' \in 0 .. Wide,
         diskMu' \in [DiskID -> DiskCall \cup {"vm", "free"}],
         told' \in [Backing -> Telling], guest' = guest,
         \A q \in Backing \ {k} : /\ store'[q] = store[q] /\ told'[q] = told[q]
                                  /\ (q \in present') <=> (q \in present),
         "FILE" \in present => "FILE" \in present',
         k \notin present' => store'[k] = << >>,
         \/ \A x \in WorkOn(k) \ {c} : diskCall'[x].ok => Found(diskCall'[x], store', present')
         \/ store'[k] = store[k] /\ ((k \in present') <=> (k \in present)),
         Placed(r, present'), r.ok => Found(r, store', present'),
         Tells(told'[k], k, store', present'),
         \A i \in DiskID : diskMu[i] \notin {c, "free"} => diskMu'[i] = diskMu[i],
         r.pc = "recv" => diskMu'[r.disk] = c
  PROVE  DiskInv'
<1>1. /\ diskCall' \in [DiskCall -> DiskCallState] /\ diskCall'[c] = r
      /\ \A x \in DiskCall \ {c} : Lowered(diskCall[x], diskCall'[x])
  BY GoesIs DEF DiskInv
<1>2. \A x \in DiskCall \ {c} : diskCall'[x].open /\ diskCall'[x].kind = "FILE" => "FILE" \in present'
  BY <1>1 DEF DiskInv, CallsPlaced, Lowered, Placed
<1>3. /\ "vm" \notin {c, "free"}
      /\ \A i \in DiskID : diskMu[i] \in DiskCall \ {c} => diskMu'[i] = diskMu[i]
  BY DiskAssumption
<1>4. GuestPlaced'
  <2>1. guest.up => guest.disk \in DiskID /\ diskMu'[guest.disk] = "vm"
    BY <1>3 DEF DiskInv, GuestPlaced
  <2>. QED
    BY <2>1 DEF DiskInv, GuestPlaced
<1>5. guest' \in [disk : DiskID \cup {0}, open : Backing \cup {"none"}, size : 0 .. Wide, up : BOOLEAN]
  BY DEF DiskInv, DiskTyped
<1>6. \A x \in {c} : /\ Placed(diskCall'[x], present')
                     /\ diskCall'[x].ok => Found(diskCall'[x], store', present')
                     /\ diskCall'[x].pc = "recv" => diskMu'[diskCall'[x].disk] = x
  BY <1>1
<1>7. {c} \in SUBSET DiskCall
  OBVIOUS
<1>. QED
  BY <1>1, <1>2, <1>3, <1>4, <1>5, <1>6, <1>7, StepKeeps

\* The same when nothing happens to what is on the disk.
LEMMA CallAside ==
  ASSUME DiskInv, NEW c \in DiskCall, NEW r \in DiskCallState, NEW D, DiskGoes(c, r, D),
         UNCHANGED <<live, devType, store, present, snapshot, guest, told>>,
         diskMu' \in [DiskID -> DiskCall \cup {"vm", "free"}],
         Placed(r, present), r.ok => Found(r, store, present),
         \A i \in DiskID : diskMu[i] \notin {c, "free"} => diskMu'[i] = diskMu[i],
         r.pc = "recv" => diskMu'[r.disk] = c
  PROVE  DiskInv'
<1>1. /\ live \subseteq DiskID /\ devType \in [DiskID -> Backing \cup {"unused"}]
      /\ store \in [Backing -> Seq(Cell)] /\ \A q \in Backing : Len(store[q]) <= Wide
      /\ present \subseteq Backing /\ snapshot \in 0 .. Wide /\ told \in [Backing -> Telling]
  BY DEF DiskInv, DiskTyped
<1>2. "FILE" \in Backing /\ ("FILE" \notin present => store["FILE"] = << >>)
  BY DEF DiskInv, Absent, Backing
<1>3. Tells(told["FILE"], "FILE", store, present)
  BY <1>2, ToldTells DEF DiskInv
<1>. QED
  BY <1>1, <1>2, <1>3, CallStep

\* A call returns and changes nothing else.
LEMMA ReturnAside ==
  ASSUME DiskInv, NEW c \in DiskCall, DiskReturns(c),
         UNCHANGED <<live, devType, store, present, snapshot, guest, told>>, diskMu' = diskMu
  PROVE  DiskInv'
<1>1. NoDiskCall \in DiskCallState /\ NoDiskCall.pc = "idle" /\ Placed(NoDiskCall, present)
      /\ Found(NoDiskCall, store, present)
  BY OverCall
<1>2. diskMu \in [DiskID -> DiskCall \cup {"vm", "free"}]
  BY DEF DiskInv, DiskTyped
<1>3. DiskGoes(c, NoDiskCall, {})
  BY DEF DiskReturns
<1>. QED
  BY <1>1, <1>2, <1>3, CallAside

-----------------------------------------------------------------------------
(* Steps of AddDisk.                                                       *)

LEMMA AddDiskStep ==
  ASSUME DiskInv, NEW c \in DiskCall, NEW k \in Backing, NEW n \in NewSize, AddDisk(c, k, n)
  PROVE  DiskInv'
<1>. DEFINE r == [NoDiskCall EXCEPT !.op = "add", !.pc = "exists", !.kind = k, !.size = n]
<1>1. n \in 0 .. Wide /\ 0 \in 0 .. Wide
  BY DiskAssumption
<1>2. DiskGoes(c, r, {}) /\ UNCHANGED <<live, devType, store, present, snapshot, guest, told, diskMu>>
  BY DEF AddDisk, ids, files
<1>3. r.op = "add" /\ r.pc = "exists" /\ r.size = n /\ r.got = 0 /\ ~r.open
  BY DEF NoDiskCall
<1>4. r \in DiskCallState
  BY <1>1 DEF NoDiskCall, DiskCallState, Backing
<1>. HIDE DEF r
<1>5. Placed(r, present)
  BY <1>1, <1>3 DEF Placed
<1>6. Found(r, store, present)
  BY <1>3, <1>5, IdleFinds
<1>7. diskMu \in [DiskID -> DiskCall \cup {"vm", "free"}]
  BY DEF DiskInv, DiskTyped
<1>. QED
  BY <1>2, <1>3, <1>4, <1>5, <1>6, <1>7, CallAside

LEMMA LeftoverRefusedStep ==
  ASSUME DiskInv, NEW c \in DiskCall, LeftoverRefused(c)
  PROVE  DiskInv'
<1>. DEFINE k == diskCall[c].kind
            others == {x \in WorkOn(k) : diskCall[x].op = "add"}
            r == [diskCall[c] EXCEPT !.pc = "backing", !.ok = others = {}]
<1>1. diskCall[c] \in DiskCallState /\ diskCall[c].pc = "exists" /\ Placed(diskCall[c], present)
  BY DEF DiskInv, DiskTyped, CallsPlaced, LeftoverRefused, DiskAt
<1>2. UNCHANGED <<live, devType, store, present, snapshot, guest, told, diskMu>>
  BY DEF LeftoverRefused, ids, files
<1>3. CASE k \in present
  BY <1>2, <1>3, ReturnAside DEF LeftoverRefused
<1>4. CASE k \notin present
  <2>1. DiskGoes(c, r, others)
    BY <1>4 DEF LeftoverRefused
  <2>2. /\ r \in DiskCallState /\ r.pc = "backing" /\ r.kind = k /\ ~r.open /\ r.op = diskCall[c].op
        /\ r.got = diskCall[c].got /\ r.size = diskCall[c].size
    BY <1>1 DEF DiskCallState, Placed
  <2>. HIDE DEF r
  <2>3. Placed(r, present) /\ Found(r, store, present)
    BY <1>1, <1>4, <2>2 DEF Placed, Found
  <2>4. diskMu \in [DiskID -> DiskCall \cup {"vm", "free"}]
    BY DEF DiskInv, DiskTyped
  <2>. QED
    BY <1>2, <2>1, <2>2, <2>3, <2>4, CallAside
<1>. QED
  BY <1>3, <1>4

\* What a call that makes a file or a volume leaves: those who work on it are disturbed.
LEMMA Disturbed ==
  ASSUME DiskInv, NEW c \in DiskCall, NEW r \in DiskCallState, NEW k, DiskGoes(c, r, WorkOn(k))
  PROVE  \A x \in WorkOn(k) \ {c} : ~diskCall'[x].ok
<1>1. WorkOn(k) \subseteq DiskCall
  BY DEF WorkOn
<1>. QED
  BY <1>1, GoesIs DEF DiskInv

LEMMA AddBackingStep ==
  ASSUME DiskInv, NEW c \in DiskCall, AddBacking(c)
  PROVE  DiskInv'
<1>. DEFINE k == diskCall[c].kind
            n == diskCall[c].size
            r == [diskCall[c] EXCEPT !.pc = "row"]
<1>1. diskCall[c] \in DiskCallState /\ diskCall[c].pc = "backing" /\ Placed(diskCall[c], present)
  BY DEF DiskInv, DiskTyped, CallsPlaced, AddBacking, DiskAt
<1>2. k \in Backing /\ n \in 0 .. Wide
  BY <1>1 DEF DiskCallState
<1>3. UNCHANGED <<live, devType, guest, diskMu>>
  BY DEF AddBacking, ids
<1>4. CASE DiskReturns(c) /\ UNCHANGED <<files, told>>
  BY <1>3, <1>4, ReturnAside DEF files
<1>5. ASSUME MakeBacking(k, n), present' = present \cup {k}, Says(k, "unknown", 0),
             NEW q \in {r, NoDiskCall}, DiskGoes(c, q, WorkOn(k))
      PROVE  DiskInv'
  <2>1. /\ r \in DiskCallState /\ r.pc = "row" /\ r.kind = k /\ ~r.open /\ r.size = n
        /\ r.op = diskCall[c].op /\ r.got = diskCall[c].got /\ r.ok = diskCall[c].ok
    BY <1>1 DEF DiskCallState, Placed
  <2>. HIDE DEF r
  <2>2. Placed(r, present')
    BY <1>1, <2>1 DEF Placed
  <2>3. r.ok => store[k] = << >>
    BY <1>1, <1>2, <2>1 DEF DiskInv, CallsFind, Found, Absent
  <2>. HIDE DEF k, n
  <2>4. DiskTyped
    BY DEF DiskInv
  <2>5. /\ store' \in [Backing -> Seq(Cell)] /\ \A b \in Backing : Len(store'[b]) <= Wide
        /\ \A b \in Backing \ {k} : store'[b] = store[b]
        /\ snapshot' \in 0 .. Wide
        /\ k = "FILE" => Len(store'[k]) = n
        /\ (k = "ZVOL" \/ store[k] = << >>) => AllBlank(store'[k])
    BY <1>2, <1>5, <2>4, MakeBackingIs
  <2>6. r.ok => Found(r, store', present')
    BY <1>2, <1>5, <2>1, <2>3, <2>5 DEF Found, Backing
  <2>7. q \in DiskCallState /\ Placed(q, present') /\ (q.ok => Found(q, store', present')) /\ q.pc # "recv"
    BY <1>5, <2>1, <2>2, <2>6, OverCall
  <2>8. \A x \in WorkOn(k) \ {c} : ~diskCall'[x].ok
    BY <1>5, <2>7, Disturbed
  <2>9. /\ told' \in [Backing -> Telling] /\ told'[k].what = "unknown" /\ told'[k].size = 0
        /\ \A b \in Backing \ {k} : told'[b] = told[b]
    BY <1>2, <1>5, <2>4, SaysIs, DiskAssumption
  <2>10. Tells(told'[k], k, store', present')
    <3>1. Len(store'[k]) \in Nat
      BY <1>2, <2>5
    <3>. QED
      BY <2>9, <3>1, UnknownTells
  <2>11. /\ live' \subseteq DiskID /\ devType' \in [DiskID -> Backing \cup {"unused"}]
         /\ present' \subseteq Backing /\ diskMu' \in [DiskID -> DiskCall \cup {"vm", "free"}]
    BY <1>2, <1>3, <1>5, <2>4 DEF DiskTyped
  <2>12. k \in present' /\ \A b \in Backing \ {k} : (b \in present') <=> (b \in present)
    BY <1>5
  <2>13. "FILE" \in present => "FILE" \in present'
    BY <1>5
  <2>. QED
    BY <1>2, <1>3, <1>5, <2>5, <2>7, <2>8, <2>9, <2>10, <2>11, <2>12, <2>13, CallStep
<1>6. CASE /\ MakeBacking(k, n) /\ present' = present \cup {k} /\ Says(k, "unknown", 0)
           /\ DiskGoes(c, r, WorkOn(k)) \/ DiskGoes(c, NoDiskCall, WorkOn(k))
  <2>1. CASE DiskGoes(c, r, WorkOn(k))
    BY <1>5, <1>6, <2>1
  <2>2. CASE DiskGoes(c, NoDiskCall, WorkOn(k))
    BY <1>5, <1>6, <2>2
  <2>. QED
    BY <1>6, <2>1, <2>2
<1>. QED
  BY <1>4, <1>6 DEF AddBacking

LEMMA AddRowStep ==
  ASSUME DiskInv, NEW c \in DiskCall, NEW i \in DiskID, AddRow(c, i)
  PROVE  DiskInv'
<1>. DEFINE k == diskCall[c].kind
            n == IF k = "FILE" THEN diskCall[c].size ELSE 0
            w == IF diskCall[c].ok THEN Blank ELSE "unknown"
            m == IF diskCall[c].ok THEN n ELSE 0
            others == {x \in WorkOn(k) : diskCall[x].op = "add"}
<1>1. diskCall[c] \in DiskCallState /\ diskCall[c].pc = "row" /\ DiskTyped
  BY DEF DiskInv, DiskTyped, AddRow, DiskAt
<1>2. k \in Backing /\ n \in 0 .. Wide /\ m \in 0 .. Wide
  BY <1>1, DiskAssumption DEF DiskCallState
<1>3. UNCHANGED <<store, present, snapshot, guest, diskMu>>
  BY DEF AddRow, files
<1>4. CASE DiskReturns(c) /\ UNCHANGED <<ids, told>>
  BY <1>3, <1>4, ReturnAside DEF ids
<1>5. CASE /\ live' = {i} /\ devType' = [devType EXCEPT ![i] = k]
           /\ Says(k, w, m) /\ DiskGoes(c, NoDiskCall, others)
  <2>1. diskCall[c].ok => /\ k \in present /\ AllBlank(store[k])
                          /\ k = "FILE" => Len(store[k]) = n
    BY <1>1 DEF DiskInv, CallsFind, Found
  <2>2. /\ told' \in [Backing -> Telling] /\ told'[k].what = w /\ told'[k].size = m
        /\ \A b \in Backing \ {k} : told'[b] = told[b]
    <3>1. w \in {"unknown", Blank} \cup DiskImage
      OBVIOUS
    <3>. HIDE DEF w, m, n, k
    <3>. QED
      BY <1>1, <1>2, <1>5, <3>1, SaysIs
  <2>3. Tells(told'[k], k, store', present')
    <3>1. CASE ~diskCall[c].ok
      <4>1. w = "unknown" /\ m = 0
        BY <3>1
      <4>. HIDE DEF w, m, n
      <4>2. Len(store'[k]) \in Nat
        BY <1>1, <1>2, <1>3 DEF DiskTyped
      <4>. QED
        BY <2>2, <4>1, <4>2, UnknownTells
    <3>2. CASE diskCall[c].ok
      <4>1. w = Blank /\ m = n /\ w \notin DiskImage /\ store' = store /\ present' = present
        BY <1>3, <3>2, DiskAssumption
      <4>2. AllBlank(store'[k]) /\ k \in present' /\ (k = "FILE" => Len(store'[k]) = n)
        BY <2>1, <3>2, <4>1
      <4>. HIDE DEF w, m, n
      <4>. QED
        BY <2>2, <4>1, <4>2 DEF Tells
    <3>. QED
      BY <3>1, <3>2
  <2>4. /\ NoDiskCall \in DiskCallState /\ NoDiskCall.pc = "idle" /\ Placed(NoDiskCall, present')
        /\ Found(NoDiskCall, store', present')
    BY OverCall
  <2>. HIDE DEF k, n, w, m, others
  <2>5. /\ live' \subseteq DiskID /\ devType' \in [DiskID -> Backing \cup {"unused"}]
        /\ store' \in [Backing -> Seq(Cell)] /\ \A b \in Backing : Len(store'[b]) <= Wide
        /\ present' \subseteq Backing /\ snapshot' \in 0 .. Wide
        /\ diskMu' \in [DiskID -> DiskCall \cup {"vm", "free"}]
    BY <1>1, <1>2, <1>3, <1>5 DEF DiskTyped
  <2>6. k \notin present' => store'[k] = << >>
    BY <1>2, <1>3 DEF DiskInv, Absent
  <2>. QED
    BY <1>2, <1>3, <1>5, <2>2, <2>3, <2>4, <2>5, <2>6, CallStep
<1>. QED
  BY <1>1, <1>4, <1>5 DEF AddRow

-----------------------------------------------------------------------------
(* Steps of UploadDisk.                                                    *)

LEMMA UploadDiskStep ==
  ASSUME DiskInv, NEW c \in DiskCall, NEW i \in DiskID, NEW x \in DiskImage, NEW n \in ImageSize,
         UploadDisk(c, i, x, n)
  PROVE  DiskInv'
<1>. DEFINE place == IF devType[i] = "ZVOL" THEN "size" ELSE "open"
            r == [NoDiskCall EXCEPT !.op = "upload", !.disk = i, !.image = x, !.size = n, !.pc = place]
<1>1. n \in 0 .. Wide /\ 0 \in 0 .. Wide
  BY DiskAssumption
<1>2. DiskGoes(c, r, {}) /\ UNCHANGED <<live, devType, store, present, snapshot, guest, told, diskMu>>
  BY DEF UploadDisk, ids, files
<1>3. place \in {"size", "open"}
  OBVIOUS
<1>. HIDE DEF place
<1>4. r.op = "upload" /\ r.pc = place /\ r.size = n /\ r.got = 0 /\ ~r.open
      /\ r.disk = i /\ r.image = x
  BY DEF NoDiskCall
<1>5. r \in DiskCallState
  BY <1>1, <1>3 DEF NoDiskCall, DiskCallState, Backing
<1>. HIDE DEF r
<1>6. Placed(r, present)
  BY <1>1, <1>3, <1>4 DEF Placed
<1>7. Found(r, store, present)
  BY <1>3, <1>4, <1>6, IdleFinds
<1>8. diskMu \in [DiskID -> DiskCall \cup {"vm", "free"}]
  BY DEF DiskInv, DiskTyped
<1>. QED
  BY <1>2, <1>3, <1>4, <1>5, <1>6, <1>7, <1>8, CallAside

\* A call that only goes to another place.
LEMMA GotoIs ==
  ASSUME DiskTyped, NEW c \in DiskCall, NEW place \in {"open", "recv", "stuck", "create"}, DiskGoto(c, place)
  PROVE  \E r \in DiskCallState :
           /\ DiskGoes(c, r, {}) /\ r.pc = place
           /\ r.op = diskCall[c].op /\ r.disk = diskCall[c].disk /\ r.kind = diskCall[c].kind
           /\ r.size = diskCall[c].size /\ r.image = diskCall[c].image /\ r.got = diskCall[c].got
           /\ r.open = diskCall[c].open /\ r.ok = diskCall[c].ok
<1>. DEFINE r == [diskCall[c] EXCEPT !.pc = place]
<1>1. diskCall[c] \in DiskCallState
  BY DEF DiskTyped
<1>2. /\ r \in DiskCallState /\ r.pc = place
      /\ r.op = diskCall[c].op /\ r.disk = diskCall[c].disk /\ r.kind = diskCall[c].kind
      /\ r.size = diskCall[c].size /\ r.image = diskCall[c].image /\ r.got = diskCall[c].got
      /\ r.open = diskCall[c].open /\ r.ok = diskCall[c].ok
  BY <1>1 DEF DiskCallState
<1>3. DiskGoes(c, r, {})
  BY DEF DiskGoto
<1>. QED
  BY <1>2, <1>3

\* SetSize: the volume keeps its cells, and a blank one stays blank.
LEMMA SetSizeStep ==
  ASSUME DiskInv, NEW c \in DiskCall, SetSize(c)
  PROVE  DiskInv'
<1>1. /\ diskCall[c] \in DiskCallState /\ diskCall[c].pc = "size" /\ Placed(diskCall[c], present)
      /\ DiskTyped
  BY DEF DiskInv, DiskTyped, CallsPlaced, SetSize, DiskAt
<1>2. UNCHANGED <<live, devType, present, snapshot, diskMu, guest, told>>
  BY DEF SetSize, ids
<1>3. CASE DiskReturns(c) /\ UNCHANGED store
  BY <1>2, <1>3, ReturnAside
<1>4. CASE /\ "ZVOL" \in present /\ DiskGoto(c, "open")
           /\ \/ UNCHANGED store
              \/ /\ RoundUp(diskCall[c].size) >= Len(store["ZVOL"])
                 /\ store' = [store EXCEPT !["ZVOL"] = Resized(@, RoundUp(diskCall[c].size))]
  <2>. DEFINE n == RoundUp(diskCall[c].size)
  <2>1. /\ store["ZVOL"] \in Seq(Cell) /\ store \in [Backing -> Seq(Cell)] /\ "ZVOL" \in Backing
        /\ \A q \in Backing : Len(store[q]) <= Wide
    BY <1>1 DEF DiskTyped, Backing
  <2>2. diskCall[c].size \in Nat
    BY <1>1, DiskAssumption DEF DiskCallState
  <2>3. n \in 0 .. Wide /\ n \in Nat
    BY <2>2, RoundUpIs, DiskAssumption
  <2>. HIDE DEF n
  <2>4. /\ Resized(store["ZVOL"], n) \in Seq(Cell) /\ Len(Resized(store["ZVOL"], n)) = n
        /\ \A j \in 1 .. n : Resized(store["ZVOL"], n)[j] = IF j <= Len(store["ZVOL"]) THEN store["ZVOL"][j] ELSE Blank
    BY <2>1, <2>3, ResizedIs
  <2>5. /\ store' \in [Backing -> Seq(Cell)] /\ \A q \in Backing : Len(store'[q]) <= Wide
        /\ \A q \in Backing \ {"ZVOL"} : store'[q] = store[q]
        /\ Len(store["ZVOL"]) <= Len(store'["ZVOL"])
        /\ \A j \in 1 .. Len(store'["ZVOL"]) :
             store'["ZVOL"][j] = IF j <= Len(store["ZVOL"]) THEN store["ZVOL"][j] ELSE Blank
    <3>1. CASE UNCHANGED store
      BY <2>1, <3>1
    <3>2. CASE n >= Len(store["ZVOL"]) /\ store' = [store EXCEPT !["ZVOL"] = Resized(store["ZVOL"], n)]
      <4>1. store'["ZVOL"] = Resized(store["ZVOL"], n) /\ \A q \in Backing \ {"ZVOL"} : store'[q] = store[q]
        BY <2>1, <3>2
      <4>2. store' \in [Backing -> Seq(Cell)]
        BY <2>1, <2>4, <3>2
      <4>. QED
        BY <2>1, <2>3, <2>4, <3>2, <4>1, <4>2
    <3>. QED
      BY <1>4, <3>1, <3>2 DEF n
  <2>6. PICK r \in DiskCallState :
          /\ DiskGoes(c, r, {}) /\ r.pc = "open"
          /\ r.op = diskCall[c].op /\ r.disk = diskCall[c].disk /\ r.kind = diskCall[c].kind
          /\ r.size = diskCall[c].size /\ r.image = diskCall[c].image /\ r.got = diskCall[c].got
          /\ r.open = diskCall[c].open /\ r.ok = diskCall[c].ok
    BY <1>1, <1>4, GotoIs
  <2>7. Placed(r, present') /\ Placed(r, present)
    BY <1>1, <1>2, <2>6 DEF Placed
  <2>8. Found(r, store', present')
    BY <2>6, <2>7, IdleFinds
  <2>9. AllBlank(store["ZVOL"]) => AllBlank(store'["ZVOL"])
    BY <2>1, <2>5 DEF AllBlank
  <2>10. ASSUME NEW x \in WorkOn("ZVOL") \ {c}, diskCall'[x].ok
         PROVE  Found(diskCall'[x], store', present')
    <3>1. x \in DiskCall /\ diskCall[x].kind = "ZVOL"
      BY DEF WorkOn
    <3>2. Lowered(diskCall[x], diskCall'[x])
      BY <1>1, <2>6, <3>1, GoesIs
    <3>3. diskCall[x] \in DiskCallState /\ Found(diskCall[x], store, present)
      BY <1>1, <2>10, <3>1, <3>2 DEF DiskInv, CallsFind, Lowered, DiskTyped
    <3>4. diskCall[x].got \in Nat
      BY <3>3, DiskAssumption DEF DiskCallState
    <3>5. Found(diskCall[x], store', present)
      BY <2>1, <2>5, <2>9, <3>1, <3>3, <3>4 DEF Found
    <3>. QED
      BY <1>2, <3>2, <3>5, FindsStill
  <2>11. Tells(told'["ZVOL"], "ZVOL", store', present')
    <3>1. Tells(told["ZVOL"], "ZVOL", store, present) /\ told["ZVOL"] \in Telling
      BY <1>1, <2>1, ToldTells DEF DiskInv, DiskTyped
    <3>2. told["ZVOL"].size \in Nat
      BY <3>1, DiskAssumption DEF Telling
    <3>3. PICK t \in Telling : t = told["ZVOL"] /\ t = told'["ZVOL"]
      BY <1>2, <3>1
    <3>4. t.what # "unknown" => "ZVOL" \in present'
      BY <1>2, <3>1, <3>3 DEF Tells
    <3>5. t.what = Blank => AllBlank(store'["ZVOL"])
      BY <2>9, <3>1, <3>3 DEF Tells
    <3>6. ASSUME t.what \in DiskImage
          PROVE  Len(store'["ZVOL"]) >= t.size /\ \A j \in 1 .. t.size : store'["ZVOL"][j] = t.what
      <4>. DEFINE now == Len(store["ZVOL"])
                  then == Len(store'["ZVOL"])
      <4>1. t.size <= now /\ \A j \in 1 .. t.size : store["ZVOL"][j] = t.what
        BY <3>1, <3>3, <3>6 DEF Tells
      <4>2. now \in Nat /\ then \in Nat /\ now <= then /\ t.size \in Nat
        BY <2>1, <2>5, <3>2, <3>3 DEF Backing
      <4>3. \A j \in 1 .. then : store'["ZVOL"][j] = IF j <= now THEN store["ZVOL"][j] ELSE Blank
        BY <2>5
      <4>. HIDE DEF now, then
      <4>4. t.size <= then /\ \A j \in 1 .. t.size : j \in 1 .. then /\ j <= now
        BY <4>1, <4>2
      <4>5. \A j \in 1 .. t.size : store'["ZVOL"][j] = t.what
        BY <4>1, <4>3, <4>4
      <4>. QED
        BY <4>4, <4>5 DEF then
    <3>. QED
      BY <3>3, <3>4, <3>5, <3>6 DEF Tells
  <2>12. /\ live' \subseteq DiskID /\ devType' \in [DiskID -> Backing \cup {"unused"}]
         /\ present' \subseteq Backing /\ snapshot' \in 0 .. Wide
         /\ diskMu' \in [DiskID -> DiskCall \cup {"vm", "free"}] /\ told' \in [Backing -> Telling]
    BY <1>1, <1>2 DEF DiskTyped
  <2>. QED
    BY <1>2, <1>4, <2>1, <2>5, <2>6, <2>7, <2>8, <2>10, <2>11, <2>12, CallStep
<1>. QED
  BY <1>3, <1>4 DEF SetSize

LEMMA UploadOpenStep ==
  ASSUME DiskInv, NEW c \in DiskCall, UploadOpen(c)
  PROVE  DiskInv'
<1>. DEFINE k == devType[diskCall[c].disk]
            r == [diskCall[c] EXCEPT !.pc = "lock", !.kind = k, !.open = TRUE]
<1>1. /\ diskCall[c] \in DiskCallState /\ diskCall[c].pc = "open" /\ Placed(diskCall[c], present)
      /\ DiskTyped
  BY DEF DiskInv, DiskTyped, CallsPlaced, UploadOpen, DiskAt
<1>2. UNCHANGED <<live, devType, snapshot, diskMu, guest>>
  BY DEF UploadOpen, ids
<1>3. CASE DiskReturns(c) /\ UNCHANGED <<store, present, told>>
  BY <1>2, <1>3, ReturnAside
<1>4. ASSUME k \in Backing
      PROVE  /\ r \in DiskCallState /\ r.pc = "lock" /\ r.kind = k /\ r.got = 0
             /\ \A there : k \in there => Placed(r, there)
  <2>1. /\ r \in DiskCallState /\ r.pc = "lock" /\ r.kind = k /\ r.op = diskCall[c].op
        /\ r.disk = diskCall[c].disk /\ r.got = diskCall[c].got /\ r.size = diskCall[c].size
        /\ r.image = diskCall[c].image
    BY <1>1, <1>4 DEF DiskCallState
  <2>. HIDE DEF r, k
  <2>. QED
    BY <1>1, <2>1 DEF Placed
<1>5. CASE /\ k = "FILE" /\ store' = [store EXCEPT ![k] = << >>] /\ present' = present \cup {k}
           /\ Says(k, "unknown", 0) /\ DiskGoes(c, r, WorkOn(k))
  <2>1. k \in Backing
    BY <1>5 DEF Backing
  <2>2. r \in DiskCallState /\ r.pc = "lock" /\ r.kind = k /\ r.got = 0 /\ Placed(r, present')
    BY <1>4, <1>5, <2>1
  <2>. HIDE DEF r, k
  <2>3. /\ store \in [Backing -> Seq(Cell)] /\ \A b \in Backing : Len(store[b]) <= Wide
        /\ << >> \in Seq(Cell) /\ Len(<< >>) <= Wide
    BY <1>1, DiskAssumption DEF DiskTyped
  <2>4. /\ store'[k] = << >> /\ \A b \in Backing \ {k} : store'[b] = store[b]
        /\ store' \in [Backing -> Seq(Cell)] /\ \A b \in Backing : Len(store'[b]) <= Wide
    BY <1>5, <2>1, <2>3
  <2>5. Found(r, store', present')
    BY <1>5, <2>2, <2>4 DEF Found
  <2>6. \A x \in WorkOn(k) \ {c} : ~diskCall'[x].ok
    BY <1>5, <2>2, Disturbed
  <2>7. /\ told' \in [Backing -> Telling] /\ told'[k].what = "unknown" /\ told'[k].size = 0
        /\ \A b \in Backing \ {k} : told'[b] = told[b]
    <3>1. Says(k, "unknown", 0) /\ 0 \in 0 .. Wide
      BY <1>5, DiskAssumption
    <3>. QED
      BY <1>1, <2>1, <3>1, SaysIs
  <2>8. Tells(told'[k], k, store', present')
    BY <2>4, <2>7, UnknownTells
  <2>9. /\ live' \subseteq DiskID /\ devType' \in [DiskID -> Backing \cup {"unused"}]
        /\ present' \subseteq Backing /\ snapshot' \in 0 .. Wide
        /\ diskMu' \in [DiskID -> DiskCall \cup {"vm", "free"}]
    BY <1>1, <1>2, <1>5, <2>1 DEF DiskTyped
  <2>10. /\ k \in present' /\ \A b \in Backing \ {k} : (b \in present') <=> (b \in present)
         /\ "FILE" \in present => "FILE" \in present'
    BY <1>5
  <2>. QED
    BY <1>2, <1>5, <2>1, <2>2, <2>4, <2>5, <2>6, <2>7, <2>8, <2>9, <2>10, CallStep
<1>6. CASE k = "ZVOL" /\ k \in present /\ DiskGoes(c, r, {}) /\ UNCHANGED <<store, present, told>>
  <2>1. k \in Backing
    BY <1>6 DEF Backing
  <2>2. r \in DiskCallState /\ r.pc = "lock" /\ r.kind = k /\ r.got = 0 /\ Placed(r, present)
    BY <1>4, <1>6, <2>1
  <2>. HIDE DEF r, k
  <2>3. Len(store[k]) \in Nat
    BY <1>1, <2>1 DEF DiskTyped
  <2>4. Found(r, store, present)
    BY <1>6, <2>2, <2>3 DEF Found
  <2>5. diskMu' \in [DiskID -> DiskCall \cup {"vm", "free"}]
    BY <1>1, <1>2 DEF DiskTyped
  <2>. QED
    BY <1>2, <1>6, <2>2, <2>4, <2>5, CallAside
<1>. QED
  BY <1>3, <1>5, <1>6 DEF UploadOpen

LEMMA UploadLocksStep ==
  ASSUME DiskInv, NEW c \in DiskCall, UploadLocks(c)
  PROVE  DiskInv'
<1>. DEFINE i == diskCall[c].disk
<1>1. /\ diskCall[c] \in DiskCallState /\ diskCall[c].pc = "lock" /\ Placed(diskCall[c], present)
      /\ diskCall[c].ok => Found(diskCall[c], store, present)
      /\ DiskTyped
  BY DEF DiskInv, DiskTyped, CallsPlaced, CallsFind, UploadLocks, DiskAt
<1>2. PICK r \in DiskCallState :
        /\ DiskGoes(c, r, {}) /\ r.pc = "recv"
        /\ r.op = diskCall[c].op /\ r.disk = diskCall[c].disk /\ r.kind = diskCall[c].kind
        /\ r.size = diskCall[c].size /\ r.image = diskCall[c].image /\ r.got = diskCall[c].got
        /\ r.open = diskCall[c].open /\ r.ok = diskCall[c].ok
  BY <1>1, GotoIs DEF UploadLocks
<1>3. Placed(r, present)
  BY <1>1, <1>2 DEF Placed
<1>4. r.ok => Found(r, store, present)
  BY <1>1, <1>2 DEF Found
<1>5. i \in DiskID
  BY <1>1 DEF Placed
<1>6. /\ UNCHANGED <<live, devType, store, present, snapshot, guest, told>>
      /\ diskMu[i] = "free" /\ diskMu' = [diskMu EXCEPT ![i] = c]
  BY DEF UploadLocks, ids, files
<1>7. /\ diskMu' \in [DiskID -> DiskCall \cup {"vm", "free"}] /\ diskMu'[i] = c
      /\ \A j \in DiskID : diskMu[j] \notin {c, "free"} => diskMu'[j] = diskMu[j]
  BY <1>1, <1>5, <1>6 DEF DiskTyped
<1>. QED
  BY <1>2, <1>3, <1>4, <1>6, <1>7, CallAside

\* An upload that is not disturbed has written the cells of its image up to where it is.
LEMMA ReceiveStep ==
  ASSUME DiskInv, NEW c \in DiskCall, Receive(c)
  PROVE  DiskInv'
<1>. DEFINE k == diskCall[c].kind
            i == diskCall[c].disk
            n == diskCall[c].got + 1
            r == [diskCall[c] EXCEPT !.got = n]
            others == WorkOn(k) \ Spared(k, i)
<1>1. /\ diskCall[c] \in DiskCallState /\ diskCall[c].pc = "recv" /\ Placed(diskCall[c], present)
      /\ diskCall[c].ok => Found(diskCall[c], store, present)
      /\ DiskTyped /\ n <= diskCall[c].size
  BY DEF DiskInv, DiskTyped, CallsPlaced, CallsFind, Receive, DiskAt
<1>2. UNCHANGED <<live, devType, present, snapshot, diskMu, guest>>
  BY DEF Receive, ids
<1>3. k \in Backing /\ n \in 1 .. Wide /\ diskCall[c].got \in Nat /\ diskCall[c].image \in Cell
  BY <1>1, DiskAssumption DEF DiskCallState, Cell
<1>4. /\ r \in DiskCallState /\ r.pc = "recv" /\ r.kind = k /\ r.got = n /\ r.disk = i
      /\ r.op = diskCall[c].op /\ r.size = diskCall[c].size /\ r.image = diskCall[c].image
      /\ r.open = diskCall[c].open /\ r.ok = diskCall[c].ok
  BY <1>1, <1>3, DiskAssumption DEF DiskCallState
<1>5. i \in DiskID /\ diskMu[i] = c
  BY <1>1 DEF Placed, DiskInv, Locked
<1>. HIDE DEF r
<1>6. Placed(r, present)
  BY <1>1, <1>4 DEF Placed
<1>7. diskMu \in [DiskID -> DiskCall \cup {"vm", "free"}]
  BY <1>1 DEF DiskTyped
<1>8. CASE ~diskCall[c].open
  <2>1. DiskGoes(c, r, {}) /\ UNCHANGED <<store, told>>
    BY <1>8 DEF Receive, r
  <2>2. Found(r, store, present)
    BY <1>4, <1>8 DEF Found
  <2>. QED
    BY <1>2, <1>4, <1>5, <1>6, <1>7, <2>1, <2>2, CallAside
<1>9. CASE diskCall[c].open
  <2>1. /\ k = "ZVOL" => n <= Len(store[k])
        /\ store' = [store EXCEPT ![k] = WrittenAt(@, n, diskCall[c].image)]
        /\ Says(k, "unknown", 0) /\ DiskGoes(c, r, others)
    BY <1>9 DEF Receive, r
  <2>2. /\ k = "FILE" => k \in present
        /\ diskCall[c].ok => /\ k \in present /\ diskCall[c].got <= Len(store[k])
                             /\ \A j \in 1 .. diskCall[c].got : store[k][j] = diskCall[c].image
                             /\ k = "FILE" => Len(store[k]) = diskCall[c].got
    BY <1>1, <1>9 DEF Placed, Found
  <2>3. DiskTyped /\ diskCall[c].image \in Cell /\ n \in 1 .. Wide /\ k \in Backing
    BY <1>1, <1>3
  <2>4. store[k] \in Seq(Cell) /\ (k = "ZVOL" => k \in present)
    <3>1. store[k] \in Seq(Cell) /\ (k \notin present => store[k] = << >>)
      BY <1>3, <2>3 DEF DiskTyped, DiskInv, Absent
    <3>. QED
      BY <1>3, <2>1, <3>1
  <2>. HIDE DEF k, n, i
  <2>5. /\ store' \in [Backing -> Seq(Cell)] /\ \A q \in Backing : Len(store'[q]) <= Wide
        /\ \A q \in Backing \ {k} : store'[q] = store[q]
        /\ Len(store'[k]) = IF Len(store[k]) < n THEN n ELSE Len(store[k])
        /\ store'[k][n] = diskCall[c].image
        /\ \A j \in 1 .. Len(store[k]) : j # n => store'[k][j] = store[k][j]
    BY <2>1, <2>3, CellWritten
  <2>6. k \in present
    BY <2>2, <2>3, <2>4 DEF Backing
  <2>7. r.ok => Found(r, store', present)
    <3>. SUFFICES ASSUME r.ok PROVE Found(r, store', present)
      OBVIOUS
    <3>1. /\ n - 1 <= Len(store[k]) /\ \A j \in 1 .. n - 1 : store[k][j] = diskCall[c].image
          /\ k = "FILE" => Len(store[k]) = n - 1
      BY <1>3, <1>4, <2>2 DEF n
    <3>2. Len(store[k]) \in Nat /\ n \in Nat \ {0}
      BY <2>3, <2>4, DiskAssumption
    <3>3. n <= Len(store'[k]) /\ (k = "FILE" => Len(store'[k]) = n)
      BY <2>5, <3>1, <3>2
    <3>4. ASSUME NEW j \in 1 .. n PROVE store'[k][j] = diskCall[c].image
      <4>1. CASE j = n
        BY <2>5, <4>1
      <4>2. CASE j # n
        <5>1. j \in 1 .. n - 1 /\ j \in 1 .. Len(store[k])
          BY <3>1, <3>2, <4>2
        <5>. QED
          BY <2>5, <3>1, <4>2, <5>1
      <4>. QED
        BY <4>1, <4>2
    <3>. QED
      BY <1>4, <2>6, <3>3, <3>4 DEF Found
  <2>8. ASSUME NEW x \in WorkOn(k) \ {c}, diskCall'[x].ok
        PROVE  Found(diskCall'[x], store', present')
    <3>1. x \in DiskCall
      BY DEF WorkOn
    <3>2. Lowered(diskCall[x], diskCall'[x]) /\ x \notin others
      BY <1>4, <2>1, <2>3, <2>8, <3>1, GoesIs
    <3>3. x \in Spared(k, i)
      BY <3>2
    <3>4. Len(store'[k]) \in Nat
      BY <2>3, <2>5
    <3>. QED
      BY <1>2, <1>5, <2>3, <2>8, <3>1, <3>2, <3>3, <3>4, SparedFinds
  <2>9. /\ told' \in [Backing -> Telling] /\ told'[k].what = "unknown" /\ told'[k].size = 0
        /\ \A b \in Backing \ {k} : told'[b] = told[b]
    BY <2>1, <2>3, SaysIs, DiskAssumption
  <2>10. Tells(told'[k], k, store', present')
    <3>1. Len(store'[k]) \in Nat
      BY <2>3, <2>5
    <3>. QED
      BY <2>9, <3>1, UnknownTells
  <2>11. /\ live' \subseteq DiskID /\ devType' \in [DiskID -> Backing \cup {"unused"}]
         /\ present' \subseteq Backing /\ snapshot' \in 0 .. Wide
    BY <1>2, <2>3 DEF DiskTyped
  <2>. HIDE DEF others
  <2>12. /\ DiskGoes(c, r, others) /\ r \in DiskCallState /\ Placed(r, present')
         /\ r.ok => Found(r, store', present')
    BY <1>2, <1>4, <1>6, <2>1, <2>7
  <2>13. /\ diskMu' \in [DiskID -> DiskCall \cup {"vm", "free"}] /\ guest' = guest
         /\ k \in present' /\ \A q \in Backing \ {k} : (q \in present') <=> (q \in present)
         /\ "FILE" \in present => "FILE" \in present'
         /\ diskMu' = diskMu /\ diskMu'[r.disk] = c
    BY <1>2, <1>4, <1>5, <1>7, <2>6
  <2>. QED
    BY <2>3, <2>5, <2>8, <2>9, <2>10, <2>11, <2>12, <2>13, CallStep
<1>. QED
  BY <1>8, <1>9

\* A call returns after it has said w of a kind of backing, and may give its mutex back.
LEMMA ReturnSays ==
  ASSUME DiskInv, NEW c \in DiskCall, DiskReturns(c), NEW k \in Backing,
         UNCHANGED <<live, devType, store, present, snapshot, guest>>,
         diskMu' \in [DiskID -> DiskCall \cup {"vm", "free"}],
         \A i \in DiskID : diskMu[i] \notin {c, "free"} => diskMu'[i] = diskMu[i],
         NEW w \in {"unknown", Blank} \cup DiskImage, NEW n \in 0 .. Wide, Says(k, w, n),
         Tells([what |-> w, size |-> n], k, store, present)
  PROVE  DiskInv'
<1>1. /\ NoDiskCall \in DiskCallState /\ NoDiskCall.pc = "idle" /\ Placed(NoDiskCall, present)
      /\ Found(NoDiskCall, store, present)
  BY OverCall
<1>2. /\ DiskTyped /\ live \subseteq DiskID /\ devType \in [DiskID -> Backing \cup {"unused"}]
      /\ store \in [Backing -> Seq(Cell)] /\ \A q \in Backing : Len(store[q]) <= Wide
      /\ present \subseteq Backing /\ snapshot \in 0 .. Wide
      /\ k \notin present => store[k] = << >>
  BY DEF DiskInv, DiskTyped, Absent
<1>3. /\ told' \in [Backing -> Telling] /\ told'[k].what = w /\ told'[k].size = n
      /\ \A q \in Backing \ {k} : told'[q] = told[q]
  BY <1>2, SaysIs
<1>4. Tells(told'[k], k, store, present)
  BY <1>3 DEF Tells
<1>5. DiskGoes(c, NoDiskCall, {})
  BY DEF DiskReturns
<1>. QED
  BY <1>1, <1>2, <1>3, <1>4, <1>5, CallStep

\* UnlockAfter gives back no mutex but the one of c.
LEMMA UnlockIs ==
  ASSUME DiskTyped, NEW c \in DiskCall, UnlockAfter(c)
  PROVE  /\ diskMu' \in [DiskID -> DiskCall \cup {"vm", "free"}]
         /\ \A i \in DiskID : diskMu[i] \notin {c, "free"} => diskMu'[i] = diskMu[i]
BY DEF DiskTyped, UnlockAfter

LEMMA UploadEndStep ==
  ASSUME DiskInv, NEW c \in DiskCall, UploadDone(c) \/ UploadBreaks(c)
  PROVE  DiskInv'
<1>. DEFINE u == diskCall[c]
            w == IF UploadDone(c) /\ u.ok /\ u.open THEN u.image ELSE "unknown"
            n == IF UploadDone(c) /\ u.ok /\ u.open THEN u.size ELSE 0
<1>1. /\ u \in DiskCallState /\ u.pc = "recv" /\ Placed(u, present)
      /\ u.ok => Found(u, store, present)
      /\ DiskTyped
  BY DEF DiskInv, DiskTyped, CallsPlaced, CallsFind, UploadDone, UploadBreaks, DiskAt
<1>2. /\ u.kind \in Backing /\ u.image \in DiskImage /\ u.size \in 0 .. Wide /\ 0 \in 0 .. Wide
      /\ UploadDone(c) => u.got = u.size
  BY <1>1, DiskAssumption DEF DiskCallState, Placed, UploadDone
<1>3. /\ UNCHANGED <<live, devType, store, present, snapshot, guest>>
      /\ Says(u.kind, w, n) /\ UnlockAfter(c) /\ DiskReturns(c)
  BY DEF UploadDone, UploadBreaks, ids, files
<1>4. w \in {"unknown", Blank} \cup DiskImage /\ n \in 0 .. Wide
  BY <1>2
<1>5. Tells([what |-> w, size |-> n], u.kind, store, present)
  <2>1. Len(store[u.kind]) \in Nat
    BY <1>1, <1>2 DEF DiskTyped
  <2>2. CASE UploadDone(c) /\ u.ok /\ u.open
    BY <1>1, <1>2, <2>1, <2>2, DiskAssumption DEF Found, Tells
  <2>3. CASE ~(UploadDone(c) /\ u.ok /\ u.open)
    BY <2>1, <2>3, DiskAssumption DEF Tells, Blank
  <2>. QED
    BY <2>2, <2>3
<1>6. /\ diskMu' \in [DiskID -> DiskCall \cup {"vm", "free"}]
      /\ \A i \in DiskID : diskMu[i] \notin {c, "free"} => diskMu'[i] = diskMu[i]
  BY <1>1, <1>3, UnlockIs
<1>. HIDE DEF u, w, n
<1>. QED
  BY <1>2, <1>3, <1>4, <1>5, <1>6, ReturnSays

-----------------------------------------------------------------------------
(* Steps of WipeDisk and diskWipe.                                         *)

LEMMA WipeDiskStep ==
  ASSUME DiskInv, NEW c \in DiskCall, NEW i \in DiskID, WipeDisk(c, i)
  PROVE  DiskInv'
<1>. DEFINE r == [NoDiskCall EXCEPT !.op = "wipe", !.pc = "queued", !.disk = i]
<1>1. 0 \in 0 .. Wide
  BY DiskAssumption
<1>2. DiskGoes(c, r, {}) /\ UNCHANGED <<live, devType, store, present, snapshot, guest, told, diskMu>>
  BY DEF WipeDisk, ids, files
<1>3. r.op = "wipe" /\ r.pc = "queued" /\ r.size = 0 /\ r.got = 0 /\ ~r.open
  BY DEF NoDiskCall
<1>4. r \in DiskCallState
  BY <1>1 DEF NoDiskCall, DiskCallState, Backing
<1>. HIDE DEF r
<1>5. Placed(r, present)
  BY <1>3 DEF Placed
<1>6. Found(r, store, present)
  BY <1>3, <1>5, IdleFinds
<1>7. diskMu \in [DiskID -> DiskCall \cup {"vm", "free"}]
  BY DEF DiskInv, DiskTyped
<1>. QED
  BY <1>2, <1>3, <1>4, <1>5, <1>6, <1>7, CallAside

LEMMA WipeBeginsStep ==
  ASSUME DiskInv, NEW c \in DiskCall, WipeBegins(c)
  PROVE  DiskInv'
<1>. DEFINE k == devType[diskCall[c].disk]
            r == [diskCall[c] EXCEPT !.pc = "erase", !.kind = k, !.ok = TRUE, !.size = Len(store[k])]
<1>1. /\ diskCall[c] \in DiskCallState /\ diskCall[c].pc = "queued" /\ Placed(diskCall[c], present)
      /\ DiskTyped /\ diskMu \in [DiskID -> DiskCall \cup {"vm", "free"}]
  BY DEF DiskInv, DiskTyped, CallsPlaced, WipeBegins, DiskAt
<1>2. UNCHANGED <<live, devType, store, present, snapshot, guest, told, diskMu>>
  BY DEF WipeBegins, ids, files
<1>3. CASE DiskReturns(c)
  BY <1>2, <1>3, ReturnAside
<1>4. CASE k \in present /\ DiskGoes(c, r, {})
  <2>1. k \in Backing /\ Len(store[k]) \in 0 .. Wide
    BY <1>1, <1>4, DiskAssumption DEF DiskTyped
  <2>2. /\ r \in DiskCallState /\ r.pc = "erase" /\ r.op = diskCall[c].op /\ r.disk = diskCall[c].disk
        /\ r.got = diskCall[c].got /\ r.open = diskCall[c].open /\ r.image = diskCall[c].image
        /\ r.size = Len(store[k])
    BY <1>1, <2>1 DEF DiskCallState
  <2>. HIDE DEF r, k
  <2>3. Placed(r, present)
    BY <1>1, <2>1, <2>2, DiskAssumption DEF Placed
  <2>4. Found(r, store, present)
    BY <2>2, <2>3, IdleFinds
  <2>. QED
    BY <1>1, <1>2, <1>4, <2>2, <2>3, <2>4, CallAside
<1>5. CASE DiskGoto(c, "stuck")
  <2>1. PICK r2 \in DiskCallState :
          /\ DiskGoes(c, r2, {}) /\ r2.pc = "stuck"
          /\ r2.op = diskCall[c].op /\ r2.disk = diskCall[c].disk /\ r2.kind = diskCall[c].kind
          /\ r2.size = diskCall[c].size /\ r2.image = diskCall[c].image /\ r2.got = diskCall[c].got
          /\ r2.open = diskCall[c].open /\ r2.ok = diskCall[c].ok
    BY <1>1, <1>5, GotoIs
  <2>2. Placed(r2, present)
    BY <1>1, <2>1 DEF Placed
  <2>3. Found(r2, store, present)
    BY <2>1, <2>2, IdleFinds
  <2>. QED
    BY <1>1, <1>2, <2>1, <2>2, <2>3, CallAside
<1>. QED
  BY <1>3, <1>4, <1>5 DEF WipeBegins

\* A call that is disturbed at most, and whose file is closed at most.
LEMMA LoweredIs ==
  ASSUME NEW u \in DiskCallState, NEW a \in BOOLEAN, NEW b \in BOOLEAN, NEW v,
         v = [u EXCEPT !.ok = v.ok, !.open = v.open], v.ok = (u.ok /\ a), v.open = (u.open /\ b)
  PROVE  /\ v \in DiskCallState /\ Lowered(u, v) /\ v.kind = u.kind
         /\ (v.ok => a) /\ (v.open => u.open /\ b)
<1>1. (u.ok /\ a) \in BOOLEAN /\ (u.open /\ b) \in BOOLEAN
  OBVIOUS
<1>. QED
  BY <1>1 DEF DiskCallState, Lowered

\* The file is taken away: who works on it is disturbed, and nobody has it open any more.
LEMMA FileGoneKeeps ==
  ASSUME DiskInv, FileGone, NEW C \in SUBSET DiskCall, diskCall' \in [DiskCall -> DiskCallState],
         UNCHANGED <<live, devType, diskMu>>, Says("FILE", "unknown", 0),
         \A x \in DiskCall \ C :
           /\ Lowered(diskCall[x], diskCall'[x])
           /\ x \in WorkOn("FILE") => ~diskCall'[x].ok
           /\ diskCall'[x].kind = "FILE" => ~diskCall'[x].open,
         \A x \in C : /\ Placed(diskCall'[x], present')
                      /\ diskCall'[x].ok => Found(diskCall'[x], store', present')
                      /\ diskCall'[x].pc # "recv"
  PROVE  DiskInv'
<1>1. DiskTyped /\ "FILE" \in Backing /\ 0 \in 0 .. Wide
  BY DiskAssumption DEF DiskInv, Backing
<1>2. /\ store' = [store EXCEPT !["FILE"] = << >>] /\ present' = present \ {"FILE"}
      /\ snapshot' = snapshot
      /\ guest' = [guest EXCEPT !.open = IF @ = "FILE" THEN "none" ELSE @]
  BY DEF FileGone
<1>3. /\ store' \in [Backing -> Seq(Cell)] /\ \A q \in Backing : Len(store'[q]) <= Wide
      /\ store'["FILE"] = << >> /\ \A q \in Backing \ {"FILE"} : store'[q] = store[q]
  BY <1>1, <1>2, DiskAssumption DEF DiskTyped
<1>4. /\ told' \in [Backing -> Telling] /\ told'["FILE"].what = "unknown" /\ told'["FILE"].size = 0
      /\ \A q \in Backing \ {"FILE"} : told'[q] = told[q]
  BY <1>1, SaysIs
<1>5. Tells(told'["FILE"], "FILE", store', present')
  BY <1>3, <1>4, UnknownTells
<1>6. guest' \in [disk : DiskID \cup {0}, open : Backing \cup {"none"}, size : 0 .. Wide, up : BOOLEAN]
  BY <1>1, <1>2 DEF DiskTyped
<1>7. /\ guest'.disk = guest.disk /\ guest'.up = guest.up
      /\ guest'.open \in Backing => guest'.open = guest.open /\ guest'.open # "FILE"
  BY <1>1, <1>2 DEF DiskTyped, Backing
<1>8. GuestPlaced'
  BY <1>7 DEF DiskInv, GuestPlaced
<1>9. /\ live' \subseteq DiskID /\ devType' \in [DiskID -> Backing \cup {"unused"}]
      /\ present' \subseteq Backing /\ snapshot' \in 0 .. Wide
      /\ diskMu' \in [DiskID -> DiskCall \cup {"vm", "free"}] /\ diskMu' = diskMu
      /\ \A q \in Backing \ {"FILE"} : (q \in present') <=> (q \in present)
  BY <1>1, <1>2 DEF DiskTyped
<1>10. WorkOn("FILE") \subseteq DiskCall
  BY DEF WorkOn
<1>11. /\ \A x \in DiskCall \ C : /\ Lowered(diskCall[x], diskCall'[x])
                                  /\ diskCall'[x].open /\ diskCall'[x].kind = "FILE" => "FILE" \in present'
       /\ \A x \in WorkOn("FILE") \ C : diskCall'[x].ok => Found(diskCall'[x], store', present')
       /\ \A x \in C : /\ Placed(diskCall'[x], present')
                       /\ diskCall'[x].ok => Found(diskCall'[x], store', present')
                       /\ diskCall'[x].pc = "recv" => diskMu'[diskCall'[x].disk] = x
  BY <1>10
<1>12. /\ \A q \in Backing \ {"FILE"} : /\ store'[q] = store[q] /\ told'[q] = told[q]
                                        /\ (q \in present') <=> (q \in present)
       /\ "FILE" \notin present' => store'["FILE"] = << >>
       /\ \A i \in DiskID : diskMu[i] \in DiskCall \ C => diskMu'[i] = diskMu[i]
  BY <1>3, <1>4, <1>9
<1>13. /\ store' \in [Backing -> Seq(Cell)] /\ \A q \in Backing : Len(store'[q]) <= Wide
       /\ told' \in [Backing -> Telling]
  BY <1>3, <1>4
<1>. QED
  BY <1>1, <1>5, <1>6, <1>8, <1>9, <1>11, <1>12, <1>13, StepKeeps

\* RemoveBacking of a volume: whatever becomes of it, its cells are blank.
LEMMA VolumeErased ==
  ASSUME DiskInv, NEW c \in DiskCall, diskCall[c].pc = "erase", diskCall[c].kind = "ZVOL",
         NEW ok \in BOOLEAN, DiskGoes(c, [diskCall[c] EXCEPT !.pc = "create", !.ok = @ /\ ok], WorkOn("ZVOL")),
         UNCHANGED <<live, devType, diskMu, guest>>, Says("ZVOL", "unknown", 0),
         NEW n \in 0 .. Wide, store' = [store EXCEPT !["ZVOL"] = Blanks(n)],
         snapshot' \in 0 .. Wide,
         \/ "ZVOL" \in present /\ present' = present
         \/ ~ok /\ present' = present \ {"ZVOL"} /\ n = 0
  PROVE  DiskInv'
<1>. DEFINE r == [diskCall[c] EXCEPT !.pc = "create", !.ok = @ /\ ok]
<1>1. /\ DiskTyped /\ diskCall[c] \in DiskCallState /\ Placed(diskCall[c], present)
      /\ "ZVOL" \in Backing /\ 0 \in 0 .. Wide /\ n \in Nat
  BY DiskAssumption DEF DiskInv, DiskTyped, CallsPlaced, Backing
<1>2. Blanks(n) \in Seq(Cell) /\ Len(Blanks(n)) = n /\ AllBlank(Blanks(n))
  BY <1>1, BlanksAre
<1>3. /\ store' \in [Backing -> Seq(Cell)] /\ \A q \in Backing : Len(store'[q]) <= Wide
      /\ store'["ZVOL"] = Blanks(n) /\ \A q \in Backing \ {"ZVOL"} : store'[q] = store[q]
  <2>1. store \in [Backing -> Seq(Cell)] /\ \A q \in Backing : Len(store[q]) <= Wide
    BY <1>1 DEF DiskTyped
  <2>. QED
    BY <1>1, <1>2, <2>1, DiskAssumption
<1>4. /\ r \in DiskCallState /\ r.pc = "create" /\ r.kind = "ZVOL" /\ r.op = diskCall[c].op
      /\ r.open = diskCall[c].open /\ r.got = diskCall[c].got /\ r.size = diskCall[c].size
      /\ r.ok => ok
  BY <1>1 DEF DiskCallState
<1>. HIDE DEF r
<1>5. Placed(r, present') /\ ~r.open
  BY <1>1, <1>4 DEF Placed
<1>6. r.ok => Found(r, store', present')
  BY <1>2, <1>3, <1>4, <1>5 DEF Found
<1>7. \A x \in WorkOn("ZVOL") \ {c} : ~diskCall'[x].ok
  BY <1>4, Disturbed DEF r
<1>8. /\ told' \in [Backing -> Telling] /\ told'["ZVOL"].what = "unknown" /\ told'["ZVOL"].size = 0
      /\ \A q \in Backing \ {"ZVOL"} : told'[q] = told[q]
  BY <1>1, SaysIs
<1>9. Tells(told'["ZVOL"], "ZVOL", store', present')
  BY <1>1, <1>2, <1>3, <1>8, UnknownTells
<1>10. /\ live' \subseteq DiskID /\ devType' \in [DiskID -> Backing \cup {"unused"}]
       /\ present' \subseteq Backing
       /\ diskMu' \in [DiskID -> DiskCall \cup {"vm", "free"}] /\ diskMu' = diskMu
  BY <1>1 DEF DiskTyped
<1>11. /\ \A q \in Backing \ {"ZVOL"} : /\ store'[q] = store[q] /\ told'[q] = told[q]
                                        /\ (q \in present') <=> (q \in present)
       /\ "FILE" \in present => "FILE" \in present'
       /\ "ZVOL" \notin present' => store'["ZVOL"] = << >>
  BY <1>2, <1>3, <1>8
<1>12. DiskGoes(c, r, WorkOn("ZVOL"))
  BY DEF r
<1>. QED
  BY <1>1, <1>3, <1>4, <1>5, <1>6, <1>7, <1>8, <1>9, <1>10, <1>11, <1>12, CallStep

LEMMA RemoveBackingStep ==
  ASSUME DiskInv, NEW c \in DiskCall, RemoveBacking(c)
  PROVE  DiskInv'
<1>. DEFINE r(ok) == [diskCall[c] EXCEPT !.pc = "create", !.ok = @ /\ ok]
<1>1. /\ DiskTyped /\ diskCall[c] \in DiskCallState /\ Placed(diskCall[c], present)
      /\ diskCall[c].pc = "erase" /\ ~diskCall[c].open
      /\ diskMu \in [DiskID -> DiskCall \cup {"vm", "free"}]
  BY DEF DiskInv, DiskTyped, CallsPlaced, RemoveBacking, DiskAt, Placed
<1>2. UNCHANGED <<live, devType, diskMu>>
  BY DEF RemoveBacking, ids
<1>3. ASSUME NEW ok \in BOOLEAN
      PROVE  /\ r(ok) \in DiskCallState /\ r(ok).pc = "create" /\ r(ok).kind = diskCall[c].kind
             /\ ~r(ok).open /\ (r(ok).ok => ok) /\ \A there : Placed(r(ok), there)
  <2>1. /\ r(ok) \in DiskCallState /\ r(ok).pc = "create" /\ r(ok).kind = diskCall[c].kind
        /\ r(ok).open = diskCall[c].open /\ r(ok).op = diskCall[c].op /\ r(ok).disk = diskCall[c].disk
        /\ r(ok).image = diskCall[c].image /\ r(ok).got = diskCall[c].got
        /\ r(ok).size = diskCall[c].size /\ (r(ok).ok => ok)
    BY <1>1 DEF DiskCallState
  <2>. HIDE DEF r
  <2>. QED
    BY <1>1, <2>1 DEF Placed
<1>4. CASE DiskGoes(c, r(FALSE), {}) /\ UNCHANGED <<files, guest, told>>
  <2>1. r(FALSE) \in DiskCallState /\ r(FALSE).pc = "create" /\ ~r(FALSE).ok /\ Placed(r(FALSE), present)
    BY <1>3
  <2>. HIDE DEF r
  <2>. QED
    BY <1>1, <1>2, <1>4, <2>1, CallAside DEF files
<1>5. CASE /\ diskCall[c].kind = "FILE" /\ FileGone /\ Says("FILE", "unknown", 0)
           /\ diskCall' = [x \in DiskCall |->
                IF x = c THEN r(TRUE)
                ELSE [diskCall[x] EXCEPT !.ok = @ /\ x \notin WorkOn("FILE"),
                                         !.open = @ /\ x \notin OpenFiles]]
  <2>1. /\ r(TRUE) \in DiskCallState /\ r(TRUE).pc = "create" /\ r(TRUE).kind = "FILE"
        /\ ~r(TRUE).open /\ Placed(r(TRUE), present')
    BY <1>3, <1>5
  <2>. HIDE DEF r
  <2>2. Found(r(TRUE), store', present')
    BY <1>5, <2>1 DEF Found, FileGone
  <2>3. ASSUME NEW x \in DiskCall \ {c}
        PROVE  /\ diskCall'[x] \in DiskCallState /\ Lowered(diskCall[x], diskCall'[x])
               /\ x \in WorkOn("FILE") => ~diskCall'[x].ok
               /\ diskCall'[x].kind = "FILE" => ~diskCall'[x].open
    <3>1. PICK u \in DiskCallState : u = diskCall[x]
      BY <1>1 DEF DiskTyped
    <3>2. diskCall'[x] = [u EXCEPT !.ok = u.ok /\ x \notin WorkOn("FILE"), !.open = u.open /\ x \notin OpenFiles]
      BY <1>5, <3>1
    <3>3. u.kind = "FILE" /\ u.open => x \in OpenFiles
      BY <3>1 DEF OpenFiles
    <3>. DEFINE a == x \notin WorkOn("FILE")
                b == x \notin OpenFiles
    <3>4. a \in BOOLEAN /\ b \in BOOLEAN
      OBVIOUS
    <3>5. diskCall'[x] = [u EXCEPT !.ok = u.ok /\ a, !.open = u.open /\ b]
      BY <3>2
    <3>6. (x \in WorkOn("FILE") => ~a) /\ (u.kind = "FILE" /\ u.open => ~b)
      BY <3>3
    <3>. HIDE DEF a, b
    <3>7. /\ diskCall'[x] = [u EXCEPT !.ok = diskCall'[x].ok, !.open = diskCall'[x].open]
          /\ diskCall'[x].ok = (u.ok /\ a) /\ diskCall'[x].open = (u.open /\ b)
      BY <3>5 DEF DiskCallState
    <3>8. /\ diskCall'[x] \in DiskCallState /\ Lowered(u, diskCall'[x]) /\ diskCall'[x].kind = u.kind
          /\ (diskCall'[x].ok => a) /\ (diskCall'[x].open => u.open /\ b)
      BY <3>4, <3>7, LoweredIs
    <3>. QED
      BY <3>1, <3>6, <3>8
  <2>4. diskCall'[c] = r(TRUE)
    BY <1>5
  <2>5. \A x \in DiskCall : diskCall'[x] \in DiskCallState
    BY <2>1, <2>3, <2>4
  <2>6. diskCall' \in [DiskCall -> DiskCallState]
    <3>1. diskCall' = [x \in DiskCall |-> diskCall'[x]]
      BY <1>5
    <3>. QED
      BY <2>5, <3>1
  <2>7. \A x \in {c} : /\ Placed(diskCall'[x], present')
                       /\ diskCall'[x].ok => Found(diskCall'[x], store', present')
                       /\ diskCall'[x].pc # "recv"
    BY <2>1, <2>2, <2>4
  <2>8. {c} \in SUBSET DiskCall /\ FileGone /\ Says("FILE", "unknown", 0)
    BY <1>5
  <2>. QED
    BY <1>2, <2>3, <2>6, <2>7, <2>8, FileGoneKeeps
<1>6. CASE /\ diskCall[c].kind = "ZVOL" /\ "ZVOL" \in present
           /\ \/ /\ store' = [store EXCEPT !["ZVOL"] = Blanks(snapshot)]
                 /\ DiskGoes(c, r(TRUE), WorkOn("ZVOL"))
                 /\ UNCHANGED <<present, snapshot>>
              \/ /\ store' = [store EXCEPT !["ZVOL"] = Blanks(Len(@))]
                 /\ snapshot' \in {0, Len(store["ZVOL"])}
                 /\ DiskGoes(c, r(TRUE), WorkOn("ZVOL"))
                 /\ UNCHANGED present
              \/ /\ store' = [store EXCEPT !["ZVOL"] = << >>] /\ present' = present \ {"ZVOL"}
                 /\ snapshot' = 0
                 /\ DiskGoes(c, r(FALSE), WorkOn("ZVOL"))
           /\ Says("ZVOL", "unknown", 0) /\ UNCHANGED guest
  <2>1. snapshot \in 0 .. Wide /\ Len(store["ZVOL"]) \in 0 .. Wide /\ 0 \in 0 .. Wide
    BY <1>1, DiskAssumption DEF DiskTyped, Backing
  <2>2. CASE store' = [store EXCEPT !["ZVOL"] = Blanks(snapshot)] /\ DiskGoes(c, r(TRUE), WorkOn("ZVOL"))
             /\ UNCHANGED <<present, snapshot>>
    BY <1>1, <1>2, <1>6, <2>1, <2>2, VolumeErased
  <2>3. CASE store' = [store EXCEPT !["ZVOL"] = Blanks(Len(@))] /\ DiskGoes(c, r(TRUE), WorkOn("ZVOL"))
             /\ snapshot' \in {0, Len(store["ZVOL"])} /\ UNCHANGED present
    <3>1. store' = [store EXCEPT !["ZVOL"] = Blanks(Len(store["ZVOL"]))] /\ snapshot' \in 0 .. Wide
      BY <2>1, <2>3
    <3>. QED
      BY <1>1, <1>2, <1>6, <2>1, <2>3, <3>1, VolumeErased
  <2>4. CASE /\ store' = [store EXCEPT !["ZVOL"] = << >>] /\ present' = present \ {"ZVOL"}
             /\ snapshot' = 0 /\ DiskGoes(c, r(FALSE), WorkOn("ZVOL"))
    <3>1. Blanks(0) = << >>
      BY BlanksAre
    <3>. QED
      BY <1>1, <1>2, <1>6, <2>1, <2>4, <3>1, VolumeErased
  <2>. QED
    BY <1>6, <2>2, <2>3, <2>4
<1>. QED
  BY <1>4, <1>5, <1>6 DEF RemoveBacking

\* Recreate: a wipe nobody has disturbed leaves an empty file of the size there was, or an
\* empty volume.
LEMMA RecreateStep ==
  ASSUME DiskInv, NEW c \in DiskCall, Recreate(c)
  PROVE  DiskInv'
<1>. DEFINE w == diskCall[c]
            k == w.kind
            n == w.size
            says == IF k = "FILE" THEN n ELSE 0
<1>1. /\ DiskTyped /\ w \in DiskCallState /\ w.pc = "create" /\ Placed(w, present)
      /\ (w.ok => Found(w, store, present)) /\ ContentAsTold /\ Absent
  BY DEF DiskInv, DiskTyped, CallsPlaced, CallsFind, Recreate, DiskAt
<1>2. k \in Backing /\ n \in 0 .. Wide /\ says \in 0 .. Wide /\ 0 \in 0 .. Wide /\ w.ok \in BOOLEAN
  BY <1>1, DiskAssumption DEF DiskCallState
<1>3. UNCHANGED <<live, devType, guest, diskMu>>
  BY DEF Recreate, ids
<1>4. w.ok => /\ k = "FILE" => k \notin present /\ store[k] = << >>
              /\ k = "ZVOL" => k \in present /\ AllBlank(store[k])
  BY <1>1, <1>2 DEF Found, Absent
<1>5. CASE /\ IF w.ok /\ k = "ZVOL" THEN Says(k, Blank, says) ELSE Says(k, "unknown", 0)
           /\ DiskReturns(c) /\ UNCHANGED files
  <2>. DEFINE what == IF w.ok /\ k = "ZVOL" THEN Blank ELSE "unknown"
  <2>1. Says(k, what, 0) /\ what \in {"unknown", Blank} \cup DiskImage
    BY <1>5, <1>2
  <2>2. Len(store[k]) \in Nat
    BY <1>1, <1>2 DEF DiskTyped
  <2>3. Tells([what |-> what, size |-> 0], k, store, present)
    BY <1>4, <2>2, DiskAssumption DEF Tells, Blank
  <2>. HIDE DEF what, w, k, n, says
  <2>4. UNCHANGED <<live, devType, store, present, snapshot, guest>> /\ DiskReturns(c)
    BY <1>3, <1>5 DEF files
  <2>5. /\ diskMu' \in [DiskID -> DiskCall \cup {"vm", "free"}]
        /\ \A i \in DiskID : diskMu[i] \notin {c, "free"} => diskMu'[i] = diskMu[i]
    BY <1>1, <1>3 DEF DiskTyped
  <2>. QED
    BY <1>2, <2>1, <2>3, <2>4, <2>5, ReturnSays
<1>6. CASE /\ MakeBacking(k, n) /\ present' = present \cup {k}
           /\ IF w.ok THEN Says(k, Blank, says) ELSE Says(k, "unknown", 0)
           /\ DiskGoes(c, NoDiskCall, WorkOn(k))
  <2>. DEFINE what == IF w.ok THEN Blank ELSE "unknown"
              size == IF w.ok THEN says ELSE 0
  <2>1. Says(k, what, size) /\ what \in {"unknown", Blank} \cup DiskImage /\ size \in 0 .. Wide
    BY <1>6, <1>2
  <2>2. /\ store' \in [Backing -> Seq(Cell)] /\ \A b \in Backing : Len(store'[b]) <= Wide
        /\ \A b \in Backing \ {k} : store'[b] = store[b]
        /\ snapshot' \in 0 .. Wide
        /\ k = "FILE" => Len(store'[k]) = n
        /\ (k = "ZVOL" \/ store[k] = << >>) => AllBlank(store'[k])
    BY <1>1, <1>2, <1>6, MakeBackingIs
  <2>3. w.ok => AllBlank(store'[k])
    BY <1>2, <1>4, <2>2 DEF Backing
  <2>. HIDE DEF what, size
  <2>4. /\ told' \in [Backing -> Telling] /\ told'[k].what = what /\ told'[k].size = size
        /\ \A b \in Backing \ {k} : told'[b] = told[b]
    BY <1>1, <1>2, <2>1, SaysIs
  <2>5. Tells(told'[k], k, store', present')
    <3>1. Len(store'[k]) \in Nat /\ k \in present'
      BY <1>2, <1>6, <2>2
    <3>2. CASE w.ok
      BY <1>2, <2>2, <2>3, <2>4, <3>1, <3>2, DiskAssumption DEF Tells, Blank, what, size
    <3>3. CASE ~w.ok
      BY <1>2, <2>4, <3>1, <3>3, UnknownTells DEF what, size
    <3>. QED
      BY <3>2, <3>3
  <2>. HIDE DEF w, k, n, says
  <2>6. /\ NoDiskCall \in DiskCallState /\ NoDiskCall.pc = "idle"
        /\ Placed(NoDiskCall, present') /\ Found(NoDiskCall, store', present')
    BY OverCall
  <2>7. \A x \in WorkOn(k) \ {c} : ~diskCall'[x].ok
    BY <1>6, <2>6, Disturbed
  <2>8. /\ live' \subseteq DiskID /\ devType' \in [DiskID -> Backing \cup {"unused"}]
        /\ present' \subseteq Backing /\ diskMu' \in [DiskID -> DiskCall \cup {"vm", "free"}]
    BY <1>1, <1>2, <1>3, <1>6 DEF DiskTyped
  <2>9. /\ k \in present'
        /\ \A b \in Backing \ {k} : /\ store'[b] = store[b] /\ told'[b] = told[b]
                                    /\ (b \in present') <=> (b \in present)
    BY <1>6, <2>2, <2>4
  <2>10. "FILE" \in present => "FILE" \in present'
    BY <1>6
  <2>. QED
    BY <1>2, <1>3, <1>6, <2>2, <2>4, <2>5, <2>6, <2>7, <2>8, <2>9, <2>10, CallStep
<1>. QED
  BY <1>5, <1>6 DEF Recreate

-----------------------------------------------------------------------------
(* Steps of everybody else.                                                *)

\* StepKeeps when no call goes on: the calls are disturbed at most.
LEMMA AsideKeeps ==
  ASSUME DiskInv, NEW k \in Backing, diskCall' \in [DiskCall -> DiskCallState],
         live' \subseteq DiskID, devType' \in [DiskID -> Backing \cup {"unused"}],
         store' \in [Backing -> Seq(Cell)], \A q \in Backing : Len(store'[q]) <= Wide,
         present' \subseteq Backing, snapshot' \in 0 .. Wide,
         diskMu' \in [DiskID -> DiskCall \cup {"vm", "free"}],
         told' \in [Backing -> Telling],
         guest' \in [disk : DiskID \cup {0}, open : Backing \cup {"none"}, size : 0 .. Wide, up : BOOLEAN],
         GuestPlaced',
         \A q \in Backing \ {k} : /\ store'[q] = store[q] /\ told'[q] = told[q]
                                  /\ (q \in present') <=> (q \in present),
         k \notin present' => store'[k] = << >>,
         Tells(told'[k], k, store', present'),
         \A x \in DiskCall : Lowered(diskCall[x], diskCall'[x]),
         "FILE" \in present => "FILE" \in present',
         \/ \A x \in WorkOn(k) : diskCall'[x].ok => Found(diskCall'[x], store', present')
         \/ store'[k] = store[k] /\ ((k \in present') <=> (k \in present)),
         \A i \in DiskID : diskMu[i] \in DiskCall => diskMu'[i] = diskMu[i]
  PROVE  DiskInv'
<1>. DEFINE C == {}
<1>1. \A x \in DiskCall \ C : /\ Lowered(diskCall[x], diskCall'[x])
                              /\ (diskCall'[x].open /\ diskCall'[x].kind = "FILE") => "FILE" \in present'
  BY DEF Lowered, DiskInv, CallsPlaced, Placed
<1>2. C \in SUBSET DiskCall
  OBVIOUS
<1>3. \A x \in C : /\ Placed(diskCall'[x], present')
                   /\ diskCall'[x].ok => Found(diskCall'[x], store', present')
                   /\ diskCall'[x].pc = "recv" => diskMu'[diskCall'[x].disk] = x
  OBVIOUS
<1>4. \A i \in DiskID : diskMu[i] \in DiskCall \ C => diskMu'[i] = diskMu[i]
  OBVIOUS
<1>5. \/ \A x \in WorkOn(k) \ C : diskCall'[x].ok => Found(diskCall'[x], store', present')
      \/ store'[k] = store[k] /\ ((k \in present') <=> (k \in present))
  OBVIOUS
<1>. HIDE DEF C
<1>. QED
  BY <1>1, <1>2, <1>3, <1>4, <1>5, StepKeeps

\* A step that leaves the files, the volumes and the calls alone: it must not take a
\* mutex from a call, and leave the guest where it can be.
LEMMA NothingWritten ==
  ASSUME DiskInv, UNCHANGED <<store, present, snapshot, diskCall, told>>,
         live' \subseteq DiskID, devType' \in [DiskID -> Backing \cup {"unused"}],
         diskMu' \in [DiskID -> DiskCall \cup {"vm", "free"}],
         \A i \in DiskID : diskMu[i] \in DiskCall => diskMu'[i] = diskMu[i],
         guest' \in [disk : DiskID \cup {0}, open : Backing \cup {"none"}, size : 0 .. Wide, up : BOOLEAN],
         GuestPlaced'
  PROVE  DiskInv'
<1>1. DiskTyped /\ ContentAsTold /\ Absent /\ CallsPlaced /\ "FILE" \in Backing
  BY DEF DiskInv, Backing
<1>2. /\ diskCall' \in [DiskCall -> DiskCallState]
      /\ store' \in [Backing -> Seq(Cell)] /\ \A q \in Backing : Len(store'[q]) <= Wide
      /\ present' \subseteq Backing /\ snapshot' \in 0 .. Wide /\ told' \in [Backing -> Telling]
  BY <1>1 DEF DiskTyped
<1>3. Tells(told'["FILE"], "FILE", store', present')
  BY <1>1, TellsStill
<1>4. "FILE" \notin present' => store'["FILE"] = << >>
  BY <1>1 DEF Absent
<1>5. \A x \in DiskCall : Lowered(diskCall[x], diskCall'[x])
  BY DEF Lowered
<1>6. /\ \A q \in Backing \ {"FILE"} : /\ store'[q] = store[q] /\ told'[q] = told[q]
                                       /\ (q \in present') <=> (q \in present)
      /\ store'["FILE"] = store["FILE"] /\ (("FILE" \in present') <=> ("FILE" \in present))
      /\ "FILE" \in present => "FILE" \in present'
  OBVIOUS
<1>. QED
  BY <1>1, <1>2, <1>3, <1>4, <1>5, <1>6, AsideKeeps

LEMMA OwnerStep ==
  ASSUME DiskInv,
         \/ \E i \in DiskID, k \in Backing : SetDiskInfo(i, k)
         \/ \E i \in DiskID : RemoveDisk(i)
         \/ \E i \in DiskID \cup {0} : AttachGuest(i)
  PROVE  DiskInv'
<1>1. DiskTyped /\ GuestPlaced
  BY DEF DiskInv
<1>2. UNCHANGED <<store, present, snapshot, diskCall, told>> /\ diskMu' = diskMu
  BY DEF SetDiskInfo, RemoveDisk, AttachGuest, files
<1>3. live' \subseteq DiskID /\ devType' \in [DiskID -> Backing \cup {"unused"}]
  BY <1>1 DEF DiskTyped, SetDiskInfo, RemoveDisk, AttachGuest, ids
<1>4. /\ guest' \in [disk : DiskID \cup {0}, open : Backing \cup {"none"}, size : 0 .. Wide, up : BOOLEAN]
      /\ GuestPlaced'
  <2>1. CASE UNCHANGED guest
    BY <1>1, <1>2, <2>1 DEF DiskTyped, GuestPlaced
  <2>2. CASE \E i \in DiskID \cup {0} : AttachGuest(i)
    <3>1. PICK i \in DiskID \cup {0} : ~guest.up /\ guest' = [guest EXCEPT !.disk = i]
      BY <2>2 DEF AttachGuest
    <3>. QED
      BY <1>1, <1>2, <3>1 DEF DiskTyped, GuestPlaced
  <2>. QED
    BY <2>1, <2>2 DEF SetDiskInfo, RemoveDisk
<1>5. diskMu' \in [DiskID -> DiskCall \cup {"vm", "free"}]
  BY <1>1, <1>2 DEF DiskTyped
<1>. QED
  BY <1>2, <1>3, <1>4, <1>5, NothingWritten

\* A VM starts with the mutex of its disk, and gives it back when it stops.
LEMMA GuestRunsStep ==
  ASSUME DiskInv, StartGuest \/ StopGuest
  PROVE  DiskInv'
<1>1. DiskTyped /\ GuestPlaced
  BY DEF DiskInv
<1>2. UNCHANGED <<store, present, snapshot, diskCall, told, live, devType>>
  BY DEF StartGuest, StopGuest, files, ids
<1>3. live' \subseteq DiskID /\ devType' \in [DiskID -> Backing \cup {"unused"}]
  BY <1>1, <1>2 DEF DiskTyped
<1>. DEFINE Guests == [disk : DiskID \cup {0}, open : Backing \cup {"none"}, size : 0 .. Wide, up : BOOLEAN]
<1>4. CASE StartGuest
  <2>. DEFINE i == guest.disk
              k == devType[i]
  <2>1. /\ i \in DiskID /\ k \in Backing /\ k \in present /\ diskMu[i] = "free"
        /\ Len(store[k]) \in 0 .. Wide
    BY <1>1, <1>4, DiskAssumption DEF DiskTyped, StartGuest
  <2>2. /\ diskMu' = [diskMu EXCEPT ![i] = "vm"]
        /\ guest' = [guest EXCEPT !.up = TRUE, !.open = k, !.size = Len(store[k])]
    BY <1>4 DEF StartGuest
  <2>3. guest' \in Guests /\ guest'.disk = i /\ guest'.open = k /\ guest'.up
    BY <1>1, <2>1, <2>2 DEF DiskTyped
  <2>4. diskMu' \in [DiskID -> DiskCall \cup {"vm", "free"}] /\ diskMu'[i] = "vm"
    BY <1>1, <2>1, <2>2 DEF DiskTyped
  <2>5. \A j \in DiskID : diskMu[j] \in DiskCall => diskMu'[j] = diskMu[j]
    BY <1>1, <2>1, <2>2, DiskAssumption DEF DiskTyped
  <2>6. GuestPlaced'
    BY <1>2, <2>1, <2>3, <2>4 DEF GuestPlaced
  <2>. QED
    BY <1>2, <1>3, <2>3, <2>4, <2>5, <2>6, NothingWritten
<1>5. CASE StopGuest
  <2>1. guest.disk \in DiskID /\ diskMu[guest.disk] = "vm"
    BY <1>1, <1>5 DEF GuestPlaced, StopGuest
  <2>2. /\ diskMu' = [diskMu EXCEPT ![guest.disk] = "free"]
        /\ guest' = [guest EXCEPT !.up = FALSE, !.open = "none", !.size = 0]
    BY <1>5 DEF StopGuest
  <2>3. guest' \in Guests /\ guest'.open = "none" /\ ~guest'.up
    <3>1. 0 \in 0 .. Wide /\ guest \in Guests
      BY <1>1, DiskAssumption DEF DiskTyped
    <3>. QED
      BY <2>2, <3>1
  <2>4. /\ diskMu' \in [DiskID -> DiskCall \cup {"vm", "free"}]
        /\ \A j \in DiskID : diskMu[j] \in DiskCall => diskMu'[j] = diskMu[j]
    BY <1>1, <2>1, <2>2, DiskAssumption DEF DiskTyped
  <2>5. GuestPlaced'
    BY <2>3 DEF GuestPlaced, Backing
  <2>. QED
    BY <1>2, <1>3, <2>3, <2>4, <2>5, NothingWritten
<1>. QED
  BY <1>4, <1>5

\* Nobody goes on, and the calls in D are disturbed.
LEMMA DisturbedOnly ==
  ASSUME DiskTyped, NEW D,
         diskCall' = [x \in DiskCall |-> [diskCall[x] EXCEPT !.ok = @ /\ x \notin D]]
  PROVE  /\ diskCall' \in [DiskCall -> DiskCallState]
         /\ \A x \in DiskCall : /\ Lowered(diskCall[x], diskCall'[x])
                                /\ diskCall'[x].ok => x \notin D
<1>1. ASSUME NEW x \in DiskCall
      PROVE  /\ diskCall'[x] \in DiskCallState
             /\ Lowered(diskCall[x], diskCall'[x])
             /\ diskCall'[x].ok => x \notin D
  <2>1. PICK u \in DiskCallState : u = diskCall[x]
    BY DEF DiskTyped
  <2>2. diskCall'[x] = [u EXCEPT !.ok = u.ok /\ x \notin D]
    BY <2>1
  <2>. QED
    BY <2>1, <2>2 DEF DiskCallState, Lowered
<1>2. diskCall' = [x \in DiskCall |-> diskCall'[x]]
  OBVIOUS
<1>. QED
  BY <1>1, <1>2

\* LeftoverRemoved: what was told of a disk that is gone is taken back, and the uploads
\* that still have the file open write to nothing.
LEMMA LeftoverRemovedStep ==
  ASSUME DiskInv, NEW k \in Backing, LeftoverRemoved(k)
  PROVE  DiskInv'
<1>1. DiskTyped /\ GuestPlaced /\ CallsPlaced /\ 0 \in 0 .. Wide
  BY DiskAssumption DEF DiskInv
<1>2. UNCHANGED <<live, devType, diskMu>> /\ Says(k, "unknown", 0) /\ k \in present
  BY DEF LeftoverRemoved, ids
<1>3. CASE /\ k = "FILE" /\ FileGone
           /\ diskCall' = [x \in DiskCall |-> [diskCall[x] EXCEPT !.open = @ /\ x \notin OpenFiles,
                                                                  !.ok = @ /\ x \notin WorkOn(k)]]
  <2>1. ASSUME NEW x \in DiskCall
        PROVE  /\ diskCall'[x] \in DiskCallState /\ Lowered(diskCall[x], diskCall'[x])
               /\ x \in WorkOn("FILE") => ~diskCall'[x].ok
               /\ diskCall'[x].kind = "FILE" => ~diskCall'[x].open
    <3>1. PICK u \in DiskCallState : u = diskCall[x]
      BY <1>1 DEF DiskTyped
    <3>2. diskCall'[x] = [u EXCEPT !.open = u.open /\ x \notin OpenFiles, !.ok = u.ok /\ x \notin WorkOn("FILE")]
      BY <1>3, <3>1
    <3>3. u.kind = "FILE" /\ u.open => x \in OpenFiles
      BY <3>1 DEF OpenFiles
    <3>. DEFINE a == x \notin WorkOn("FILE")
                b == x \notin OpenFiles
    <3>4. a \in BOOLEAN /\ b \in BOOLEAN
      OBVIOUS
    <3>5. diskCall'[x] = [u EXCEPT !.open = u.open /\ b, !.ok = u.ok /\ a]
      BY <3>2
    <3>6. (x \in WorkOn("FILE") => ~a) /\ (u.kind = "FILE" /\ u.open => ~b)
      BY <3>3
    <3>. HIDE DEF a, b
    <3>7. /\ diskCall'[x] = [u EXCEPT !.ok = diskCall'[x].ok, !.open = diskCall'[x].open]
          /\ diskCall'[x].ok = (u.ok /\ a) /\ diskCall'[x].open = (u.open /\ b)
      BY <3>5 DEF DiskCallState
    <3>8. /\ diskCall'[x] \in DiskCallState /\ Lowered(u, diskCall'[x]) /\ diskCall'[x].kind = u.kind
          /\ (diskCall'[x].ok => a) /\ (diskCall'[x].open => u.open /\ b)
      BY <3>4, <3>7, LoweredIs
    <3>. QED
      BY <3>1, <3>6, <3>8
  <2>2. diskCall' = [x \in DiskCall |-> diskCall'[x]]
    BY <1>3
  <2>3. diskCall' \in [DiskCall -> DiskCallState]
    BY <2>1, <2>2
  <2>4. /\ {} \in SUBSET DiskCall
        /\ \A x \in {} : /\ Placed(diskCall'[x], present')
                         /\ diskCall'[x].ok => Found(diskCall'[x], store', present')
                         /\ diskCall'[x].pc # "recv"
    OBVIOUS
  <2>. QED
    BY <1>2, <1>3, <2>1, <2>3, <2>4, FileGoneKeeps
<1>4. CASE /\ k = "ZVOL" /\ guest.open # k
           /\ store' = [store EXCEPT ![k] = << >>] /\ present' = present \ {k} /\ snapshot' = 0
           /\ diskCall' = [x \in DiskCall |-> [diskCall[x] EXCEPT !.ok = @ /\ x \notin WorkOn(k)]]
           /\ UNCHANGED guest
  <2>1. /\ diskCall' \in [DiskCall -> DiskCallState]
        /\ \A x \in DiskCall : /\ Lowered(diskCall[x], diskCall'[x])
                               /\ diskCall'[x].ok => x \notin WorkOn(k)
    BY <1>1, <1>4, DisturbedOnly
  <2>2. /\ told' \in [Backing -> Telling] /\ told'[k].what = "unknown" /\ told'[k].size = 0
        /\ \A q \in Backing \ {k} : told'[q] = told[q]
    BY <1>1, <1>2, SaysIs
  <2>3. /\ store' \in [Backing -> Seq(Cell)] /\ \A q \in Backing : Len(store'[q]) <= Wide
        /\ store'[k] = << >> /\ \A q \in Backing \ {k} : store'[q] = store[q]
    BY <1>1, <1>4, DiskAssumption DEF DiskTyped
  <2>4. Tells(told'[k], k, store', present')
    BY <2>2, <2>3, UnknownTells
  <2>5. /\ live' \subseteq DiskID /\ devType' \in [DiskID -> Backing \cup {"unused"}]
        /\ present' \subseteq Backing /\ snapshot' \in 0 .. Wide
        /\ diskMu' \in [DiskID -> DiskCall \cup {"vm", "free"}]
        /\ guest' \in [disk : DiskID \cup {0}, open : Backing \cup {"none"}, size : 0 .. Wide, up : BOOLEAN]
    BY <1>1, <1>2, <1>4 DEF DiskTyped
  <2>6. GuestPlaced'
    BY <1>1, <1>2, <1>4 DEF GuestPlaced
  <2>7. \A x \in DiskCall : Lowered(diskCall[x], diskCall'[x])
    BY <2>1
  <2>8. \A x \in WorkOn(k) : diskCall'[x].ok => Found(diskCall'[x], store', present')
    BY <2>1 DEF WorkOn
  <2>9. /\ \A q \in Backing \ {k} : /\ store'[q] = store[q] /\ told'[q] = told[q]
                                    /\ (q \in present') <=> (q \in present)
        /\ k \notin present' => store'[k] = << >>
        /\ "FILE" \in present => "FILE" \in present'
    BY <1>4, <2>2, <2>3
  <2>10. \A i \in DiskID : diskMu[i] \in DiskCall => diskMu'[i] = diskMu[i]
    BY <1>2
  <2>11. /\ diskCall' \in [DiskCall -> DiskCallState] /\ told' \in [Backing -> Telling]
         /\ store' \in [Backing -> Seq(Cell)] /\ \A q \in Backing : Len(store'[q]) <= Wide
    BY <2>1, <2>2, <2>3
  <2>. QED
    BY <2>4, <2>5, <2>6, <2>7, <2>8, <2>9, <2>10, <2>11, AsideKeeps
<1>. QED
  BY <1>3, <1>4 DEF LeftoverRemoved

\* A guest writes: an upload to its disk does not receive, since the VM has the mutex, and
\* one to the volume that waits has written nothing yet.
LEMMA GuestWritesStep ==
  ASSUME DiskInv, NEW j \in 1 .. Wide, GuestWrites(j)
  PROVE  DiskInv'
<1>. DEFINE k == guest.open
            i == guest.disk
            others == WorkOn(k) \ Spared(k, i)
<1>1. DiskTyped /\ GuestPlaced /\ Absent /\ CallsPlaced
  BY DEF DiskInv
<1>2. /\ k \in Backing /\ (k = "ZVOL" => j <= Len(store[k]))
      /\ store' = [store EXCEPT ![k] = WrittenAt(@, j, "guest")]
      /\ Says(k, "unknown", 0)
      /\ diskCall' = [x \in DiskCall |-> [diskCall[x] EXCEPT !.ok = @ /\ x \notin others]]
      /\ UNCHANGED <<live, devType, present, snapshot, diskMu, guest>>
  BY DEF GuestWrites, ids
<1>3. i \in DiskID /\ diskMu[i] = "vm" /\ (k = "FILE" => k \in present)
  BY <1>1, <1>2 DEF GuestPlaced
<1>4. k \in present
  <2>1. store[k] \in Seq(Cell) /\ (k \notin present => store[k] = << >>)
    BY <1>1, <1>2 DEF DiskTyped, Absent
  <2>. QED
    BY <1>2, <1>3, <2>1 DEF Backing
<1>. HIDE DEF k, i
<1>5. "guest" \in Cell /\ 0 \in 0 .. Wide
  BY DiskAssumption DEF Cell
<1>6. /\ store' \in [Backing -> Seq(Cell)] /\ \A q \in Backing : Len(store'[q]) <= Wide
      /\ \A q \in Backing \ {k} : store'[q] = store[q]
  BY <1>1, <1>2, <1>5, CellWritten
<1>7. /\ told' \in [Backing -> Telling] /\ told'[k].what = "unknown" /\ told'[k].size = 0
      /\ \A q \in Backing \ {k} : told'[q] = told[q]
  BY <1>1, <1>2, <1>5, SaysIs
<1>8. Len(store'[k]) \in Nat /\ Tells(told'[k], k, store', present')
  <2>1. Len(store'[k]) \in Nat
    BY <1>2, <1>6
  <2>. QED
    BY <1>7, <2>1, UnknownTells
<1>9. /\ diskCall' \in [DiskCall -> DiskCallState]
      /\ \A x \in DiskCall : /\ Lowered(diskCall[x], diskCall'[x])
                             /\ diskCall'[x].ok => x \notin others
  BY <1>1, <1>2, DisturbedOnly
<1>10. ASSUME NEW x \in WorkOn(k), diskCall'[x].ok
       PROVE  Found(diskCall'[x], store', present')
  <2>1. x \in DiskCall /\ x \in WorkOn(k)
    BY DEF WorkOn
  <2>2. Lowered(diskCall[x], diskCall'[x]) /\ x \in Spared(k, i)
    BY <1>9, <1>10, <2>1
  <2>3. diskMu[i] # x /\ present' = present
    BY <1>2, <1>3, <2>1, DiskAssumption
  <2>. QED
    BY <1>2, <1>3, <1>8, <1>10, <2>1, <2>2, <2>3, SparedFinds
<1>. HIDE DEF others
<1>11. /\ live' \subseteq DiskID /\ devType' \in [DiskID -> Backing \cup {"unused"}]
       /\ present' \subseteq Backing /\ snapshot' \in 0 .. Wide
       /\ diskMu' \in [DiskID -> DiskCall \cup {"vm", "free"}]
       /\ guest' \in [disk : DiskID \cup {0}, open : Backing \cup {"none"}, size : 0 .. Wide, up : BOOLEAN]
  BY <1>1, <1>2 DEF DiskTyped
<1>12. GuestPlaced'
  BY <1>1, <1>2 DEF GuestPlaced
<1>13. \A x \in DiskCall : Lowered(diskCall[x], diskCall'[x])
  BY <1>9
<1>14. /\ \A q \in Backing \ {k} : /\ store'[q] = store[q] /\ told'[q] = told[q]
                                   /\ (q \in present') <=> (q \in present)
       /\ k \notin present' => store'[k] = << >>
       /\ "FILE" \in present => "FILE" \in present'
  BY <1>2, <1>4, <1>6, <1>7
<1>15. \A b \in DiskID : diskMu[b] \in DiskCall => diskMu'[b] = diskMu[b]
  BY <1>2
<1>16. /\ diskCall' \in [DiskCall -> DiskCallState] /\ told' \in [Backing -> Telling]
       /\ store' \in [Backing -> Seq(Cell)] /\ \A q \in Backing : Len(store'[q]) <= Wide
       /\ k \in Backing /\ Tells(told'[k], k, store', present')
  BY <1>2, <1>6, <1>7, <1>8, <1>9
<1>. QED
  BY <1>10, <1>11, <1>12, <1>13, <1>14, <1>15, <1>16, AsideKeeps

\* The daemon is started again: no call is left but the wipes that were queued, and these
\* have looked at nothing yet.
LEMMA DiskRestartStep ==
  ASSUME DiskInv, DiskRestart
  PROVE  DiskInv'
<1>. DEFINE C == DiskCall
<1>1. DiskTyped /\ ContentAsTold /\ Absent /\ CallsPlaced /\ "FILE" \in Backing
  BY DEF DiskInv, Backing
<1>2. UNCHANGED <<live, devType, store, present, snapshot, told>>
  BY DEF DiskRestart, ids, files
<1>3. /\ guest' = [guest EXCEPT !.up = FALSE, !.open = "none", !.size = 0]
      /\ diskMu' = [i \in DiskID |-> "free"]
      /\ diskCall' = [c \in DiskCall |-> IF DiskAt(c, "queued") THEN diskCall[c] ELSE NoDiskCall]
  BY DEF DiskRestart
<1>4. /\ guest' \in [disk : DiskID \cup {0}, open : Backing \cup {"none"}, size : 0 .. Wide, up : BOOLEAN]
      /\ ~guest'.up /\ guest'.open = "none"
  <2>1. /\ guest \in [disk : DiskID \cup {0}, open : Backing \cup {"none"}, size : 0 .. Wide, up : BOOLEAN]
        /\ 0 \in 0 .. Wide
    BY <1>1, DiskAssumption DEF DiskTyped
  <2>. QED
    BY <1>3, <2>1
<1>5. GuestPlaced'
  BY <1>4 DEF GuestPlaced, Backing
<1>6. ASSUME NEW x \in DiskCall
      PROVE  /\ diskCall'[x] \in DiskCallState /\ Placed(diskCall'[x], present')
             /\ Found(diskCall'[x], store', present') /\ diskCall'[x].pc # "recv"
  <2>1. CASE DiskAt(x, "queued")
    <3>1. /\ diskCall'[x] = diskCall[x] /\ diskCall[x].pc = "queued"
          /\ diskCall[x] \in DiskCallState /\ Placed(diskCall[x], present)
      BY <1>1, <1>3, <2>1 DEF DiskAt, DiskTyped, CallsPlaced
    <3>. QED
      BY <1>2, <3>1, IdleFinds
  <2>2. CASE ~DiskAt(x, "queued")
    <3>1. diskCall'[x] = NoDiskCall
      BY <1>3, <2>2
    <3>. QED
      BY <3>1, OverCall
  <2>. QED
    BY <2>1, <2>2
<1>7. diskCall' = [c \in DiskCall |-> diskCall'[c]]
  BY <1>3
<1>8. /\ diskCall' \in [DiskCall -> DiskCallState] /\ told' \in [Backing -> Telling]
      /\ store' \in [Backing -> Seq(Cell)] /\ \A q \in Backing : Len(store'[q]) <= Wide
  BY <1>1, <1>2, <1>6, <1>7 DEF DiskTyped
<1>9. /\ live' \subseteq DiskID /\ devType' \in [DiskID -> Backing \cup {"unused"}]
      /\ present' \subseteq Backing /\ snapshot' \in 0 .. Wide
      /\ diskMu' \in [DiskID -> DiskCall \cup {"vm", "free"}]
  BY <1>1, <1>2, <1>3 DEF DiskTyped
<1>10. Tells(told'["FILE"], "FILE", store', present') /\ ("FILE" \notin present' => store'["FILE"] = << >>)
  BY <1>1, <1>2, TellsStill DEF Absent
<1>11. /\ \A q \in Backing \ {"FILE"} : /\ store'[q] = store[q] /\ told'[q] = told[q]
                                        /\ (q \in present') <=> (q \in present)
       /\ store'["FILE"] = store["FILE"] /\ (("FILE" \in present') <=> ("FILE" \in present))
  BY <1>2
<1>12. \A x \in DiskCall \ C : /\ Lowered(diskCall[x], diskCall'[x])
                               /\ (diskCall'[x].open /\ diskCall'[x].kind = "FILE") => "FILE" \in present'
  OBVIOUS
<1>13. \A x \in C : /\ Placed(diskCall'[x], present')
                    /\ diskCall'[x].ok => Found(diskCall'[x], store', present')
                    /\ diskCall'[x].pc = "recv" => diskMu'[diskCall'[x].disk] = x
  BY <1>6
<1>14. C \in SUBSET DiskCall /\ \A i \in DiskID : diskMu[i] \in DiskCall \ C => diskMu'[i] = diskMu[i]
  OBVIOUS
<1>. HIDE DEF C
<1>. QED
  BY <1>1, <1>4, <1>5, <1>8, <1>9, <1>10, <1>11, <1>12, <1>13, <1>14, StepKeeps

-----------------------------------------------------------------------------
(* What is on a disk is what was told.                                     *)

LEMMA ContentInit == DiskInit => DiskInv
<1>. SUFFICES ASSUME DiskInit PROVE DiskInv
  OBVIOUS
<1>1. 0 \in 0 .. Wide /\ << >> \in Seq(Cell) /\ Len(<< >>) = 0
  BY DiskAssumption
<1>2. /\ store = [k \in Backing |-> << >>] /\ present = {} /\ told = [k \in Backing |-> Unknown]
      /\ diskCall = [c \in DiskCall |-> NoDiskCall]
      /\ guest = [disk |-> 0, open |-> "none", size |-> 0, up |-> FALSE]
  BY DEF DiskInit
<1>3. \A c \in DiskCall : /\ diskCall[c] = NoDiskCall /\ NoDiskCall \in DiskCallState
                          /\ Placed(NoDiskCall, present) /\ Found(NoDiskCall, store, present)
                          /\ NoDiskCall.pc = "idle"
  BY <1>2, OverCall
<1>4. Unknown \in Telling
  BY <1>1 DEF Unknown, Telling
<1>5. DiskTyped
  <2>1. live \subseteq DiskID /\ devType \in [DiskID -> Backing \cup {"unused"}] /\ snapshot \in 0 .. Wide
    BY <1>1 DEF DiskInit
  <2>2. diskMu \in [DiskID -> DiskCall \cup {"vm", "free"}]
    BY DEF DiskInit
  <2>3. guest \in [disk : DiskID \cup {0}, open : Backing \cup {"none"}, size : 0 .. Wide, up : BOOLEAN]
    BY <1>1, <1>2
  <2>4. diskCall \in [DiskCall -> DiskCallState] /\ told \in [Backing -> Telling]
    BY <1>2, <1>3, <1>4
  <2>5. store \in [Backing -> Seq(Cell)] /\ \A k \in Backing : Len(store[k]) <= Wide
    BY <1>1, <1>2
  <2>. QED
    BY <1>2, <2>1, <2>2, <2>3, <2>4, <2>5 DEF DiskTyped
<1>6. Absent /\ CallsPlaced /\ Locked /\ CallsFind
  BY <1>2, <1>3 DEF Absent, CallsPlaced, Locked, CallsFind
<1>7. GuestPlaced
  BY <1>2 DEF GuestPlaced, Backing
<1>8. \A k \in Backing : Tells(told[k], k, store, present)
  BY <1>1, <1>2, UnknownTells DEF Unknown
<1>. QED
  BY <1>5, <1>6, <1>7, <1>8, ToldTells DEF DiskInv

LEMMA ContentStep == DiskInv /\ [DiskNext]_diskVars => DiskInv'
<1>. SUFFICES ASSUME DiskInv, [DiskNext]_diskVars PROVE DiskInv'
  OBVIOUS
<1>1. ASSUME NEW c \in DiskCall,
             \/ \E k \in Backing, n \in NewSize : AddDisk(c, k, n)
             \/ LeftoverRefused(c) \/ AddBacking(c)
             \/ \E i \in DiskID : AddRow(c, i)
      PROVE  DiskInv'
  BY <1>1, AddDiskStep, LeftoverRefusedStep, AddBackingStep, AddRowStep
<1>2. ASSUME NEW c \in DiskCall,
             \/ \E i \in DiskID, x \in DiskImage, n \in ImageSize : UploadDisk(c, i, x, n)
             \/ SetSize(c) \/ UploadOpen(c) \/ UploadLocks(c) \/ Receive(c)
             \/ UploadDone(c) \/ UploadBreaks(c)
      PROVE  DiskInv'
  BY <1>2, UploadDiskStep, SetSizeStep, UploadOpenStep, UploadLocksStep, ReceiveStep, UploadEndStep
<1>3. ASSUME NEW c \in DiskCall,
             \/ \E i \in DiskID : WipeDisk(c, i)
             \/ WipeBegins(c) \/ RemoveBacking(c) \/ Recreate(c)
      PROVE  DiskInv'
  BY <1>3, WipeDiskStep, WipeBeginsStep, RemoveBackingStep, RecreateStep
<1>4. ASSUME \/ \E i \in DiskID, k \in Backing : SetDiskInfo(i, k)
             \/ \E i \in DiskID : RemoveDisk(i)
             \/ \E i \in DiskID \cup {0} : AttachGuest(i)
             \/ StartGuest \/ StopGuest
      PROVE  DiskInv'
  BY <1>4, OwnerStep, GuestRunsStep
<1>5. CASE \E k \in Backing : LeftoverRemoved(k)
  BY <1>5, LeftoverRemovedStep
<1>6. CASE \E j \in 1 .. Wide : GuestWrites(j)
  BY <1>6, GuestWritesStep
<1>7. CASE DiskRestart
  BY <1>7, DiskRestartStep
<1>8. CASE UNCHANGED diskVars
  <2>1. /\ UNCHANGED <<live, devType, store, present, snapshot, diskMu, guest, diskCall, told>>
        /\ DiskTyped /\ GuestPlaced
    BY <1>8 DEF diskVars, DiskInv
  <2>2. /\ live' \subseteq DiskID /\ devType' \in [DiskID -> Backing \cup {"unused"}]
        /\ diskMu' \in [DiskID -> DiskCall \cup {"vm", "free"}] /\ diskMu' = diskMu
        /\ guest' \in [disk : DiskID \cup {0}, open : Backing \cup {"none"}, size : 0 .. Wide, up : BOOLEAN]
    BY <2>1 DEF DiskTyped
  <2>3. GuestPlaced'
    BY <2>1 DEF GuestPlaced
  <2>. QED
    BY <2>1, <2>2, <2>3, NothingWritten
<1>. QED
  BY <1>1, <1>2, <1>3, <1>4, <1>5, <1>6, <1>7, <1>8 DEF DiskNext

\* In every state what a call that nobody has disturbed has made is still there, uploads
\* that receive and a VM that runs have the mutex of their disk, and what was told holds.
THEOREM ContentInductive == DiskSpec => []DiskInv
<1>. QED
  BY ContentInit, ContentStep, PTL DEF DiskSpec

\* What a client was told of a disk is what is on it, for any number of disks, calls, sizes
\* and images: the mutex of uploads and VMs, the refusal of leftovers in Create, RemoveBacking
\* before Create in a wipe see to it, whatever fails and whenever the daemon restarts.
THEOREM ContentTold == DiskSpec => []ContentAsTold
<1>1. DiskInv => ContentAsTold
  BY DEF DiskInv
<1>. QED
  BY <1>1, ContentInductive, PTL

LEMMA ContentTypes == DiskInv => DiskTypeOK
<1>. SUFFICES ASSUME DiskTyped PROVE DiskTypeOK
  BY DEF DiskInv
<1>1. \A c \in DiskCall : /\ diskCall[c].op \in {"none", "add", "upload", "wipe"}
                          /\ diskCall[c].pc \in {"idle", "exists", "backing", "row", "size", "open",
                                                 "lock", "recv", "queued", "stuck", "erase", "create"}
                          /\ diskCall[c].kind \in Backing /\ diskCall[c].disk \in DiskID \cup {0}
  BY DEF DiskTyped, DiskCallState
<1>2. \A k \in Backing : told[k].what \in {"unknown", Blank} \cup DiskImage
  BY DEF DiskTyped, Telling
<1>. QED
  BY <1>1, <1>2 DEF DiskTyped, DiskTypeOK

-----------------------------------------------------------------------------
(***************************************************************************)
(* Both views of the disks.                                                *)
(***************************************************************************)

\* A behaviour of the run is one of each view, of which the one it does not move stutters,
\* so that what is proved about a view holds in the run.
THEOREM DisksRunEach == DisksSpec => Spec /\ DiskSpec
<1>1. DisksInit => Init /\ DiskInit
  BY DEF DisksInit
<1>2. [DisksNext]_<<view, vars, diskVars>> => [Next]_vars /\ [DiskNext]_diskVars
  BY DEF DisksNext
<1>. QED
  BY <1>1, <1>2, PTL DEF DisksSpec, Spec, DiskSpec

\* Whichever view a behaviour of the run moves, both keep their types (DisksTypeOK).
THEOREM DisksTyped == DisksSpec => []DisksTypeOK
<1>1. TypeOK /\ DiskTypeOK => DisksTypeOK
  BY DEF DisksTypeOK
<1>2. DiskSpec => []DiskTypeOK
  BY ContentInductive, ContentTypes, PTL
<1>. QED
  BY <1>1, <1>2, DisksRunEach, TypeCorrect, PTL
=============================================================================
