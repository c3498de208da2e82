------------------------- MODULE VMLifecycle_proofs -------------------------
(***************************************************************************)
(* Proofs about VMLifecycle, for every set of VMs, disks and processes.    *)
(***************************************************************************)
EXTENDS VMLifecycle, TLAPS

\* A monitor goroutine belongs to a VM until it returns.
MonitorOwned == \A p \in Proc : mon[p] # "none" => owner[p] \in VM

\* Nothing is ever edited when clients do not edit.
EditsIdle == AttachEdits \/ (~editedLate /\ \A v \in VM : edit[v] = "none")

TypeInv == TypeOK /\ MonitorOwned /\ EditsIdle

LEMMA TypeInit == Init => TypeInv
<1> SUFFICES ASSUME Init PROVE TypeInv
  OBVIOUS
<1> USE ConstantsAssumption DEF Init
<1>1. disks \in [VM -> SUBSET Disk]
  OBVIOUS
<1>2. waiting \in [VM -> 0..MaxWaiting]
  OBVIOUS
<1>3. stopPc \in [VM -> [Caller -> StopPc]] /\ stopOn \in [VM -> [Caller -> Proc \cup {NoProc}]]
  BY DEF StopPc
<1>4. status \in [VM -> StatusType] /\ procSt \in [Proc -> ProcStatus] /\ mon \in [Proc -> MonitorPc]
  BY DEF StatusType, ProcStatus, MonitorPc
<1>5. QED
  BY <1>1, <1>2, <1>3, <1>4 DEF TypeInv, TypeOK, MonitorOwned, EditsIdle, EditPc

\* What a stop does to the process it hits stays a table of process states.
LEMMA SignalledType ==
  ASSUME procSt \in [Proc -> ProcStatus], NEW p
  PROVE  Signalled(p) \in [Proc -> ProcStatus]
  BY DEF Signalled, ProcStatus

LEMMA SentType ==
  ASSUME event \in [Proc -> {"none", "start", "crashed"}], NEW p, NEW e \in {"start", "crashed"}
  PROVE  Sent(p, e) \in [Proc -> {"none", "start", "crashed"}]
  BY DEF Sent

LEMMA TypeStep == TypeInv /\ [Next]_vars => TypeInv'
<1> SUFFICES ASSUME TypeInv, [Next]_vars PROVE TypeInv'
  OBVIOUS
<1> USE DEF TypeInv, TypeOK, MonitorOwned, EditsIdle, daemonVars, startVars, procVars, monVars, stopVars,
        editVars, endVars
<1>1. ASSUME NEW v \in VM, CallStart(v) PROVE TypeInv'
  BY <1>1, ConstantsAssumption DEF CallStart
<1>2. ASSUME NEW v \in VM, StartRefused(v) PROVE TypeInv'
  BY <1>2, ConstantsAssumption DEF StartRefused
<1>3. ASSUME NEW v \in VM, StartBegin(v) PROVE TypeInv'
  BY <1>3, ConstantsAssumption DEF StartBegin, StatusType
<1>4. ASSUME NEW d \in Disk, LockDisk(d) PROVE TypeInv'
  BY <1>4 DEF LockDisk
<1>5. CASE StartNetFails
  BY <1>5 DEF StartNetFails
<1>6. CASE StartSaveFails
  BY <1>6 DEF StartSaveFails
<1>7. ASSUME NEW p \in Proc, StartSpawn(p) PROVE TypeInv'
  <2>1. starter \in VM
    BY <1>7 DEF StartSpawn
  <2>2. QED
    BY <1>7, <2>1 DEF StartSpawn, ProcStatus, MonitorPc
<1>8. ASSUME NEW p \in Proc, BhyveExits(p) PROVE TypeInv'
  BY <1>8, SentType DEF BhyveExits, ProcStatus
<1>9. ASSUME NEW p \in Proc, Respawn(p) PROVE TypeInv'
  BY <1>9, SentType DEF Respawn, ProcStatus
<1>10. ASSUME NEW p \in Proc, BhyveDone(p) PROVE TypeInv'
  BY <1>10 DEF BhyveDone, ProcStatus
<1>11. ASSUME NEW p \in Proc, MonitorStarted(p) PROVE TypeInv'
  BY <1>11 DEF MonitorStarted, StatusType
<1>12. ASSUME NEW p \in Proc, MonitorNoChild(p) PROVE TypeInv'
  <2>1. owner[p] \in VM
    BY <1>12 DEF MonitorNoChild
  <2>2. Signalled(procOf[owner[p]]) \in [Proc -> ProcStatus]
    BY SignalledType
  <2>3. /\ event' \in [Proc -> {"none", "start", "crashed"}]
        /\ UNCHANGED <<disks, lockedFor, netUp, startVars, procOf, owner, launch, stopVars,
                       editVars, endVars>>
    BY <1>12 DEF MonitorNoChild
  <2>4. CASE status[owner[p]] = "STOPPED"
    <3>1. mon' = [mon EXCEPT ![p] = "done"] /\ mon[p] = "select" /\ UNCHANGED <<status, procSt, monStop>>
      BY <1>12, <2>4 DEF MonitorNoChild
    <3>2. QED
      BY <2>3, <3>1 DEF MonitorPc
  <2>5. CASE status[owner[p]] # "STOPPED"
    <3>a. procSt' = Signalled(procOf[owner[p]])
      BY <1>12, <2>5 DEF MonitorNoChild
    <3>b. status' = [status EXCEPT ![owner[p]] = "STOPPING"]
      BY <1>12, <2>5 DEF MonitorNoChild
    <3>c. monStop' = [monStop EXCEPT ![p] = procOf[owner[p]]]
      BY <1>12, <2>5 DEF MonitorNoChild
    <3>1. /\ status' \in [VM -> StatusType]
          /\ procSt' \in [Proc -> ProcStatus]
          /\ monStop' \in [Proc -> Proc \cup {NoProc}]
      BY <2>1, <2>2, <3>a, <3>b, <3>c DEF StatusType
    <3>2. mon' \in [Proc -> MonitorPc] /\ \A q \in Proc : mon'[q] # "none" => mon[q] # "none"
      BY <1>12, <2>5 DEF MonitorNoChild, MonitorPc
    <3>3. TypeOK'
      BY <2>3, <3>1, <3>2
    <3>4. MonitorOwned'
      BY <2>3, <3>2
    <3>5. EditsIdle'
      BY <2>3
    <3>6. QED
      BY <3>3, <3>4, <3>5
  <2>6. QED
    BY <2>4, <2>5
<1>13. ASSUME NEW p \in Proc, MonitorStopReturns(p) PROVE TypeInv'
  BY <1>13 DEF MonitorStopReturns, MonitorPc
<1>14. ASSUME NEW p \in Proc, MonitorCrashed(p) PROVE TypeInv'
  BY <1>14 DEF MonitorCrashed
<1>15. ASSUME NEW p \in Proc, MonitorDone(p) PROVE TypeInv'
  BY <1>15 DEF MonitorDone, MonitorPc
<1>16. ASSUME NEW p \in Proc, DoneSetStopped(p) PROVE TypeInv'
  BY <1>16 DEF DoneSetStopped, StatusType, MonitorPc
<1>17. ASSUME NEW p \in Proc, DoneUnlockDisks(p) PROVE TypeInv'
  BY <1>17 DEF DoneUnlockDisks, MonitorPc
<1>18. ASSUME NEW p \in Proc, DoneNetStop(p) PROVE TypeInv'
  BY <1>18 DEF DoneNetStop, MonitorPc
<1>19. ASSUME NEW v \in VM, RequestStop(v) PROVE TypeInv'
  BY <1>19 DEF RequestStop, Caller, StopPc
<1>20. ASSUME NEW v \in VM, NEW c \in Caller, StopCheck(v, c) PROVE TypeInv'
  BY <1>20 DEF StopCheck, Caller, StopPc
<1>21. ASSUME NEW v \in VM, NEW c \in Caller, StopWithoutProc(v, c) PROVE TypeInv'
  BY <1>21 DEF StopWithoutProc, StatusType, Caller, StopPc
<1>22. ASSUME NEW v \in VM, NEW c \in Caller, StopProc(v, c) PROVE TypeInv'
  BY <1>22, SignalledType DEF StopProc, StatusType, Caller, StopPc
<1>23. ASSUME NEW v \in VM, NEW c \in Caller, StopReturns(v, c) PROVE TypeInv'
  BY <1>23 DEF StopReturns, Caller, StopPc
<1>24. CASE StopAll
  BY <1>24 DEF StopAll, Caller, StopPc
<1>25. CASE Exit
  BY <1>25 DEF Exit
<1>26. ASSUME NEW v \in VM, EditStep(v) \/ \E S \in SUBSET Disk : AttachBegin(v, S) PROVE TypeInv'
  <2>1. ASSUME NEW S \in SUBSET Disk, AttachBegin(v, S) PROVE TypeInv'
    BY <2>1 DEF AttachBegin, Edits, editFrame, EditPc
  <2>2. CASE AttachEmpty(v)
    BY <2>2 DEF AttachEmpty, Remains, editFrame, EditPc
  <2>3. ASSUME NEW d \in Disk, AttachDisk(v, d) PROVE TypeInv'
    BY <2>3 DEF AttachDisk, Remains, editFrame, EditPc
  <2>4. CASE AttachFails(v)
    BY <2>4 DEF AttachFails, Remains, editFrame, EditPc
  <2>5. QED
    BY <1>26, <2>1, <2>2, <2>3, <2>4 DEF EditStep
<1>27. CASE UNCHANGED vars
  BY <1>27 DEF vars
<1>28. QED
  BY <1>1, <1>2, <1>3, <1>4, <1>5, <1>6, <1>7, <1>8, <1>9, <1>10, <1>11, <1>12, <1>13, <1>14,
     <1>15, <1>16, <1>17, <1>18, <1>19, <1>20, <1>21, <1>22, <1>23, <1>24, <1>25, <1>26, <1>27
     DEF Next, Step, StartStep, SupervisorStep, MonitorStep, StopStep

\* Every variable keeps its type, whatever goroutines, guests and clients do.
THEOREM TypeCorrect == Spec => []TypeOK
<1>1. TypeInv => TypeOK
  BY DEF TypeInv
<1>2. QED
  BY <1>1, TypeInit, TypeStep, PTL DEF Spec

EditAction == \E v \in VM : EditStep(v) \/ \E S \in SUBSET Disk : AttachBegin(v, S)

\* Whose attachments change, and what is known of edits, is up to SetVMDisks alone.
LEMMA EditsOnly == [Next]_vars => EditAction \/ UNCHANGED <<disks, editVars>>
<1> SUFFICES ASSUME [Next]_vars, ~EditAction PROVE UNCHANGED <<disks, editVars>>
  OBVIOUS
<1> USE DEF daemonVars, startVars, procVars, monVars, stopVars, endVars
<1>1. CASE \E v \in VM : \/ CallStart(v) \/ StartRefused(v) \/ StartBegin(v) \/ RequestStop(v)
                       \/ \E c \in Caller : StopStep(v, c)
  BY <1>1 DEF CallStart, StartRefused, StartBegin, RequestStop, StopStep, StopCheck,
     StopWithoutProc, StopProc, StopReturns
<1>2. CASE StartStep
  BY <1>2 DEF StartStep, LockDisk, StartNetFails, StartSaveFails, StartSpawn
<1>3. CASE \E p \in Proc : SupervisorStep(p) \/ MonitorStep(p)
  BY <1>3 DEF SupervisorStep, BhyveExits, Respawn, BhyveDone, MonitorStep, MonitorStarted,
     MonitorNoChild, MonitorStopReturns, MonitorCrashed, MonitorDone, DoneSetStopped,
     DoneUnlockDisks, DoneNetStop
<1>4. CASE StopAll \/ Exit \/ UNCHANGED vars
  BY <1>4 DEF StopAll, Exit, vars
<1>5. QED
  BY <1>1, <1>2, <1>3, <1>4 DEF Next, Step, EditAction

-----------------------------------------------------------------------------
(* The disk mutexes. LocksCoverProcess is not inductive: what Done() unlocks *)
(* is v.Disks, what Start() took is counted down in toLock, and a second     *)
(* Start() of the same VM may already wait for the mutexes of the first. All *)
(* of it holds up to the first edit that writes v.Disks in between.          *)

StarterHolds ==
  /\ starter = NoVM => toLock = {}
  /\ starter # NoVM =>
       /\ toLock \subseteq disks[starter]
       /\ \A d \in disks[starter] \ toLock : lockedFor[d] = starter

MonitorHolds ==
  \A p \in Proc : Supervised(p) =>
    /\ launch[p] = disks[owner[p]]
    /\ \A d \in disks[owner[p]] : lockedFor[d] = owner[p]

\* A Start() of a VM that still has a monitor has not locked anything yet.
StarterWaits ==
  \A p \in Proc : Supervised(p) /\ owner[p] = starter => toLock = disks[starter]

OneHolder ==
  \A p, q \in Proc :
    Supervised(p) /\ Supervised(q) /\ p # q /\ owner[p] = owner[q] => disks[owner[p]] = {}

LockInv == TypeInv /\ StarterHolds /\ MonitorHolds /\ StarterWaits /\ OneHolder /\ ~fatal

LockOrLate == TypeInv /\ (editedLate \/ LockInv)

lockVars == <<disks, lockedFor, starter, toLock, owner, launch, fatal>>

LEMMA LockInit == Init => LockInv
<1> SUFFICES ASSUME Init PROVE LockInv
  OBVIOUS
<1>1. \A p \in Proc : ~Supervised(p)
  BY DEF Init, Supervised
<1>2. QED
  BY <1>1, TypeInit DEF Init, LockInv, StarterHolds, MonitorHolds, StarterWaits, OneHolder

\* A step that touches none of this and supervises nothing new keeps it.
LEMMA LockFrame ==
  ASSUME LockInv, TypeInv', UNCHANGED lockVars,
         \A p \in Proc : Supervised(p)' => Supervised(p)
  PROVE  LockInv'
<1> USE DEF LockInv, lockVars
<1>1. StarterHolds'
  BY DEF StarterHolds
<1>2. MonitorHolds'
  BY DEF MonitorHolds
<1>3. StarterWaits'
  BY DEF StarterWaits
<1>4. OneHolder'
  BY DEF OneHolder
<1>5. QED
  BY <1>1, <1>2, <1>3, <1>4

\* Start() gives vmStartLock back without having made a process.
LEMMA LockStartEnds ==
  ASSUME LockInv, TypeInv', toLock = {}, starter' = NoVM,
         UNCHANGED <<disks, lockedFor, toLock, owner, launch, fatal, mon>>
  PROVE  LockInv'
<1>1. \A p \in Proc : (Supervised(p)' <=> Supervised(p)) /\ (Supervised(p) => owner[p] # NoVM)
  BY ConstantsAssumption DEF Supervised, LockInv, TypeInv, MonitorOwned
<1>2. QED
  BY <1>1 DEF LockInv, StarterHolds, MonitorHolds, StarterWaits, OneHolder

\* What AttachDisks writes to v.Disks while no Start() and no Done() needs it.
LEMMA LockEdit ==
  ASSUME LockInv, TypeInv', NEW v \in VM, NEW S \in SUBSET Disk, ~DisksInUse(v),
         disks' = [disks EXCEPT ![v] = S],
         UNCHANGED <<lockedFor, starter, toLock, owner, launch, mon, fatal>>
  PROVE  LockInv'
<1> USE DEF LockInv
<1>1. \A p \in Proc : /\ Supervised(p)' <=> Supervised(p)
                     /\ Supervised(p) => owner[p] \in VM /\ owner[p] # v
  BY DEF Supervised, DisksInUse, TypeInv, MonitorOwned
<1>2. starter # v /\ \A u \in VM \ {v} : disks'[u] = disks[u]
  BY DEF DisksInUse, TypeInv, TypeOK
<1>3. starter \in VM \cup {NoVM}
  BY DEF TypeInv, TypeOK
<1>a. \A p \in Proc : Supervised(p)' => Supervised(p) /\ disks'[owner[p]] = disks[owner[p]]
  <2> SUFFICES ASSUME NEW p \in Proc, Supervised(p)'
               PROVE  Supervised(p) /\ disks'[owner[p]] = disks[owner[p]]
    OBVIOUS
  <2>1. Supervised(p) /\ owner[p] \in VM \ {v}
    BY <1>1 DEF Supervised
  <2>2. QED
    BY <1>2, <2>1
<1>4. StarterHolds'
  BY <1>2, <1>3 DEF StarterHolds
<1>5. MonitorHolds'
  BY <1>a DEF MonitorHolds
<1>b. OneHolder'
  BY <1>a DEF OneHolder
<1>6. StarterWaits'
  BY <1>a DEF StarterWaits
<1>7. QED
  BY <1>4, <1>5, <1>6, <1>b

LEMMA LockStep == ~editedLate' /\ LockInv /\ [Next]_vars => LockInv'
<1> SUFFICES ASSUME ~editedLate', LockInv, [Next]_vars PROVE LockInv'
  OBVIOUS
<1> USE DEF LockInv, daemonVars, startVars, procVars, monVars, stopVars, editVars, endVars
<1>0. TypeInv' /\ NoVM \notin VM
  BY TypeStep, ConstantsAssumption
<1>1. ASSUME NEW v \in VM, CallStart(v) PROVE LockInv'
  BY <1>0, <1>1, LockFrame DEF CallStart, lockVars, Supervised
<1>2. ASSUME NEW v \in VM, StartRefused(v) PROVE LockInv'
  BY <1>0, <1>2, LockFrame DEF StartRefused, lockVars, Supervised
<1>3. ASSUME NEW v \in VM, StartBegin(v) PROVE LockInv'
  <2>1. /\ starter' = v /\ v # NoVM /\ toLock' = disks[v]
        /\ UNCHANGED <<disks, lockedFor, owner, launch, fatal, mon>>
    BY <1>0, <1>3 DEF StartBegin
  <2>2. \A p \in Proc : Supervised(p)' <=> Supervised(p)
    BY <2>1 DEF Supervised
  <2>3. QED
    BY <1>0, <2>1, <2>2 DEF StarterHolds, MonitorHolds, StarterWaits, OneHolder
<1>4. ASSUME NEW d \in Disk, LockDisk(d) PROVE LockInv'
  <2>1. /\ d \in toLock /\ lockedFor[d] = NoVM
        /\ lockedFor' = [lockedFor EXCEPT ![d] = starter]
        /\ toLock' = toLock \ {d}
        /\ UNCHANGED <<disks, starter, owner, launch, fatal, mon>>
    BY <1>4 DEF LockDisk
  <2>2. \A p \in Proc : Supervised(p)' <=> Supervised(p)
    BY <2>1 DEF Supervised
  <2>3. lockedFor \in [Disk -> VM \cup {NoVM}] /\ \A p \in Proc : Supervised(p) => owner[p] \in VM
    BY DEF TypeInv, TypeOK, MonitorOwned, Supervised
  <2>4. \A p \in Proc : Supervised(p) => d \notin disks[owner[p]]
    BY <1>0, <2>1, <2>3 DEF MonitorHolds
  <2>5. StarterHolds'
    BY <2>1, <2>3 DEF StarterHolds
  <2>6. MonitorHolds'
    BY <2>1, <2>2, <2>3, <2>4 DEF MonitorHolds
  <2>7. StarterWaits'
    BY <2>1, <2>2, <2>4 DEF StarterWaits
  <2>8. OneHolder'
    BY <2>1, <2>2 DEF OneHolder
  <2>9. QED
    BY <1>0, <2>1, <2>5, <2>6, <2>7, <2>8
<1>5. CASE StartNetFails
  BY <1>0, <1>5, LockStartEnds DEF StartNetFails
<1>6. CASE StartSaveFails
  BY <1>0, <1>6, LockStartEnds DEF StartSaveFails
<1>7. ASSUME NEW p \in Proc, StartSpawn(p) PROVE LockInv'
  <2>1. /\ starter \in VM /\ toLock = {} /\ mon[p] = "none"
        /\ owner' = [owner EXCEPT ![p] = starter]
        /\ launch' = [launch EXCEPT ![p] = disks[starter]]
        /\ mon' = [mon EXCEPT ![p] = "select"]
        /\ starter' = NoVM
        /\ UNCHANGED <<disks, lockedFor, toLock, fatal>>
    BY <1>7 DEF StartSpawn, Free, TypeInv, TypeOK
  <2>2. /\ owner \in [Proc -> VM \cup {NoVM}] /\ launch \in [Proc -> SUBSET Disk]
        /\ mon \in [Proc -> MonitorPc]
    BY DEF TypeInv, TypeOK
  <2>3. /\ owner'[p] = starter /\ launch'[p] = disks[starter]
        /\ \A q \in Proc \ {p} : /\ owner'[q] = owner[q] /\ launch'[q] = launch[q]
                                 /\ Supervised(q)' <=> Supervised(q)
    BY <2>1, <2>2 DEF Supervised
  <2>4. StarterHolds'
    BY <2>1 DEF StarterHolds
  <2>5. MonitorHolds'
    BY <1>0, <2>1, <2>3 DEF StarterHolds, MonitorHolds
  <2>6. StarterWaits'
    BY <1>0, <2>1 DEF StarterWaits, TypeInv, MonitorOwned, Supervised
  <2>7. OneHolder'
    BY <2>1, <2>3 DEF StarterWaits, OneHolder
  <2>8. QED
    BY <1>0, <2>1, <2>4, <2>5, <2>6, <2>7
<1>8. ASSUME NEW p \in Proc, BhyveExits(p) PROVE LockInv'
  BY <1>0, <1>8, LockFrame DEF BhyveExits, lockVars, Supervised
<1>9. ASSUME NEW p \in Proc, Respawn(p) PROVE LockInv'
  BY <1>0, <1>9, LockFrame DEF Respawn, lockVars, Supervised
<1>10. ASSUME NEW p \in Proc, BhyveDone(p) PROVE LockInv'
  BY <1>0, <1>10, LockFrame DEF BhyveDone, lockVars, Supervised
<1>11. ASSUME NEW p \in Proc, MonitorStarted(p) PROVE LockInv'
  BY <1>0, <1>11, LockFrame DEF MonitorStarted, lockVars, Supervised
<1>12. ASSUME NEW p \in Proc, MonitorNoChild(p) PROVE LockInv'
  <2>1. mon[p] = "select" /\ mon' \in {[mon EXCEPT ![p] = "done"], [mon EXCEPT ![p] = "selfstop"]}
    BY <1>12 DEF MonitorNoChild
  <2>2. \A q \in Proc : Supervised(q)' => Supervised(q)
    BY <2>1 DEF Supervised, TypeInv, TypeOK
  <2>3. UNCHANGED lockVars
    BY <1>12 DEF MonitorNoChild, lockVars
  <2>4. QED
    BY <1>0, <2>2, <2>3, LockFrame
<1>13. ASSUME NEW p \in Proc, MonitorStopReturns(p) PROVE LockInv'
  BY <1>0, <1>13, LockFrame DEF MonitorStopReturns, lockVars, Supervised, TypeInv, TypeOK
<1>14. ASSUME NEW p \in Proc, MonitorCrashed(p) PROVE LockInv'
  BY <1>0, <1>14, LockFrame DEF MonitorCrashed, lockVars, Supervised
<1>15. ASSUME NEW p \in Proc, MonitorDone(p) PROVE LockInv'
  BY <1>0, <1>15, LockFrame DEF MonitorDone, lockVars, Supervised, TypeInv, TypeOK
<1>16. ASSUME NEW p \in Proc, DoneSetStopped(p) PROVE LockInv'
  BY <1>0, <1>16, LockFrame DEF DoneSetStopped, lockVars, Supervised, TypeInv, TypeOK
<1>17. ASSUME NEW p \in Proc, DoneUnlockDisks(p) PROVE LockInv'
  <2> DEFINE v == owner[p]
  <2>1. /\ Supervised(p) /\ v \in VM /\ mon' = [mon EXCEPT ![p] = "net"]
        /\ lockedFor' = [d \in Disk |-> IF d \in disks[v] THEN NoVM ELSE lockedFor[d]]
        /\ fatal' = \E d \in disks[v] : lockedFor[d] = NoVM
        /\ UNCHANGED <<disks, starter, toLock, owner, launch>>
    BY <1>17 DEF DoneUnlockDisks, Supervised, TypeInv, MonitorOwned
  <2>2. \A d \in disks[v] : lockedFor[d] = v
    BY <2>1 DEF MonitorHolds
  <2>3. ~fatal'
    BY <1>0, <2>1, <2>2
  <2>4. ~Supervised(p)' /\ \A q \in Proc : Supervised(q)' => Supervised(q)
    BY <2>1 DEF Supervised, TypeInv, TypeOK
  <2>5. \A u \in VM : disks[u] \subseteq Disk
    BY DEF TypeInv, TypeOK
  <2>6. StarterHolds'
    <3>1. CASE starter = v
      BY <1>0, <2>1, <3>1 DEF StarterHolds, StarterWaits
    <3>2. CASE starter # v
      <4>1. starter # NoVM => starter \in VM
        BY DEF TypeInv, TypeOK
      <4>2. QED
        BY <2>1, <2>2, <2>5, <3>2, <4>1 DEF StarterHolds
    <3>3. QED
      BY <3>1, <3>2
  <2>7. MonitorHolds'
    <3> SUFFICES ASSUME NEW q \in Proc, Supervised(q)'
                 PROVE  /\ launch[q] = disks[owner[q]]
                        /\ \A d \in disks[owner[q]] : lockedFor'[d] = owner[q]
      BY <2>1 DEF MonitorHolds
    <3>1. /\ Supervised(q) /\ q # p /\ owner[q] \in VM
          /\ launch[q] = disks[owner[q]]
          /\ \A d \in disks[owner[q]] : lockedFor[d] = owner[q]
      BY <2>4 DEF MonitorHolds, Supervised, TypeInv, MonitorOwned
    <3>2. CASE owner[q] = v
      BY <2>1, <3>1, <3>2 DEF OneHolder
    <3>3. CASE owner[q] # v
      BY <2>1, <2>2, <2>5, <3>1, <3>3
    <3>4. QED
      BY <3>2, <3>3
  <2>8. StarterWaits' /\ OneHolder'
    BY <2>1, <2>4 DEF StarterWaits, OneHolder
  <2>9. QED
    BY <1>0, <2>3, <2>6, <2>7, <2>8
<1>18. ASSUME NEW p \in Proc, DoneNetStop(p) PROVE LockInv'
  BY <1>0, <1>18, LockFrame DEF DoneNetStop, lockVars, Supervised, TypeInv, TypeOK
<1>19. ASSUME NEW v \in VM, RequestStop(v) PROVE LockInv'
  BY <1>0, <1>19, LockFrame DEF RequestStop, lockVars, Supervised
<1>20. ASSUME NEW v \in VM, NEW c \in Caller, StopStep(v, c) PROVE LockInv'
  BY <1>0, <1>20, LockFrame
     DEF StopStep, StopCheck, StopWithoutProc, StopProc, StopReturns, lockVars, Supervised
<1>21. CASE StopAll
  BY <1>0, <1>21, LockFrame DEF StopAll, lockVars, Supervised
<1>22. CASE Exit
  BY <1>0, <1>22, LockFrame DEF Exit, lockVars, Supervised
<1>23. ASSUME NEW v \in VM, EditStep(v) \/ \E S \in SUBSET Disk : AttachBegin(v, S) PROVE LockInv'
  <2>1. ASSUME NEW S \in SUBSET Disk, AttachBegin(v, S) PROVE LockInv'
    BY <1>0, <2>1, LockFrame DEF AttachBegin, Edits, editFrame, lockVars, Supervised
  <2>2. CASE AttachEmpty(v)
    <3>1. {} \in SUBSET Disk /\ disks' = [disks EXCEPT ![v] = {}] /\ ~DisksInUse(v)
      BY <2>2 DEF AttachEmpty
    <3>2. UNCHANGED <<lockedFor, starter, toLock, owner, launch, mon, fatal>>
      BY <2>2 DEF AttachEmpty, editFrame
    <3>3. QED
      BY <1>0, <3>1, <3>2, LockEdit
  <2>3. ASSUME NEW d \in Disk, AttachDisk(v, d) PROVE LockInv'
    <3>1. disks[v] \cup {d} \in SUBSET Disk
      BY DEF TypeInv, TypeOK
    <3>2. disks' = [disks EXCEPT ![v] = disks[v] \cup {d}] /\ ~DisksInUse(v)
      BY <2>3 DEF AttachDisk
    <3>3. UNCHANGED <<lockedFor, starter, toLock, owner, launch, mon, fatal>>
      BY <2>3 DEF AttachDisk, editFrame
    <3>4. QED
      BY <1>0, <3>1, <3>2, <3>3, LockEdit
  <2>4. CASE AttachFails(v)
    BY <1>0, <2>4, LockFrame DEF AttachFails, editFrame, lockVars, Supervised
  <2>5. QED
    BY <1>23, <2>1, <2>2, <2>3, <2>4 DEF EditStep
<1>24. CASE UNCHANGED vars
  BY <1>0, <1>24, LockFrame DEF vars, lockVars, Supervised
<1>25. QED
  BY <1>1, <1>2, <1>3, <1>4, <1>5, <1>6, <1>7, <1>8, <1>9, <1>10, <1>11, <1>12, <1>13, <1>14,
     <1>15, <1>16, <1>17, <1>18, <1>19, <1>20, <1>21, <1>22, <1>23, <1>24
     DEF Next, Step, StartStep, SupervisorStep, MonitorStep

LEMMA LockOrLateStep == LockOrLate /\ [Next]_vars => LockOrLate'
<1> SUFFICES ASSUME LockOrLate, [Next]_vars PROVE LockOrLate'
  OBVIOUS
<1>1. TypeInv'
  BY TypeStep DEF LockOrLate
<1>2. editedLate => editedLate'
  BY EditsOnly DEF editVars, EditAction, EditStep, AttachBegin, Edits, AttachEmpty, AttachDisk,
     AttachFails
<1>3. QED
  BY <1>1, <1>2, LockStep DEF LockOrLate

\* Whatever the database attaches to whom, however edits race and also during a shutdown,
\* the mutexes of a VM are held from vmProc.Start until Done() unlocks them and no mutex
\* is unlocked twice, as long as no edit writes v.Disks between a Start() and its unlock.
THEOREM DiskLocks == Spec => [](LocksCoverProcess /\ NoUnlockOfUnlocked)
<1>1. Init => LockOrLate
  BY LockInit DEF LockOrLate, LockInv
<1>2. LockOrLate /\ [Next]_vars => LockOrLate'
  BY LockOrLateStep
<1>3. LockOrLate => LocksCoverProcess /\ NoUnlockOfUnlocked
  BY DEF LockOrLate, LockInv, MonitorHolds, LocksCoverProcess, NoUnlockOfUnlocked
<1>4. QED
  BY <1>1, <1>2, <1>3, PTL DEF Spec
-----------------------------------------------------------------------------
(* The lease. Beyond LockInv it needs that nobody holds a disk that is not   *)
(* attached to him: GiveBack returns all that is held, Done() all that is    *)
(* attached.                                                                 *)

HeldAreAttached == \A d \in Disk : lockedFor[d] # NoVM => d \in disks[lockedFor[d]]

LeaseInv == LockInv /\ HeldAreAttached

LEMMA LeaseInit == Init => LeaseInv
<1> SUFFICES ASSUME Init PROVE LeaseInv
  OBVIOUS
<1>1. HeldAreAttached
  BY DEF Init, HeldAreAttached
<1>2. QED
  BY <1>1, LockInit DEF LeaseInv

\* All that the processes of a VM have open is what it holds.
LEMMA InUseIsHeld ==
  ASSUME LeaseInv, NEW v \in VM, NEW p \in Proc, Supervised(p), owner[p] = v
  PROVE  InUse(v) = disks[v] /\ Lease!Held(v) = disks[v]
<1> USE DEF LeaseInv, LockInv
<1>1. \A q \in Proc : Supervised(q) /\ owner[q] = v => launch[q] = disks[v]
  BY DEF MonitorHolds
<1>2. disks[v] \subseteq Disk /\ v # NoVM
  BY ConstantsAssumption DEF TypeInv, TypeOK
<1>3. \A d \in Disk : lockedFor[d] = v <=> d \in disks[v]
  BY <1>2 DEF MonitorHolds, HeldAreAttached
<1>4. InUse(v) = disks[v]
  BY <1>1 DEF InUse
<1>5. QED
  BY <1>2, <1>3, <1>4 DEF Lease!Held

LEMMA NothingInUse ==
  ASSUME NEW v, \A p \in Proc : Supervised(p) /\ owner[p] = v => launch[p] = {}
  PROVE  InUse(v) = {}
  BY DEF InUse

\* A step that neither locks nor unlocks and keeps who is supervised is no step of the
\* lease.
LEMMA LeaseFrame ==
  ASSUME HeldAreAttached, UNCHANGED lockVars, \A p \in Proc : Supervised(p)' <=> Supervised(p)
  PROVE  HeldAreAttached' /\ UNCHANGED Lease!vars
<1>1. \A v : InUse(v)' = InUse(v)
  BY DEF InUse, lockVars
<1>2. QED
  BY <1>1 DEF lockVars, HeldAreAttached, Lease!vars

LEMMA LeaseStep ==
  ~AttachEdits /\ LeaseInv /\ [Next]_vars => LeaseInv' /\ [Lease!Next]_(Lease!vars)
<1>i. ASSUME ~AttachEdits, LeaseInv, [Next]_vars PROVE ~editedLate' /\ LockInv'
  <2>1. ~editedLate'
    BY <1>i, TypeStep DEF LeaseInv, LockInv, TypeInv, EditsIdle
  <2>2. QED
    BY <1>i, <2>1, LockStep DEF LeaseInv
<1> SUFFICES ASSUME ~AttachEdits, LeaseInv, [Next]_vars
             PROVE  HeldAreAttached' /\ [Lease!Next]_(Lease!vars)
  BY <1>i DEF LeaseInv
<1> USE DEF daemonVars, startVars, procVars, monVars, stopVars, editVars, endVars
<1>0. LockInv /\ HeldAreAttached /\ LockInv' /\ NoVM \notin VM
  BY <1>i, ConstantsAssumption DEF LeaseInv
<1> DEFINE Mapped == HeldAreAttached' /\ [Lease!Next]_(Lease!vars)
<1>a. ASSUME UNCHANGED lockVars, \A p \in Proc : Supervised(p)' <=> Supervised(p) PROVE Mapped
  BY <1>0, <1>a, LeaseFrame
<1>1. ASSUME NEW d \in Disk, LockDisk(d) PROVE Mapped
  <2>1. /\ starter \in VM /\ d \in disks[starter] /\ lockedFor[d] = NoVM
        /\ lockedFor' = [lockedFor EXCEPT ![d] = starter]
        /\ UNCHANGED <<disks, owner, launch, mon>>
    BY <1>0, <1>1 DEF LockDisk, LockInv, StarterHolds, TypeInv, TypeOK
  <2>2. \A p \in Proc : Supervised(p) => owner[p] # starter
    BY <1>0, <2>1 DEF LockInv, MonitorHolds
  <2>3. InUse(starter) = {}
    BY <2>2, NothingInUse
  <2>4. \A v : InUse(v)' = InUse(v)
    BY <2>1 DEF InUse, Supervised
  <2>5. Lease!Take(starter, d)
    BY <2>1, <2>3, <2>4 DEF Lease!Take
  <2>6. HeldAreAttached'
    BY <1>0, <2>1 DEF HeldAreAttached, LockInv, TypeInv, TypeOK
  <2>7. QED
    BY <2>1, <2>5, <2>6 DEF Lease!Next
<1>2. ASSUME NEW p \in Proc, StartSpawn(p) PROVE Mapped
  <2> PICK v \in VM : v = starter
    BY <1>0, <1>2 DEF StartSpawn, LockInv, TypeInv, TypeOK
  <2>1. /\ v \in VM /\ v = starter /\ toLock = {} /\ mon[p] = "none"
        /\ owner' = [owner EXCEPT ![p] = v]
        /\ launch' = [launch EXCEPT ![p] = disks[v]]
        /\ mon' = [mon EXCEPT ![p] = "select"]
        /\ UNCHANGED <<disks, lockedFor>>
    BY <1>0, <1>2 DEF StartSpawn, Free, LockInv, TypeInv, TypeOK
  <2>2. /\ owner \in [Proc -> VM \cup {NoVM}] /\ launch \in [Proc -> SUBSET Disk]
        /\ mon \in [Proc -> MonitorPc] /\ disks[v] \subseteq Disk
    BY <1>0, <2>1 DEF LockInv, TypeInv, TypeOK
  <2>3. /\ owner'[p] = v /\ launch'[p] = disks[v] /\ Supervised(p)' /\ ~Supervised(p)
        /\ \A q \in Proc \ {p} : /\ owner'[q] = owner[q] /\ launch'[q] = launch[q]
                                 /\ Supervised(q)' <=> Supervised(q)
    BY <2>1, <2>2 DEF Supervised
  <2>a. \A q \in Proc : Supervised(q) /\ owner[q] = v => launch[q] = {}
    BY <1>0, <2>1 DEF LockInv, StarterWaits, MonitorHolds
  <2>4. InUse(v) = {}
    BY <2>a, NothingInUse
  <2>5. HeldAreAttached'
    BY <1>0, <2>1 DEF HeldAreAttached
  <2>6. InUse(v)' = Lease!Held(v)
    <3>1. \A d \in Disk : lockedFor[d] = v <=> d \in disks[v]
      BY <1>0, <2>1 DEF LockInv, StarterHolds, HeldAreAttached
    <3>2. Lease!Held(v) = disks[v]
      BY <2>2, <3>1 DEF Lease!Held
    <3>3. \A q \in Proc : Supervised(q)' /\ owner'[q] = v => launch'[q] \subseteq disks[v]
      BY <2>a, <2>1, <2>2 DEF Supervised
    <3>4. InUse(v)' = disks[v]
      BY <2>3, <3>3 DEF InUse
    <3>5. QED
      BY <3>2, <3>4
  <2>7. \A u \in VM \ {v} : InUse(u)' = InUse(u)
    <3>1. \A u \in VM \ {v}, q \in Proc :
            /\ Supervised(q)' /\ owner'[q] = u <=> Supervised(q) /\ owner[q] = u
            /\ owner'[q] = u => launch'[q] = launch[q]
      BY <2>1, <2>2 DEF Supervised
    <3>2. QED
      BY <3>1 DEF InUse
  <2>8. Lease!Use(v)
    BY <2>1, <2>4, <2>6, <2>7 DEF Lease!Use
  <2>9. QED
    BY <2>1, <2>5, <2>8 DEF Lease!Next
<1>3. ASSUME NEW p \in Proc, DoneUnlockDisks(p) PROVE Mapped
  <2> DEFINE v == owner[p]
  <2>1. /\ Supervised(p) /\ v \in VM /\ mon' = [mon EXCEPT ![p] = "net"]
        /\ lockedFor' = [d \in Disk |-> IF d \in disks[v] THEN NoVM ELSE lockedFor[d]]
        /\ UNCHANGED <<disks, owner, launch>>
    BY <1>0, <1>3 DEF DoneUnlockDisks, Supervised, LockInv, TypeInv, MonitorOwned
  <2>2. InUse(v) = disks[v] /\ Lease!Held(v) = disks[v]
    BY <1>0, <2>1, InUseIsHeld DEF LeaseInv
  <2>3. ~Supervised(p)' /\ \A q \in Proc \ {p} : Supervised(q)' <=> Supervised(q)
    BY <1>0, <2>1 DEF Supervised, LockInv, TypeInv, TypeOK
  <2>4. InUse(v)' = {}
    <3>1. \A q \in Proc : Supervised(q)' /\ owner[q] = v => launch[q] = {}
      BY <1>0, <2>1, <2>3 DEF LockInv, OneHolder, MonitorHolds
    <3>2. QED
      BY <2>1, <3>1 DEF InUse
  <2>5. \A u \in VM \ {v} : InUse(u)' = InUse(u)
    BY <2>1, <2>3 DEF InUse
  <2>6. lockedFor' = [d \in Disk |-> IF lockedFor[d] = v THEN NoVM ELSE lockedFor[d]]
    BY <2>1, <2>2 DEF Lease!Held
  <2>7. Lease!GiveBack(v)
    BY <2>1, <2>2, <2>4, <2>5, <2>6 DEF Lease!GiveBack
  <2>8. HeldAreAttached'
    BY <1>0, <2>1 DEF HeldAreAttached
  <2>9. QED
    BY <2>1, <2>7, <2>8 DEF Lease!Next
<1>4. ASSUME NEW v \in VM, CallStart(v) \/ StartRefused(v) \/ StartBegin(v) PROVE Mapped
  <2>1. HeldAreAttached' /\ \A u : InUse(u)' = InUse(u)
    BY <1>0, <1>4 DEF CallStart, StartRefused, StartBegin, HeldAreAttached, InUse, Supervised
  <2>2. QED
    BY <1>4, <2>1 DEF CallStart, StartRefused, StartBegin, Lease!vars
<1>5. CASE StartNetFails \/ StartSaveFails
  <2>1. HeldAreAttached' /\ \A u : InUse(u)' = InUse(u)
    BY <1>0, <1>5 DEF StartNetFails, StartSaveFails, HeldAreAttached, InUse, Supervised
  <2>2. QED
    BY <1>5, <2>1 DEF StartNetFails, StartSaveFails, Lease!vars
<1>6. ASSUME NEW p \in Proc, SupervisorStep(p) PROVE Mapped
  BY <1>6, <1>a DEF SupervisorStep, BhyveExits, Respawn, BhyveDone, lockVars, Supervised
<1>7. ASSUME NEW p \in Proc, MonitorStarted(p) \/ MonitorCrashed(p) PROVE Mapped
  BY <1>7, <1>a DEF MonitorStarted, MonitorCrashed, lockVars, Supervised
<1>8. ASSUME NEW p \in Proc, MonitorNoChild(p) PROVE Mapped
  <2>1. mon[p] = "select" /\ mon' \in {[mon EXCEPT ![p] = "done"], [mon EXCEPT ![p] = "selfstop"]}
    BY <1>8 DEF MonitorNoChild
  <2>2. \A q \in Proc : Supervised(q)' <=> Supervised(q)
    BY <1>0, <2>1 DEF Supervised, LockInv, TypeInv, TypeOK
  <2>3. UNCHANGED lockVars
    BY <1>8 DEF MonitorNoChild, lockVars
  <2>4. QED
    BY <1>a, <2>2, <2>3
<1>9. ASSUME NEW p \in Proc, MonitorStopReturns(p) \/ MonitorDone(p) \/ DoneSetStopped(p)
      PROVE  Mapped
  <2>1. UNCHANGED lockVars
    BY <1>9 DEF MonitorStopReturns, MonitorDone, DoneSetStopped, lockVars
  <2>2. \A q \in Proc : Supervised(q)' <=> Supervised(q)
    BY <1>0, <1>9
       DEF MonitorStopReturns, MonitorDone, DoneSetStopped, Supervised, LockInv, TypeInv, TypeOK
  <2>3. QED
    BY <1>a, <2>1, <2>2
<1>10. ASSUME NEW p \in Proc, DoneNetStop(p) PROVE Mapped
  <2>1. UNCHANGED lockVars
    BY <1>10 DEF DoneNetStop, lockVars
  <2>2. \A q \in Proc : Supervised(q)' <=> Supervised(q)
    BY <1>0, <1>10 DEF DoneNetStop, Supervised, LockInv, TypeInv, TypeOK
  <2>3. QED
    BY <1>a, <2>1, <2>2
<1>11. ASSUME NEW v \in VM, RequestStop(v) \/ \E c \in Caller : StopStep(v, c) PROVE Mapped
  BY <1>11, <1>a
     DEF RequestStop, StopStep, StopCheck, StopWithoutProc, StopProc, StopReturns, lockVars,
         Supervised
<1>12. CASE StopAll \/ Exit
  BY <1>12, <1>a DEF StopAll, Exit, lockVars, Supervised
<1>13. ASSUME NEW v \in VM, EditStep(v) \/ \E S \in SUBSET Disk : AttachBegin(v, S) PROVE Mapped
  <2>1. edit[v] = "none"
    BY <1>0 DEF LockInv, TypeInv, EditsIdle
  <2>2. QED
    BY <1>13, <2>1 DEF EditStep, AttachBegin, AttachEmpty, AttachDisk, AttachFails
<1>14. CASE UNCHANGED vars
  BY <1>14, <1>a DEF vars, lockVars, Supervised
<1>15. QED
  BY <1>1, <1>2, <1>3, <1>4, <1>5, <1>6, <1>7, <1>8, <1>9, <1>10, <1>11, <1>12, <1>13, <1>14
     DEF Next, Step, StartStep, MonitorStep

\* Without edits of the attachments the goroutines implement the lease: what DiskLease
\* says holds of the mutexes and of every bhyve, for any number of VMs and disks.
THEOREM LeaseImplemented ==
  ASSUME ~AttachEdits
  PROVE  Spec => LeaseKept
<1>1. Init => Lease!Init
  <2> SUFFICES ASSUME Init PROVE Lease!Init
    OBVIOUS
  <2>1. \A p \in Proc : ~Supervised(p)
    BY DEF Init, Supervised
  <2>2. \A v : InUse(v) = {}
    BY <2>1, NothingInUse
  <2>3. QED
    BY <2>2 DEF Init, Lease!Init
<1>2. LeaseInv /\ [Next]_vars => LeaseInv' /\ [Lease!Next]_(Lease!vars)
  BY LeaseStep
<1>3. QED
  BY <1>1, <1>2, LeaseInit, PTL DEF Spec, Lease!Spec, LeaseKept
-----------------------------------------------------------------------------
(* One process per VM. Until Done() publishes STOPPED, the monitor of a VM   *)
(* belongs to its newest process, and no Start() of the VM gets past its     *)
(* check. A stop only meets a VM without a process at shutdown.              *)

Attending(p) == mon[p] \in {"select", "selfstop", "done"}

MonitorIsNewest ==
  \A p \in Proc : Attending(p) =>
    procOf[owner[p]] = p /\ starter # owner[p] /\ status[owner[p]] # "STOPPED"

ProcessMonitored ==
  \A p \in Proc : procSt[p] # "gone" =>
    mon[p] \in {"select", "selfstop"} /\ launch[p] = disks[owner[p]]

SelfStopWaits == \A p \in Proc : mon[p] = "selfstop" => monStop[p] = p

StarterNotStopped == starter # NoVM => status[starter] # "STOPPED"

\* Whoever may be stopped has had a process.
StopsFindProcess ==
  \A v \in VM :
    /\ stopPc[v]["shutdown"] = "idle"
    /\ status[v] = "RUNNING" \/ stopPc[v]["request"] # "idle" => procOf[v] # NoProc

\* v.mu keeps a VM as AttachDisks found it.
EditsStopped == \A v \in VM : edit[v] # "none" => status[v] = "STOPPED"

ProcInv ==
  /\ TypeInv /\ MonitorIsNewest /\ ProcessMonitored /\ SelfStopWaits
  /\ StarterNotStopped /\ StopsFindProcess /\ EditsStopped

LEMMA ProcInit == Init => ProcInv
<1> SUFFICES ASSUME Init PROVE ProcInv
  OBVIOUS
<1>1. MonitorIsNewest /\ ProcessMonitored /\ SelfStopWaits /\ StarterNotStopped
  BY DEF Init, MonitorIsNewest, ProcessMonitored, SelfStopWaits, StarterNotStopped, Attending
<1>2. StopsFindProcess
  BY DEF Init, StopsFindProcess, Caller
<1>3. QED
  BY <1>1, <1>2, TypeInit DEF ProcInv, Init, EditsStopped

\* Nobody publishes another status for a VM while its v.mu is held.
LEMMA EditsStoppedStep == TypeInv /\ EditsStopped /\ [Next]_vars => EditsStopped'
<1> SUFFICES ASSUME TypeInv, EditsStopped, [Next]_vars PROVE EditsStopped'
  OBVIOUS
<1> USE DEF daemonVars, startVars, procVars, monVars, stopVars, endVars
<1>1. CASE EditAction
  BY <1>1 DEF EditAction, EditStep, AttachBegin, Edits, AttachEmpty, AttachDisk, AttachFails,
     Remains, editFrame, EditsStopped, TypeInv, TypeOK
<1>2. CASE ~EditAction
  <2>1. UNCHANGED edit
    BY <1>2, EditsOnly DEF editVars
  <2>2. \A v \in VM : MuFree(v) \/ status'[v] = status[v]
    <3>1. CASE \E v \in VM : \/ CallStart(v) \/ StartRefused(v) \/ StartBegin(v)
                           \/ RequestStop(v) \/ \E c \in Caller : StopStep(v, c)
      BY <3>1 DEF CallStart, StartRefused, StartBegin, RequestStop, StopStep, StopCheck,
         StopWithoutProc, StopProc, StopReturns, TypeInv, TypeOK
    <3>2. CASE StartStep
      BY <3>2 DEF StartStep, LockDisk, StartNetFails, StartSaveFails, StartSpawn
    <3>3. ASSUME NEW p \in Proc, SupervisorStep(p) \/ MonitorStep(p)
          PROVE  \A v \in VM : MuFree(v) \/ status'[v] = status[v]
      BY <3>3 DEF SupervisorStep, BhyveExits, Respawn, BhyveDone, MonitorStep, MonitorStarted,
         MonitorNoChild, MonitorStopReturns, MonitorCrashed, MonitorDone, DoneSetStopped,
         DoneUnlockDisks, DoneNetStop, TypeInv, TypeOK
    <3>4. CASE StopAll \/ Exit \/ UNCHANGED vars
      BY <3>4 DEF StopAll, Exit, vars
    <3>5. QED
      BY <1>2, <3>1, <3>2, <3>3, <3>4 DEF Next, Step, EditAction
  <2>3. QED
    BY <2>1, <2>2 DEF EditsStopped, MuFree
<1>3. QED
  BY <1>1, <1>2

\* A step that leaves monitors, processes, stops and the starter alone, and the status of
\* all VMs, or the number of waiting calls.
LEMMA ProcFrame ==
  ASSUME ProcInv, TypeInv',
         EditsStopped',
         UNCHANGED <<status, disks, starter, procOf, owner, launch, procSt, mon, monStop, stopPc>>
  PROVE  ProcInv'
<1> USE DEF ProcInv
<1>1. MonitorIsNewest' /\ ProcessMonitored' /\ SelfStopWaits'
  BY DEF MonitorIsNewest, ProcessMonitored, SelfStopWaits, Attending
<1>2. StarterNotStopped' /\ StopsFindProcess'
  BY DEF StarterNotStopped, StopsFindProcess
<1>3. QED
  BY <1>1, <1>2

LEMMA ProcStep == ~StopAllAllowed /\ ProcInv /\ [Next]_vars => ProcInv'
<1> SUFFICES ASSUME ~StopAllAllowed, ProcInv, [Next]_vars PROVE ProcInv'
  OBVIOUS
<1> USE DEF daemonVars, startVars, procVars, monVars, stopVars, editVars, endVars
<1>0. /\ TypeInv' /\ NoVM \notin VM /\ NoProc \notin Proc
      /\ MonitorIsNewest /\ ProcessMonitored /\ SelfStopWaits /\ StarterNotStopped
      /\ StopsFindProcess /\ MonitorOwned /\ EditsStopped /\ EditsStopped'
  BY TypeStep, EditsStoppedStep, ConstantsAssumption DEF ProcInv, TypeInv
<1>t. /\ status \in [VM -> StatusType] /\ procOf \in [VM -> Proc \cup {NoProc}]
      /\ owner \in [Proc -> VM \cup {NoVM}] /\ launch \in [Proc -> SUBSET Disk]
      /\ procSt \in [Proc -> ProcStatus] /\ mon \in [Proc -> MonitorPc]
      /\ monStop \in [Proc -> Proc \cup {NoProc}] /\ starter \in VM \cup {NoVM}
      /\ stopPc \in [VM -> [Caller -> StopPc]] /\ disks \in [VM -> SUBSET Disk]
  BY DEF ProcInv, TypeInv, TypeOK
<1> DEFINE Five == /\ MonitorIsNewest' /\ ProcessMonitored' /\ SelfStopWaits'
                   /\ StarterNotStopped' /\ StopsFindProcess'
<1>q. Five => ProcInv'
  BY <1>0 DEF ProcInv
<1> HIDE DEF Five
<1>1. ASSUME NEW v \in VM, CallStart(v) \/ StartRefused(v) PROVE ProcInv'
  BY <1>0, <1>1, ProcFrame DEF CallStart, StartRefused
<1>2. ASSUME NEW v \in VM, StartBegin(v) PROVE ProcInv'
  <2>1. /\ starter = NoVM /\ status[v] = "STOPPED" /\ starter' = v
        /\ status' = [status EXCEPT ![v] = "STARTING"]
        /\ UNCHANGED <<disks, procOf, owner, launch, procSt, mon, monStop, stopPc>>
    BY <1>2 DEF StartBegin
  <2>2. MonitorIsNewest' /\ ProcessMonitored' /\ SelfStopWaits'
    BY <1>0, <1>t, <2>1 DEF MonitorIsNewest, ProcessMonitored, SelfStopWaits, Attending
  <2>3. StarterNotStopped' /\ StopsFindProcess'
    BY <1>0, <1>t, <2>1 DEF StarterNotStopped, StopsFindProcess
  <2>4. QED
    BY <1>q, <2>2, <2>3 DEF Five
<1>3. ASSUME NEW d \in Disk, LockDisk(d) PROVE ProcInv'
  BY <1>0, <1>3, ProcFrame DEF LockDisk
<1>4. CASE StartNetFails \/ StartSaveFails
  <2>1. /\ starter' = NoVM
        /\ UNCHANGED <<status, disks, procOf, owner, launch, procSt, mon, monStop, stopPc>>
    BY <1>4 DEF StartNetFails, StartSaveFails
  <2>2. MonitorIsNewest' /\ ProcessMonitored' /\ SelfStopWaits'
    BY <1>0, <1>t, <2>1
       DEF MonitorIsNewest, ProcessMonitored, SelfStopWaits, Attending, MonitorOwned
  <2>3. StarterNotStopped' /\ StopsFindProcess'
    BY <1>0, <2>1 DEF StarterNotStopped, StopsFindProcess
  <2>4. QED
    BY <1>q, <2>2, <2>3 DEF Five
<1>5. ASSUME NEW p \in Proc, StartSpawn(p) PROVE ProcInv'
  <2> PICK v \in VM : v = starter
    BY <1>5, <1>t DEF StartSpawn
  <2>1. /\ v = starter /\ mon[p] = "none" /\ procSt[p] = "gone"
        /\ \A u \in VM \ {v} : procOf[u] # p
        /\ procOf' = [procOf EXCEPT ![v] = p]
        /\ owner' = [owner EXCEPT ![p] = v]
        /\ launch' = [launch EXCEPT ![p] = disks[v]]
        /\ procSt' = [procSt EXCEPT ![p] = "up"]
        /\ mon' = [mon EXCEPT ![p] = "select"]
        /\ starter' = NoVM
        /\ UNCHANGED <<status, disks, monStop, stopPc>>
    BY <1>5 DEF StartSpawn, Free
  <2>2. \A q \in Proc \ {p} : Attending(q) => owner[q] # v
    BY <1>0, <2>1 DEF MonitorIsNewest
  <2>3. MonitorIsNewest'
    BY <1>0, <1>t, <2>1, <2>2
       DEF MonitorIsNewest, Attending, StarterNotStopped, MonitorOwned
  <2>4. ProcessMonitored' /\ SelfStopWaits'
    BY <1>0, <1>t, <2>1 DEF ProcessMonitored, SelfStopWaits
  <2>5. StarterNotStopped' /\ StopsFindProcess'
    BY <1>0, <1>t, <2>1 DEF StarterNotStopped, StopsFindProcess
  <2>6. QED
    BY <1>q, <2>3, <2>4, <2>5 DEF Five
<1>6. ASSUME NEW p \in Proc, SupervisorStep(p) PROVE ProcInv'
  <2>1. /\ procSt[p] # "gone"
        /\ \A q \in Proc : procSt'[q] # "gone" => procSt[q] # "gone"
        /\ UNCHANGED <<status, disks, starter, procOf, owner, launch, mon, monStop, stopPc>>
    BY <1>6, <1>t DEF SupervisorStep, BhyveExits, Respawn, BhyveDone, Alive
  <2>2. MonitorIsNewest' /\ ProcessMonitored' /\ SelfStopWaits'
    BY <1>0, <2>1 DEF MonitorIsNewest, ProcessMonitored, SelfStopWaits, Attending
  <2>3. StarterNotStopped' /\ StopsFindProcess'
    BY <1>0, <2>1 DEF StarterNotStopped, StopsFindProcess
  <2>4. QED
    BY <1>q, <2>2, <2>3 DEF Five
<1>7. ASSUME NEW p \in Proc, MonitorStarted(p) PROVE ProcInv'
  <2>1. /\ Attending(p) /\ status' = [status EXCEPT ![owner[p]] = "RUNNING"]
        /\ UNCHANGED <<disks, starter, procOf, owner, launch, procSt, mon, monStop, stopPc>>
    BY <1>7 DEF MonitorStarted, Attending
  <2>2. owner[p] \in VM /\ procOf[owner[p]] = p
    BY <1>0, <2>1 DEF MonitorIsNewest, MonitorOwned, Attending
  <2>3. MonitorIsNewest' /\ ProcessMonitored' /\ SelfStopWaits'
    BY <1>0, <1>t, <2>1, <2>2
       DEF MonitorIsNewest, ProcessMonitored, SelfStopWaits, Attending, MonitorOwned
  <2>4. StarterNotStopped' /\ StopsFindProcess'
    BY <1>0, <1>t, <2>1, <2>2 DEF StarterNotStopped, StopsFindProcess
  <2>5. QED
    BY <1>q, <2>3, <2>4 DEF Five
<1>8. ASSUME NEW p \in Proc, MonitorNoChild(p) PROVE ProcInv'
  <2>1. mon[p] = "select" /\ Attending(p)
    BY <1>8 DEF MonitorNoChild, Attending
  <2>2. owner[p] \in VM /\ procOf[owner[p]] = p /\ status[owner[p]] # "STOPPED"
    BY <1>0, <2>1 DEF MonitorIsNewest, MonitorOwned
  <2>3. /\ status' = [status EXCEPT ![owner[p]] = "STOPPING"]
        /\ procSt' = Signalled(p)
        /\ mon' = [mon EXCEPT ![p] = "selfstop"]
        /\ monStop' = [monStop EXCEPT ![p] = p]
        /\ UNCHANGED <<disks, starter, procOf, owner, launch, stopPc>>
    BY <1>8, <2>2 DEF MonitorNoChild
  <2>4. \A q \in Proc : procSt'[q] # "gone" => procSt[q] # "gone"
    BY <1>t, <2>3 DEF Signalled
  <2>5. MonitorIsNewest'
    BY <1>0, <1>t, <2>1, <2>2, <2>3 DEF MonitorIsNewest, Attending, MonitorOwned
  <2>6. ProcessMonitored' /\ SelfStopWaits'
    BY <1>0, <1>t, <2>1, <2>3, <2>4 DEF ProcessMonitored, SelfStopWaits
  <2>7. StarterNotStopped' /\ StopsFindProcess'
    BY <1>0, <1>t, <2>2, <2>3 DEF StarterNotStopped, StopsFindProcess
  <2>8. QED
    BY <1>q, <2>5, <2>6, <2>7 DEF Five
<1>9. ASSUME NEW p \in Proc, MonitorStopReturns(p) \/ MonitorDone(p) PROVE ProcInv'
  <2>1. /\ Attending(p) /\ mon' = [mon EXCEPT ![p] = "done"]
        /\ mon[p] # "selfstop" => UNCHANGED monStop
        /\ \A q \in Proc \ {p} : monStop'[q] = monStop[q]
        /\ UNCHANGED <<status, disks, starter, procOf, owner, launch, procSt, stopPc>>
    BY <1>9, <1>t DEF MonitorStopReturns, MonitorDone, Attending
  <2>2. procSt[p] = "gone"
    BY <1>0, <1>9, <2>1
       DEF MonitorStopReturns, MonitorDone, SelfStopWaits, MonitorIsNewest, Attending
  <2>3. MonitorIsNewest'
    BY <1>0, <1>t, <2>1 DEF MonitorIsNewest, Attending
  <2>4. ProcessMonitored' /\ SelfStopWaits'
    BY <1>0, <1>t, <2>1, <2>2 DEF ProcessMonitored, SelfStopWaits
  <2>5. StarterNotStopped' /\ StopsFindProcess'
    BY <1>0, <2>1 DEF StarterNotStopped, StopsFindProcess
  <2>6. QED
    BY <1>q, <2>3, <2>4, <2>5 DEF Five
<1>10. ASSUME NEW p \in Proc, MonitorCrashed(p) PROVE ProcInv'
  BY <1>0, <1>10, ProcFrame DEF MonitorCrashed
<1>11. ASSUME NEW p \in Proc, DoneSetStopped(p) PROVE ProcInv'
  <2>1. /\ mon[p] = "done" /\ Attending(p)
        /\ status' = [status EXCEPT ![owner[p]] = "STOPPED"]
        /\ mon' = [mon EXCEPT ![p] = "unlock"]
        /\ UNCHANGED <<disks, starter, procOf, owner, launch, procSt, monStop, stopPc>>
    BY <1>11 DEF DoneSetStopped, Attending
  <2>2. owner[p] \in VM /\ procOf[owner[p]] = p /\ starter # owner[p]
    BY <1>0, <2>1 DEF MonitorIsNewest, MonitorOwned
  <2>3. MonitorIsNewest'
    BY <1>0, <1>t, <2>1, <2>2 DEF MonitorIsNewest, Attending, MonitorOwned
  <2>4. ProcessMonitored' /\ SelfStopWaits'
    BY <1>0, <1>t, <2>1 DEF ProcessMonitored, SelfStopWaits
  <2>5. StarterNotStopped' /\ StopsFindProcess'
    BY <1>0, <1>t, <2>1, <2>2 DEF StarterNotStopped, StopsFindProcess
  <2>6. QED
    BY <1>q, <2>3, <2>4, <2>5 DEF Five
<1>12. ASSUME NEW p \in Proc, DoneUnlockDisks(p) \/ DoneNetStop(p) PROVE ProcInv'
  <2>1. /\ mon[p] \in {"unlock", "net"}
        /\ mon' \in {[mon EXCEPT ![p] = "net"], [mon EXCEPT ![p] = "none"]}
        /\ UNCHANGED <<status, disks, starter, procOf, owner, launch, procSt, monStop, stopPc>>
    BY <1>12 DEF DoneUnlockDisks, DoneNetStop
  <2>2. MonitorIsNewest' /\ ProcessMonitored' /\ SelfStopWaits'
    BY <1>0, <1>t, <2>1 DEF MonitorIsNewest, ProcessMonitored, SelfStopWaits, Attending
  <2>3. StarterNotStopped' /\ StopsFindProcess'
    BY <1>0, <2>1 DEF StarterNotStopped, StopsFindProcess
  <2>4. QED
    BY <1>q, <2>2, <2>3 DEF Five
<1>13. ASSUME NEW v \in VM, RequestStop(v) PROVE ProcInv'
  <2>1. /\ status[v] = "RUNNING"
        /\ stopPc' = [stopPc EXCEPT ![v]["request"] = "check"]
        /\ UNCHANGED <<status, disks, starter, procOf, owner, launch, procSt, mon, monStop>>
    BY <1>13 DEF RequestStop
  <2>2. MonitorIsNewest' /\ ProcessMonitored' /\ SelfStopWaits'
    BY <1>0, <2>1 DEF MonitorIsNewest, ProcessMonitored, SelfStopWaits, Attending
  <2>3. StarterNotStopped' /\ StopsFindProcess'
    BY <1>0, <1>t, <2>1 DEF StarterNotStopped, StopsFindProcess, Caller
  <2>4. QED
    BY <1>q, <2>2, <2>3 DEF Five
<1>14. ASSUME NEW v \in VM, NEW c \in Caller, StopStep(v, c) PROVE ProcInv'
  <2>0. /\ stopPc[v][c] # "idle" /\ procOf[v] # NoProc /\ c = "request"
        /\ ~StopWithoutProc(v, c)
    BY <1>0, <1>14
       DEF StopStep, StopCheck, StopWithoutProc, StopProc, StopReturns, StopsFindProcess, Caller
  <2>1. /\ \A u \in VM : stopPc'[u]["shutdown"] = "idle"
        /\ \A u \in VM : stopPc'[u]["request"] # "idle" => stopPc[u]["request"] # "idle"
    <3>1. PICK x : stopPc' = [stopPc EXCEPT ![v]["request"] = x]
      BY <1>14, <2>0 DEF StopStep, StopCheck, StopProc, StopReturns
    <3>2. QED
      BY <1>0, <1>t, <2>0, <3>1 DEF StopsFindProcess, Caller
  <2>2. /\ \A q \in Proc : procSt'[q] # "gone" => procSt[q] # "gone"
        /\ status' \in {status, [status EXCEPT ![v] = "STOPPING"]}
        /\ UNCHANGED <<disks, starter, procOf, owner, launch, mon, monStop>>
    BY <1>t, <1>14, <2>0 DEF StopStep, StopCheck, StopProc, StopReturns, Signalled
  <2>3. MonitorIsNewest' /\ ProcessMonitored' /\ SelfStopWaits'
    BY <1>0, <1>t, <2>2
       DEF MonitorIsNewest, ProcessMonitored, SelfStopWaits, Attending, MonitorOwned
  <2>4. StarterNotStopped' /\ StopsFindProcess'
    BY <1>0, <1>t, <2>0, <2>1, <2>2 DEF StarterNotStopped, StopsFindProcess
  <2>5. QED
    BY <1>q, <2>3, <2>4 DEF Five
<1>15. CASE StopAll \/ Exit
  BY <1>0, <1>15, ProcFrame DEF StopAll, Exit
<1>16. ASSUME NEW v \in VM, EditStep(v) \/ \E S \in SUBSET Disk : AttachBegin(v, S) PROVE ProcInv'
  <2>1. /\ status[v] = "STOPPED" /\ \A u \in VM \ {v} : disks'[u] = disks[u]
        /\ UNCHANGED <<status, starter, procOf, owner, launch, procSt, mon, monStop, stopPc>>
    BY <1>0, <1>t, <1>16 DEF EditStep, AttachBegin, Edits, AttachEmpty, AttachDisk, AttachFails,
       editFrame, EditsStopped
  <2>2. \A p \in Proc : procSt[p] # "gone" => owner[p] \in VM /\ owner[p] # v
    BY <1>0, <2>1 DEF ProcessMonitored, MonitorIsNewest, MonitorOwned, Attending
  <2>3. ProcessMonitored'
    BY <1>0, <1>t, <2>1, <2>2 DEF ProcessMonitored
  <2>4. MonitorIsNewest' /\ SelfStopWaits' /\ StarterNotStopped' /\ StopsFindProcess'
    BY <1>0, <2>1
       DEF MonitorIsNewest, SelfStopWaits, StarterNotStopped, StopsFindProcess, Attending
  <2>5. QED
    BY <1>q, <2>3, <2>4 DEF Five
<1>17. CASE UNCHANGED vars
  BY <1>0, <1>17, ProcFrame DEF vars
<1>18. QED
  BY <1>1, <1>2, <1>3, <1>4, <1>5, <1>6, <1>7, <1>8, <1>9, <1>10, <1>11, <1>12, <1>13, <1>14,
     <1>15, <1>16, <1>17
     DEF Next, Step, StartStep, MonitorStep

\* Up to the first two edits that race, no disk has two VMs, counting the one that is about
\* to get it.
DisksApart ==
  /\ \A u, v \in VM : u # v => disks[u] \cap disks[v] = {}
  /\ \A u, v \in VM : u # v /\ edit[v] # "none" => edit[u] = "none" /\ toAttach[v] \cap disks[u] = {}

LEMMA ApartStep ==
  TypeInv /\ (editsRaced \/ DisksApart) /\ [Next]_vars => editsRaced' \/ DisksApart'
<1> SUFFICES ASSUME TypeInv, editsRaced \/ DisksApart, [Next]_vars, ~editsRaced' PROVE DisksApart'
  OBVIOUS
<1>1. CASE UNCHANGED <<disks, editVars>>
  BY <1>1 DEF DisksApart, editVars
<1>2. ASSUME NEW v \in VM, EditStep(v) \/ \E S \in SUBSET Disk : AttachBegin(v, S)
      PROVE  DisksApart'
  <2>t. disks \in [VM -> SUBSET Disk] /\ edit \in [VM -> EditPc] /\ toAttach \in [VM -> SUBSET Disk]
    BY DEF TypeInv, TypeOK
  <2>0. DisksApart
    BY <1>2 DEF EditStep, AttachBegin, Edits, AttachEmpty, AttachDisk, AttachFails
  <2>1. ASSUME NEW S \in SUBSET Disk, AttachBegin(v, S) PROVE DisksApart'
    BY <2>t, <2>0, <2>1 DEF AttachBegin, Edits, MuFree, DisksApart
  <2>2. CASE AttachEmpty(v)
    BY <2>t, <2>0, <2>2 DEF AttachEmpty, Remains, DisksApart
  <2>3. ASSUME NEW d \in Disk, AttachDisk(v, d) PROVE DisksApart'
    BY <2>t, <2>0, <2>3 DEF AttachDisk, Remains, DisksApart
  <2>4. CASE AttachFails(v)
    BY <2>t, <2>0, <2>4 DEF AttachFails, Remains, DisksApart
  <2>5. QED
    BY <1>2, <2>1, <2>2, <2>3, <2>4 DEF EditStep
<1>3. QED
  BY <1>1, <1>2, EditsOnly DEF EditAction

\* While the daemon is not told to shut down, a VM has one bhyve at most, is not STOPPED
\* while it has one, and bhyve has the disks that v.Disks shows, whatever clients attach
\* at any moment and however many starts, stops and crashes overlap.
THEOREM OneProcess ==
  ASSUME ~StopAllAllowed
  PROVE  Spec => [](OneProcessPerVM /\ StoppedMeansNoProcess /\ LaunchedDisksFrozen)
<1>1. ProcInv => OneProcessPerVM /\ StoppedMeansNoProcess /\ LaunchedDisksFrozen
  <2> SUFFICES ASSUME ProcInv
               PROVE  OneProcessPerVM /\ StoppedMeansNoProcess /\ LaunchedDisksFrozen
    OBVIOUS
  <2>1. \A p \in Proc : Alive(p) =>
          /\ procOf[owner[p]] = p /\ status[owner[p]] # "STOPPED"
          /\ launch[p] = disks[owner[p]]
    BY DEF ProcInv, MonitorIsNewest, ProcessMonitored, Attending, Alive
  <2>2. QED
    BY <2>1 DEF OneProcessPerVM, StoppedMeansNoProcess, LaunchedDisksFrozen
<1>2. QED
  BY <1>1, ProcInit, ProcStep, PTL DEF Spec

\* When, in addition, the database gives no disk to two VMs at the start of the daemon, two
\* bhyve processes have a disk open together only if two edits raced and one came between
\* a SetStopped and its unlockDisks: before the first the attachments are apart, before the
\* second the mutexes are.
THEOREM DisksUnshared ==
  ASSUME ~StopAllAllowed,
         \A f \in InitDisks : \A u, v \in VM : u # v => f[u] \cap f[v] = {}
  PROVE  Spec => []NoSharedDisk
<1> DEFINE Apart == editsRaced \/ DisksApart
<1>1. Init => Apart
  BY DEF Init, DisksApart
<1>2. ProcInv /\ LockOrLate /\ Apart => NoSharedDisk
  <2> SUFFICES ASSUME ProcInv, LockOrLate, Apart, NEW p \in Proc, NEW q \in Proc,
                      Alive(p), Alive(q), p # q, ~(editsRaced /\ editedLate)
               PROVE  launch[p] \cap launch[q] = {}
    BY DEF NoSharedDisk
  <2>1. \A r \in {p, q} : /\ owner[r] \in VM /\ procOf[owner[r]] = r
                         /\ launch[r] = disks[owner[r]] /\ Supervised(r)
    BY DEF ProcInv, TypeInv, MonitorOwned, MonitorIsNewest, ProcessMonitored, Attending, Alive,
       Supervised
  <2>2. owner[p] # owner[q]
    BY <2>1
  <2>3. CASE ~editsRaced
    BY <2>1, <2>2, <2>3 DEF DisksApart
  <2>4. CASE ~editedLate
    BY <2>1, <2>2, <2>4 DEF LockOrLate, LockInv, MonitorHolds
  <2>5. QED
    BY <2>3, <2>4
<1>3. ProcInv /\ LockOrLate /\ Apart /\ [Next]_vars => ProcInv' /\ LockOrLate' /\ Apart'
  BY ProcStep, LockOrLateStep, ApartStep DEF ProcInv
<1>4. Init => ProcInv /\ LockOrLate
  BY ProcInit, LockInit DEF LockOrLate, LockInv
<1>5. QED
  BY <1>1, <1>2, <1>3, <1>4, PTL DEF Spec

-----------------------------------------------------------------------------
(* What a VM holds is on its way back once the VM is STOPPED: a Done() is    *)
(* between SetStopped and the unlocking, or the removal of the interfaces.   *)

Leftovers ==
  \A v \in VM : status[v] = "STOPPED" /\ starter # v =>
    /\ (\E d \in Disk : lockedFor[d] = v) => \E p \in Proc : owner[p] = v /\ mon[p] = "unlock"
    /\ netUp[v] => \E p \in Proc : owner[p] = v /\ mon[p] \in {"unlock", "net"}

RestInv == LeaseInv /\ ProcInv /\ Leftovers

LEMMA LeftoversStep ==
  ~AttachEdits /\ ~StopAllAllowed /\ RestInv /\ [Next]_vars => Leftovers'
<1> SUFFICES ASSUME ~AttachEdits, ~StopAllAllowed, RestInv, [Next]_vars PROVE Leftovers'
  OBVIOUS
<1> USE DEF daemonVars, startVars, procVars, monVars, stopVars, editVars, endVars
<1>0. /\ HeldAreAttached /\ MonitorHolds /\ MonitorIsNewest /\ StarterNotStopped
      /\ StopsFindProcess /\ MonitorOwned /\ Leftovers /\ NoVM \notin VM /\ StarterHolds
  BY ConstantsAssumption DEF RestInv, LeaseInv, LockInv, ProcInv, TypeInv
<1>t. /\ status \in [VM -> StatusType] /\ owner \in [Proc -> VM \cup {NoVM}]
      /\ mon \in [Proc -> MonitorPc] /\ starter \in VM \cup {NoVM}
      /\ lockedFor \in [Disk -> VM \cup {NoVM}] /\ netUp \in [VM -> BOOLEAN]
      /\ disks \in [VM -> SUBSET Disk]
  BY DEF RestInv, ProcInv, TypeInv, TypeOK
<1>a. ASSUME \A v \in VM : status'[v] = "STOPPED" => status[v] = "STOPPED",
             \A p \in Proc : mon[p] \in {"unlock", "net"} => mon'[p] = mon[p],
             UNCHANGED <<lockedFor, netUp, owner, starter>>
      PROVE  Leftovers'
  BY <1>0, <1>a DEF Leftovers
<1>1. ASSUME NEW v \in VM, CallStart(v) \/ StartRefused(v) PROVE Leftovers'
  BY <1>a, <1>1 DEF CallStart, StartRefused
<1>2. ASSUME NEW v \in VM, StartBegin(v) PROVE Leftovers'
  <2>1. /\ starter = NoVM /\ starter' = v /\ status' = [status EXCEPT ![v] = "STARTING"]
        /\ UNCHANGED <<lockedFor, netUp, owner, mon>>
    BY <1>2 DEF StartBegin
  <2>2. QED
    BY <1>0, <1>t, <2>1 DEF Leftovers
<1>3. ASSUME NEW d \in Disk, LockDisk(d) PROVE Leftovers'
  <2>1. /\ starter \in VM /\ lockedFor' = [lockedFor EXCEPT ![d] = starter]
        /\ UNCHANGED <<status, starter, netUp, owner, mon>>
    BY <1>0, <1>t, <1>3 DEF LockDisk, StarterHolds
  <2>2. QED
    BY <1>0, <1>t, <2>1 DEF Leftovers
<1>4. CASE StartNetFails \/ StartSaveFails
  <2>1. /\ starter \in VM /\ starter' = NoVM /\ UNCHANGED <<status, lockedFor, owner, mon>>
        /\ \A v \in VM \ {starter} : netUp'[v] = netUp[v]
    BY <1>t, <1>4 DEF StartNetFails, StartSaveFails
  <2>2. status[starter] # "STOPPED"
    BY <1>0, <2>1 DEF StarterNotStopped
  <2>3. QED
    BY <1>0, <2>1, <2>2 DEF Leftovers
<1>5. ASSUME NEW p \in Proc, StartSpawn(p) PROVE Leftovers'
  <2> PICK v \in VM : v = starter
    BY <1>5, <1>t DEF StartSpawn
  <2>1. /\ mon[p] = "none" /\ starter' = NoVM
        /\ owner' = [owner EXCEPT ![p] = v] /\ mon' = [mon EXCEPT ![p] = "select"]
        /\ netUp' = [netUp EXCEPT ![v] = TRUE]
        /\ UNCHANGED <<status, lockedFor>>
    BY <1>5 DEF StartSpawn, Free
  <2>2. status[v] # "STOPPED"
    BY <1>0 DEF StarterNotStopped
  <2>3. \A q \in Proc : mon[q] \in {"unlock", "net"} => mon'[q] = mon[q] /\ owner'[q] = owner[q]
    BY <1>t, <2>1
  <2>4. \A u \in VM : status'[u] = "STOPPED" =>
          u # v /\ status[u] = "STOPPED" /\ starter # u /\ netUp'[u] = netUp[u]
    BY <1>t, <2>1, <2>2
  <2>5. ASSUME NEW u \in VM, status'[u] = "STOPPED"
        PROVE  /\ (\E d \in Disk : lockedFor'[d] = u) =>
                    \E q \in Proc : owner'[q] = u /\ mon'[q] = "unlock"
               /\ netUp'[u] => \E q \in Proc : owner'[q] = u /\ mon'[q] \in {"unlock", "net"}
    <3>1. status[u] = "STOPPED" /\ starter # u /\ netUp'[u] = netUp[u]
      BY <2>4, <2>5
    <3>2. (\E d \in Disk : lockedFor'[d] = u) =>
            \E q \in Proc : owner[q] = u /\ mon[q] = "unlock"
      BY <1>0, <2>1, <3>1 DEF Leftovers
    <3>3. netUp'[u] => \E q \in Proc : owner[q] = u /\ mon[q] \in {"unlock", "net"}
      BY <1>0, <3>1 DEF Leftovers
    <3>4. QED
      BY <2>3, <3>2, <3>3
  <2>6. QED
    BY <2>5 DEF Leftovers
<1>6. ASSUME NEW p \in Proc,
             SupervisorStep(p) \/ MonitorStarted(p) \/ MonitorNoChild(p) \/ MonitorStopReturns(p)
             \/ MonitorCrashed(p) \/ MonitorDone(p)
      PROVE  Leftovers'
  <2>1. UNCHANGED <<lockedFor, netUp, owner, starter>>
    BY <1>6 DEF SupervisorStep, BhyveExits, Respawn, BhyveDone, MonitorStarted, MonitorNoChild,
       MonitorStopReturns, MonitorCrashed, MonitorDone
  <2>2. \A v \in VM : status'[v] = "STOPPED" => status[v] = "STOPPED"
    BY <1>t, <1>6 DEF SupervisorStep, BhyveExits, Respawn, BhyveDone, MonitorStarted,
       MonitorNoChild, MonitorStopReturns, MonitorCrashed, MonitorDone
  <2>3. \A q \in Proc : mon[q] \in {"unlock", "net"} => mon'[q] = mon[q]
    BY <1>t, <1>6 DEF SupervisorStep, BhyveExits, Respawn, BhyveDone, MonitorStarted,
       MonitorNoChild, MonitorStopReturns, MonitorCrashed, MonitorDone
  <2>4. QED
    BY <1>a, <2>1, <2>2, <2>3
<1>7. ASSUME NEW p \in Proc, DoneSetStopped(p) PROVE Leftovers'
  <2>1. /\ owner[p] \in VM /\ mon[p] = "done"
        /\ status' = [status EXCEPT ![owner[p]] = "STOPPED"]
        /\ mon' = [mon EXCEPT ![p] = "unlock"]
        /\ UNCHANGED <<lockedFor, netUp, owner, starter>>
    BY <1>0, <1>7 DEF DoneSetStopped, MonitorOwned
  <2>2. mon'[p] = "unlock" /\ \A q \in Proc \ {p} : mon'[q] = mon[q]
    BY <1>t, <2>1
  <2>3. QED
    BY <1>0, <1>t, <2>1, <2>2 DEF Leftovers
<1>8. ASSUME NEW p \in Proc, DoneUnlockDisks(p) PROVE Leftovers'
  <2>1. /\ owner[p] \in VM /\ mon[p] = "unlock" /\ mon' = [mon EXCEPT ![p] = "net"]
        /\ lockedFor' = [d \in Disk |-> IF d \in disks[owner[p]] THEN NoVM ELSE lockedFor[d]]
        /\ UNCHANGED <<status, netUp, owner, starter>>
    BY <1>0, <1>8 DEF DoneUnlockDisks, MonitorOwned
  <2>2. mon'[p] = "net" /\ \A q \in Proc \ {p} : mon'[q] = mon[q]
    BY <1>t, <2>1
  <2>3. \A d \in Disk : lockedFor'[d] # owner[p]
    BY <1>0, <2>1 DEF HeldAreAttached
  <2>4. \A v \in VM, d \in Disk : lockedFor'[d] = v => lockedFor[d] = v
    BY <1>0, <1>t, <2>1
  <2>5. QED
    BY <1>0, <2>1, <2>2, <2>3, <2>4 DEF Leftovers
<1>9. ASSUME NEW p \in Proc, DoneNetStop(p) PROVE Leftovers'
  <2>1. /\ owner[p] \in VM /\ mon[p] = "net" /\ mon' = [mon EXCEPT ![p] = "none"]
        /\ netUp' = [netUp EXCEPT ![owner[p]] = FALSE]
        /\ UNCHANGED <<status, lockedFor, owner, starter>>
    BY <1>0, <1>9 DEF DoneNetStop, MonitorOwned
  <2>2. \A q \in Proc \ {p} : mon'[q] = mon[q]
    BY <1>t, <2>1
  <2>3. ~netUp'[owner[p]] /\ \A v \in VM : netUp'[v] => netUp[v] /\ v # owner[p]
    BY <1>t, <2>1
  <2>4. QED
    BY <1>0, <2>1, <2>2, <2>3 DEF Leftovers
<1>10. ASSUME NEW v \in VM, RequestStop(v) PROVE Leftovers'
  BY <1>a, <1>10 DEF RequestStop
<1>11. ASSUME NEW v \in VM, NEW c \in Caller, StopStep(v, c) PROVE Leftovers'
  <2>1. ~StopWithoutProc(v, c)
    BY <1>0 DEF StopWithoutProc, StopsFindProcess, Caller
  <2>2. /\ status' \in {status, [status EXCEPT ![v] = "STOPPING"]}
        /\ UNCHANGED <<lockedFor, netUp, owner, starter, mon>>
    BY <1>11, <2>1 DEF StopStep, StopCheck, StopProc, StopReturns
  <2>3. QED
    BY <1>a, <1>t, <2>2
<1>12. CASE StopAll \/ Exit
  BY <1>a, <1>12 DEF StopAll, Exit
<1>13. ASSUME NEW v \in VM, EditStep(v) \/ \E S \in SUBSET Disk : AttachBegin(v, S)
       PROVE  Leftovers'
  <2>1. edit[v] = "none"
    BY DEF RestInv, ProcInv, TypeInv, EditsIdle
  <2>2. QED
    BY <1>13, <2>1 DEF EditStep, AttachBegin, AttachEmpty, AttachDisk, AttachFails
<1>14. CASE UNCHANGED vars
  BY <1>a, <1>14 DEF vars
<1>15. QED
  BY <1>1, <1>2, <1>3, <1>4, <1>5, <1>6, <1>7, <1>8, <1>9, <1>10, <1>11, <1>12, <1>13, <1>14
     DEF Next, Step, StartStep, MonitorStep

\* However a VM ended, once it is STOPPED and its Done() has returned it has neither a
\* mutex of a disk nor an interface. (No edits of attachments, no shutdown.)
THEOREM AllGivenBack ==
  ASSUME ~AttachEdits, ~StopAllAllowed
  PROVE  Spec => []StoppedHoldsNothing
<1>1. Init => RestInv
  <2>1. Init => Leftovers
    BY ConstantsAssumption DEF Init, Leftovers
  <2>2. QED
    BY <2>1, LeaseInit, ProcInit DEF RestInv
<1>2. RestInv /\ [Next]_vars => RestInv'
  BY LeaseStep, ProcStep, LeftoversStep DEF RestInv
<1>3. RestInv => StoppedHoldsNothing
  BY DEF RestInv, Leftovers, StoppedHoldsNothing
<1>4. QED
  BY <1>1, <1>2, <1>3, PTL DEF Spec
=============================================================================
