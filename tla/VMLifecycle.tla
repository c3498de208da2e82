----------------------------- MODULE VMLifecycle -----------------------------
(***************************************************************************)
(* The life of the virtual machines of one cirrinad: Start, Stop and the   *)
(* monitor goroutine of every supervised bhyve process, the mutexes of the *)
(* disks a VM takes with it, its network, and the shutdown of the daemon.  *)
(*                                                                         *)
(* A step is what one goroutine does between two points where another one  *)
(* can get in its way: taking a mutex, waiting for the supervisor, running *)
(* an external command.                                                    *)
(***************************************************************************)
EXTENDS Naturals, FiniteSets

CONSTANTS
  VM,               \* the virtual machines in vm.List
  Disk,             \* the disks in disk.List
  Proc,             \* identities of supervisor processes; reused once forgotten
  NoVM,
  NoProc,
  InitDisks,        \* the attachments the daemon may find in its database
  MaxWaiting,       \* bound: Start() calls of one VM waiting for vmStartLock
  AttachEdits,      \* whether clients edit the disks of a VM (SetVMDisks)
  StopAllAllowed    \* whether the daemon may be told to shut down

ASSUME ConstantsAssumption ==
  /\ NoVM \notin VM
  /\ NoProc \notin Proc
  /\ InitDisks \subseteq [VM -> SUBSET Disk]
  /\ MaxWaiting \in Nat \ {0}
  /\ AttachEdits \in BOOLEAN
  /\ StopAllAllowed \in BOOLEAN

VARIABLES
  status,     \* v.Status
  disks,      \* v.Disks
  lockedFor,  \* the VM whose Start locked the mutex of a disk; NoVM: unlocked
  netUp,      \* whether the interfaces of a VM are built
  waiting,    \* Start() calls waiting for vmStartLock
  starter,    \* the VM whose Start() holds vmStartLock
  toLock,     \* the disks lockDisks has still to lock
  procOf,     \* v.proc
  owner,      \* the VM a process runs
  launch,     \* the disks on the command line of a process
  procSt,     \* what bhyve and its supervisor are doing
  event,      \* the event the supervisor is trying to deliver
  mon,        \* where the monitor goroutine of a process is
  monStop,    \* the process the monitor itself is stopping
  stopPc,     \* where each Stop() call is
  stopOn,     \* the process each Stop() call waits for
  edit,       \* where the SetVMDisks that holds v.mu is
  toAttach,   \* the disks it has still to append to v.Disks
  editsRaced, \* history: two of them were under way at once
  editedLate, \* history: one wrote v.Disks between a Start() and its unlockDisks
  fatal,      \* the runtime died: "sync: unlock of unlocked mutex"
  shutdown    \* shutdownHandler

daemonVars == <<status, disks, lockedFor, netUp>>
startVars  == <<waiting, starter, toLock>>
procVars   == <<procOf, owner, launch, procSt, event>>
monVars    == <<mon, monStop>>
stopVars   == <<stopPc, stopOn>>
editVars   == <<edit, toAttach, editsRaced, editedLate>>
endVars    == <<fatal, shutdown>>
vars == <<daemonVars, startVars, procVars, monVars, stopVars, editVars, endVars>>

-----------------------------------------------------------------------------
(* Values *)

StatusType == {"STOPPED", "STARTING", "RUNNING", "STOPPING"}

\* "up": bhyve runs; "stopping": it runs and was told to stop; "down": it
\* exited and the supervisor will respawn it; "gone": done for good.
ProcStatus == {"up", "stopping", "down", "gone"}

MonitorPc == {"none", "select", "selfstop", "done", "unlock", "net"}

\* A stop comes from a StopVM request or from StopAll at shutdown.
Caller == {"request", "shutdown"}

StopPc == {"idle", "check", "set", "wait"}

EditPc == {"none", "empty", "fill"}

\* Every variable has its type, in particular: no Start() call is answered that was
\* not made, and every monitor that stops something stops a process.
TypeOK ==
  /\ status \in [VM -> StatusType]
  /\ disks \in [VM -> SUBSET Disk]
  /\ lockedFor \in [Disk -> VM \cup {NoVM}]
  /\ netUp \in [VM -> BOOLEAN]
  /\ waiting \in [VM -> 0..MaxWaiting]
  /\ starter \in VM \cup {NoVM}
  /\ toLock \in SUBSET Disk
  /\ procOf \in [VM -> Proc \cup {NoProc}]
  /\ owner \in [Proc -> VM \cup {NoVM}]
  /\ launch \in [Proc -> SUBSET Disk]
  /\ procSt \in [Proc -> ProcStatus]
  /\ event \in [Proc -> {"none", "start", "crashed"}]
  /\ mon \in [Proc -> MonitorPc]
  /\ monStop \in [Proc -> Proc \cup {NoProc}]
  /\ stopPc \in [VM -> [Caller -> StopPc]]
  /\ stopOn \in [VM -> [Caller -> Proc \cup {NoProc}]]
  /\ edit \in [VM -> EditPc]
  /\ toAttach \in [VM -> SUBSET Disk]
  /\ editsRaced \in BOOLEAN /\ editedLate \in BOOLEAN
  /\ fatal \in BOOLEAN
  /\ shutdown \in {"no", "stopping", "exited"}

Alive(p) == procSt[p] \in {"up", "stopping"}

\* The monitor of p has not yet given back what Start took.
Supervised(p) == mon[p] \in {"select", "selfstop", "done", "unlock"}

\* v.mu, which the SetStatus functions take, is not held by a SetVMDisks.
MuFree(v) == edit[v] = "none"

\* p can be handed to a new process: nobody holds it any more, except the VM
\* that is about to replace it.
Free(p, v) ==
  /\ mon[p] = "none" /\ procSt[p] = "gone"
  /\ \A u \in VM \ {v} : procOf[u] # p
  /\ \A u \in VM, c \in Caller : stopOn[u][c] # p
  /\ \A q \in Proc : monStop[q] # p

-----------------------------------------------------------------------------
(* Start() *)

\* doAutostart, or the startVM handler: vmStartLock.Lock()
CallStart(v) ==
  /\ waiting[v] < MaxWaiting
  /\ waiting' = [waiting EXCEPT ![v] = @ + 1]
  /\ UNCHANGED <<daemonVars, starter, toLock, procVars, monVars, stopVars, editVars, endVars>>

\* Mutant: a refused call is counted twice.
StartRefusedTwice(v) ==
  /\ starter = NoVM /\ status[v] # "STOPPED"
  /\ waiting' = [waiting EXCEPT ![v] = @ - 1]
  /\ UNCHANGED <<daemonVars, starter, toLock, procVars, monVars, stopVars, editVars, endVars>>

StartRefused(v) ==
  /\ starter = NoVM /\ waiting[v] > 0
  /\ status[v] # "STOPPED"
  /\ waiting' = [waiting EXCEPT ![v] = @ - 1]
  /\ UNCHANGED <<daemonVars, starter, toLock, procVars, monVars, stopVars, editVars, endVars>>

\* Mutant: Start() also accepts a VM that is STOPPING.
StartBeginWhileStopping(v) ==
  /\ starter = NoVM /\ waiting[v] > 0 /\ MuFree(v)
  /\ status[v] \in {"STOPPED", "STOPPING"}
  /\ waiting' = [waiting EXCEPT ![v] = @ - 1]
  /\ starter' = v
  /\ status' = [status EXCEPT ![v] = "STARTING"]
  /\ toLock' = disks[v]
  /\ UNCHANGED <<disks, lockedFor, netUp, procVars, monVars, stopVars, editVars, endVars>>

\* SetStarting; lockDisks walks the slice v.Disks held on entry.
StartBegin(v) ==
  /\ starter = NoVM /\ waiting[v] > 0 /\ MuFree(v)
  /\ status[v] = "STOPPED"
  /\ waiting' = [waiting EXCEPT ![v] = @ - 1]
  /\ starter' = v
  /\ status' = [status EXCEPT ![v] = "STARTING"]
  /\ toLock' = disks[v]
  /\ UNCHANGED <<disks, lockedFor, netUp, procVars, monVars, stopVars, editVars, endVars>>

\* The slice is locked in the order of the user's list, which is any order.
LockDisk(d) ==
  /\ d \in toLock /\ lockedFor[d] = NoVM
  /\ lockedFor' = [lockedFor EXCEPT ![d] = starter]
  /\ toLock' = toLock \ {d}
  /\ UNCHANGED <<status, disks, netUp, waiting, starter, procVars, monVars, stopVars, editVars, endVars>>

\* The NICs of the VM cannot be read from the database: NetStop, return the error.
StartNetFails ==
  /\ starter # NoVM /\ toLock = {}
  /\ netUp' = [netUp EXCEPT ![starter] = FALSE]
  /\ starter' = NoVM
  /\ UNCHANGED <<status, disks, lockedFor, waiting, toLock, procVars, monVars, stopVars, editVars, endVars>>

\* Save fails after the network was built.
StartSaveFails ==
  /\ starter # NoVM /\ toLock = {}
  /\ netUp' = [netUp EXCEPT ![starter] = TRUE]
  /\ starter' = NoVM
  /\ UNCHANGED <<status, disks, lockedFor, waiting, toLock, procVars, monVars, stopVars, editVars, endVars>>

\* generateCommandLine, netStart, NewProcess, go monitor, vmProc.Start.
StartSpawn(p) ==
  /\ starter # NoVM /\ toLock = {}
  /\ Free(p, starter)
  /\ netUp' = [netUp EXCEPT ![starter] = TRUE]
  /\ procOf' = [procOf EXCEPT ![starter] = p]
  /\ owner' = [owner EXCEPT ![p] = starter]
  /\ launch' = [launch EXCEPT ![p] = disks[starter]]
  /\ procSt' = [procSt EXCEPT ![p] = "up"]
  /\ event' = [event EXCEPT ![p] = "start"]
  /\ mon' = [mon EXCEPT ![p] = "select"]
  /\ starter' = NoVM
  /\ UNCHANGED <<status, disks, lockedFor, waiting, toLock, monStop, stopVars, editVars, endVars>>

-----------------------------------------------------------------------------
(* The supervisor and bhyve, from how Start and monitor use them: every    *)
(* exit that nobody asked for may be final (the guest powered off) or be   *)
(* followed by a respawn (reboot, crash); a Stop ends the process; events  *)
(* go through an unbuffered channel that only the monitor reads.           *)

Sent(p, e) == [event EXCEPT ![p] = IF mon[p] = "select" THEN e ELSE "none"]

BhyveExits(p) ==
  /\ procSt[p] = "up" /\ event[p] = "none"
  /\ procSt' = [procSt EXCEPT ![p] = "down"]
  /\ event' = Sent(p, "crashed")
  /\ UNCHANGED <<daemonVars, startVars, procOf, owner, launch, monVars, stopVars, editVars, endVars>>

Respawn(p) ==
  /\ procSt[p] = "down" /\ event[p] = "none"
  /\ procSt' = [procSt EXCEPT ![p] = "up"]
  /\ event' = Sent(p, "start")
  /\ UNCHANGED <<daemonVars, startVars, procOf, owner, launch, monVars, stopVars, editVars, endVars>>

BhyveDone(p) ==
  /\ Alive(p)
  /\ procSt' = [procSt EXCEPT ![p] = "gone"]
  /\ UNCHANGED <<daemonVars, startVars, procOf, owner, launch, event, monVars, stopVars, editVars, endVars>>

\* proc.Stop() on process p, which returns when p is gone.
Signalled(p) ==
  [procSt EXCEPT ![p] = CASE @ = "up" -> "stopping" [] @ = "down" -> "gone" [] OTHER -> @]

-----------------------------------------------------------------------------
(* The monitor goroutine. It waits on its own event channel but looks at   *)
(* v.proc, the newest process of the VM, for everything else.              *)

\* findChildProcName found bhyve: SetRunning, setupComLoggers.
MonitorStarted(p) ==
  /\ mon[p] = "select" /\ event[p] = "start"
  /\ Alive(procOf[owner[p]]) /\ MuFree(owner[p])
  /\ event' = [event EXCEPT ![p] = "none"]
  /\ status' = [status EXCEPT ![owner[p]] = "RUNNING"]
  /\ UNCHANGED <<disks, lockedFor, netUp, startVars, procOf, owner, launch, procSt,
                 monVars, stopVars, editVars, endVars>>

\* It did not, because bhyve exited or because sudo has not yet forked it:
\* Stop(), then Done(). Stop() leaves a VM alone that is STOPPED already.
MonitorNoChild(p) ==
  LET v == owner[p] IN
  /\ mon[p] = "select" /\ event[p] = "start"
  /\ event' = [event EXCEPT ![p] = "none"]
  /\ \/ /\ status[v] = "STOPPED"
        /\ mon' = [mon EXCEPT ![p] = "done"]
        /\ UNCHANGED <<status, procSt, monStop>>
     \/ /\ status[v] # "STOPPED" /\ MuFree(v)
        /\ status' = [status EXCEPT ![v] = "STOPPING"]
        /\ procSt' = Signalled(procOf[v])
        /\ mon' = [mon EXCEPT ![p] = "selfstop"]
        /\ monStop' = [monStop EXCEPT ![p] = procOf[v]]
  /\ UNCHANGED <<disks, lockedFor, netUp, startVars, procOf, owner, launch, stopVars, editVars, endVars>>

MonitorStopReturns(p) ==
  /\ mon[p] = "selfstop" /\ procSt[monStop[p]] = "gone"
  /\ mon' = [mon EXCEPT ![p] = "done"]
  /\ monStop' = [monStop EXCEPT ![p] = NoProc]
  /\ UNCHANGED <<daemonVars, startVars, procVars, stopVars, editVars, endVars>>

\* Mutant: a crash is taken for the end of the VM and its disks are unlocked.
MonitorCrashedUnlocks(p) ==
  /\ mon[p] = "select" /\ event[p] = "crashed"
  /\ event' = [event EXCEPT ![p] = "none"]
  /\ lockedFor' = [d \in Disk |-> IF d \in disks[owner[p]] THEN NoVM ELSE lockedFor[d]]
  /\ UNCHANGED <<status, disks, netUp, startVars, procOf, owner, launch, procSt,
                 monVars, stopVars, editVars, endVars>>

\* Mutant: a crash is taken for the end of the VM, which becomes STOPPED.
MonitorCrashedStops(p) ==
  /\ mon[p] = "select" /\ event[p] = "crashed"
  /\ event' = [event EXCEPT ![p] = "none"]
  /\ status' = [status EXCEPT ![owner[p]] = "STOPPED"]
  /\ UNCHANGED <<disks, lockedFor, netUp, startVars, procOf, owner, launch, procSt,
                 monVars, stopVars, editVars, endVars>>

\* ProcessCrashed: the com loggers go, disks and NICs are left alone.
MonitorCrashed(p) ==
  /\ mon[p] = "select" /\ event[p] = "crashed"
  /\ event' = [event EXCEPT ![p] = "none"]
  /\ UNCHANGED <<daemonVars, startVars, procOf, owner, launch, procSt, monVars, stopVars, editVars, endVars>>

\* The DoneNotifier is closed of the process that was v.proc when the select was
\* entered. A pending event is lost.
MonitorDone(p) ==
  /\ mon[p] = "select" /\ \E q \in {p, procOf[owner[p]]} : procSt[q] = "gone"
  /\ mon' = [mon EXCEPT ![p] = "done"]
  /\ event' = [event EXCEPT ![p] = "none"]
  /\ UNCHANGED <<daemonVars, startVars, procOf, owner, launch, procSt, monStop, stopVars, editVars, endVars>>

\* Done() is three steps: SetStopped, unlockDisks, NetStop.
DoneSetStopped(p) ==
  /\ mon[p] = "done" /\ MuFree(owner[p])
  /\ status' = [status EXCEPT ![owner[p]] = "STOPPED"]
  /\ mon' = [mon EXCEPT ![p] = "unlock"]
  /\ UNCHANGED <<disks, lockedFor, netUp, startVars, procVars, monStop, stopVars, editVars, endVars>>

\* Mutant: Done() forgets the disks of a VM.
DoneKeepsDisks(p) ==
  /\ mon[p] = "unlock"
  /\ mon' = [mon EXCEPT ![p] = "net"]
  /\ UNCHANGED <<daemonVars, startVars, procVars, monStop, stopVars, editVars, endVars>>

DoneUnlockDisks(p) ==
  LET mine == disks[owner[p]] IN
  /\ mon[p] = "unlock"
  /\ mon' = [mon EXCEPT ![p] = "net"]
  /\ lockedFor' = [d \in Disk |-> IF d \in mine THEN NoVM ELSE lockedFor[d]]
  /\ fatal' = \E d \in mine : lockedFor[d] = NoVM
  /\ UNCHANGED <<status, disks, netUp, startVars, procVars, monStop, stopVars, editVars, shutdown>>

\* Mutant: Done() leaves the interfaces of the VM behind.
DoneKeepsNet(p) ==
  /\ mon[p] = "net"
  /\ mon' = [mon EXCEPT ![p] = "none"]
  /\ UNCHANGED <<daemonVars, startVars, procVars, monStop, stopVars, editVars, endVars>>

DoneNetStop(p) ==
  /\ mon[p] = "net"
  /\ netUp' = [netUp EXCEPT ![owner[p]] = FALSE]
  /\ mon' = [mon EXCEPT ![p] = "none"]
  /\ UNCHANGED <<status, disks, lockedFor, startVars, procVars, monStop, stopVars, editVars, endVars>>

-----------------------------------------------------------------------------
(* Stop() *)

\* The StopVM RPC accepts only a RUNNING VM; its handler calls Stop() later,
\* and one handler at a time gets that far for a VM.
RequestStop(v) ==
  /\ status[v] = "RUNNING" /\ stopPc[v]["request"] = "idle"
  /\ stopPc' = [stopPc EXCEPT ![v]["request"] = "check"]
  /\ UNCHANGED <<daemonVars, startVars, procVars, monVars, stopOn, editVars, endVars>>

\* shutdownHandler: StopAll starts one goroutine per VM that is not STOPPED.
StopAll ==
  /\ StopAllAllowed /\ shutdown = "no"
  /\ shutdown' = "stopping"
  /\ stopPc' = [v \in VM |->
                  IF status[v] = "STOPPED" THEN stopPc[v]
                  ELSE [stopPc[v] EXCEPT !["shutdown"] = "check"]]
  /\ UNCHANGED <<daemonVars, startVars, procVars, monVars, stopOn, editVars, fatal>>

StopCheck(v, c) ==
  /\ stopPc[v][c] = "check"
  /\ stopPc' = [stopPc EXCEPT ![v][c] = IF status[v] = "STOPPED" THEN "idle" ELSE "set"]
  /\ UNCHANGED <<daemonVars, startVars, procVars, monVars, stopOn, editVars, endVars>>

\* Mutant: Stop() waits for a process it never signalled.
StopProcSilently(v, c) ==
  /\ stopPc[v][c] = "set" /\ procOf[v] # NoProc /\ MuFree(v)
  /\ status' = [status EXCEPT ![v] = "STOPPING"]
  /\ stopPc' = [stopPc EXCEPT ![v][c] = "wait"]
  /\ stopOn' = [stopOn EXCEPT ![v][c] = procOf[v]]
  /\ UNCHANGED <<disks, lockedFor, netUp, startVars, procVars, monVars, editVars, endVars>>

\* SetStopping, then SetStopped at once when no process was ever made.
StopWithoutProc(v, c) ==
  /\ stopPc[v][c] = "set" /\ procOf[v] = NoProc /\ MuFree(v)
  /\ status' = [status EXCEPT ![v] = "STOPPED"]
  /\ stopPc' = [stopPc EXCEPT ![v][c] = "idle"]
  /\ UNCHANGED <<disks, lockedFor, netUp, startVars, procVars, monVars, stopOn, editVars, endVars>>

StopProc(v, c) ==
  /\ stopPc[v][c] = "set" /\ procOf[v] # NoProc /\ MuFree(v)
  /\ status' = [status EXCEPT ![v] = "STOPPING"]
  /\ procSt' = Signalled(procOf[v])
  /\ stopPc' = [stopPc EXCEPT ![v][c] = "wait"]
  /\ stopOn' = [stopOn EXCEPT ![v][c] = procOf[v]]
  /\ UNCHANGED <<disks, lockedFor, netUp, startVars, procOf, owner, launch, event,
                 monVars, editVars, endVars>>

StopReturns(v, c) ==
  /\ stopPc[v][c] = "wait" /\ procSt[stopOn[v][c]] = "gone"
  /\ stopPc' = [stopPc EXCEPT ![v][c] = "idle"]
  /\ stopOn' = [stopOn EXCEPT ![v][c] = NoProc]
  /\ UNCHANGED <<daemonVars, startVars, procVars, monVars, editVars, endVars>>

\* GetRunningVMs() = 0: shutdownHandler removes the pid file and the daemon ends.
Exit ==
  /\ shutdown = "stopping"
  /\ \A v \in VM : status[v] = "STOPPED"
  /\ shutdown' = "exited"
  /\ UNCHANGED <<daemonVars, startVars, procVars, monVars, stopVars, editVars, fatal>>

-----------------------------------------------------------------------------
(* SetVMDisks: AttachDisks under v.mu. What it looks at of the other VMs is *)
(* not under any mutex. The check is one step: it means something only as   *)
(* long as no other edit is under way, which editsRaced says.               *)

editFrame == <<status, lockedFor, netUp, startVars, procVars, monVars, stopVars, endVars>>

\* From SetStarting to unlockDisks.
DisksInUse(v) == starter = v \/ \E p \in Proc : owner[p] = v /\ Supervised(p)

Edits(v, S) ==
  /\ edit' = [edit EXCEPT ![v] = "empty"]
  /\ toAttach' = [toAttach EXCEPT ![v] = S]
  /\ editsRaced' = (editsRaced \/ \E u \in VM \ {v} : edit[u] # "none")
  /\ UNCHANGED <<disks, editedLate, editFrame>>

\* Mutant: the disks of a VM can be edited while it runs.
AttachBeginAnyStatus(v, S) ==
  /\ AttachEdits /\ MuFree(v)
  /\ \A u \in VM \ {v} : S \cap disks[u] = {}
  /\ Edits(v, S)

\* Mutant: the disks of the other VMs are not looked at.
AttachBeginTaken(v, S) ==
  /\ AttachEdits /\ MuFree(v)
  /\ status[v] = "STOPPED"
  /\ Edits(v, S)

\* v.mu.Lock(), validateDisks: only a STOPPED VM, only disks no other VM has.
AttachBegin(v, S) ==
  /\ AttachEdits /\ MuFree(v)
  /\ status[v] = "STOPPED"
  /\ \A u \in VM \ {v} : S \cap disks[u] = {}
  /\ Edits(v, S)

\* v.Disks is emptied, and then filled one by one; Save and v.mu.Unlock() go with the
\* last write.
Remains(v, S) ==
  /\ toAttach' = [toAttach EXCEPT ![v] = S]
  /\ edit' = [edit EXCEPT ![v] = IF S = {} THEN "none" ELSE "fill"]

AttachEmpty(v) ==
  /\ edit[v] = "empty"
  /\ disks' = [disks EXCEPT ![v] = {}]
  /\ Remains(v, toAttach[v])
  /\ editedLate' = (editedLate \/ DisksInUse(v))
  /\ UNCHANGED <<editsRaced, editFrame>>

AttachDisk(v, d) ==
  /\ edit[v] = "fill" /\ d \in toAttach[v]
  /\ disks' = [disks EXCEPT ![v] = @ \cup {d}]
  /\ Remains(v, toAttach[v] \ {d})
  /\ editedLate' = (editedLate \/ DisksInUse(v))
  /\ UNCHANGED <<editsRaced, editFrame>>

\* A disk is not found any more: the edit ends half way, without Save.
AttachFails(v) ==
  /\ edit[v] = "fill"
  /\ Remains(v, {})
  /\ UNCHANGED <<disks, editsRaced, editedLate, editFrame>>

-----------------------------------------------------------------------------
Init ==
  /\ status = [v \in VM |-> "STOPPED"]
  /\ disks \in InitDisks
  /\ lockedFor = [d \in Disk |-> NoVM]
  /\ netUp = [v \in VM |-> FALSE]
  /\ waiting = [v \in VM |-> 0]
  /\ starter = NoVM
  /\ toLock = {}
  /\ procOf = [v \in VM |-> NoProc]
  /\ owner = [p \in Proc |-> NoVM]
  /\ launch = [p \in Proc |-> {}]
  /\ procSt = [p \in Proc |-> "gone"]
  /\ event = [p \in Proc |-> "none"]
  /\ mon = [p \in Proc |-> "none"]
  /\ monStop = [p \in Proc |-> NoProc]
  /\ stopPc = [v \in VM |-> [c \in Caller |-> "idle"]]
  /\ stopOn = [v \in VM |-> [c \in Caller |-> NoProc]]
  /\ edit = [v \in VM |-> "none"]
  /\ toAttach = [v \in VM |-> {}]
  /\ editsRaced = FALSE /\ editedLate = FALSE
  /\ fatal = FALSE
  /\ shutdown = "no"

StartStep ==
  \/ \E d \in Disk : LockDisk(d)
  \/ StartNetFails
  \/ StartSaveFails
  \/ \E p \in Proc : StartSpawn(p)

MonitorStep(p) ==
  \/ MonitorStarted(p) \/ MonitorNoChild(p) \/ MonitorStopReturns(p)
  \/ MonitorCrashed(p) \/ MonitorDone(p)
  \/ DoneSetStopped(p) \/ DoneUnlockDisks(p) \/ DoneNetStop(p)

StopStep(v, c) ==
  StopCheck(v, c) \/ StopWithoutProc(v, c) \/ StopProc(v, c) \/ StopReturns(v, c)

EditStep(v) == AttachEmpty(v) \/ (\E d \in Disk : AttachDisk(v, d)) \/ AttachFails(v)

SupervisorStep(p) == BhyveExits(p) \/ Respawn(p) \/ BhyveDone(p)

Step ==
  \/ \E v \in VM : CallStart(v) \/ StartRefused(v) \/ StartBegin(v)
  \/ StartStep
  \/ \E p \in Proc : SupervisorStep(p) \/ MonitorStep(p)
  \/ \E v \in VM : RequestStop(v) \/ (\E c \in Caller : StopStep(v, c))
  \/ StopAll
  \/ Exit
  \/ \E v \in VM : EditStep(v) \/ (\E S \in SUBSET Disk : AttachBegin(v, S))

Running == ~fatal /\ shutdown # "exited"

Next == Running /\ Step

Spec == Init /\ [][Next]_vars

\* Go schedules every goroutine that can run, and a mutex goes to a waiter; a
\* process that was told to stop ends, the supervisor kills it after max_wait.
\* Nothing makes a guest power off or a client send a request.
Fairness ==
  /\ WF_vars(Running /\ StartStep)
  /\ \A p \in Proc : WF_vars(Running /\ MonitorStep(p))
  /\ \A v \in VM, c \in Caller : WF_vars(Running /\ StopStep(v, c))
  /\ \A v \in VM : WF_vars(Running /\ EditStep(v))
  /\ \A p \in Proc : WF_vars(Running /\ procSt[p] = "stopping" /\ BhyveDone(p))

FairSpec == Spec /\ Fairness

-----------------------------------------------------------------------------
(* Properties *)

\* From vmProc.Start until Done() unlocks them, the mutex of every disk on the
\* command line of a supervised bhyve is held on behalf of its VM, across
\* crashes, respawns, other starts and stops, even when racing edits or the
\* database give one disk to two VMs. An edit may do anything but write to
\* v.Disks between a Start() and its unlockDisks (AttachDisks does not know
\* that a VM which is STOPPED may still hold its mutexes).
LocksCoverProcess ==
  ~editedLate =>
    \A p \in Proc : Supervised(p) =>
      \A d \in launch[p] : lockedFor[d] = owner[p]

\* The disks of the processes of a VM whose end Done() has not yet dealt with.
InUse(v) == UNION {launch[p] : p \in {q \in Proc : Supervised(q) /\ owner[q] = v}}

Lease == INSTANCE DiskLease WITH holder <- lockedFor, inUse <- [v \in VM |-> InUse(v)]

\* The mutexes are a lease: only a Start() takes a disk, only the end of all that uses
\* the disks of a VM gives them back, all at once, and never those of another VM; no
\* crash, stop, shutdown or failed start in between does. Needs that nobody edits
\* the attachments.
LeaseKept == Lease!Spec

\* unlockDisks never meets an unlocked mutex, which would end the daemon and,
\* at the next start, every VM with it; only an edit between SetStopped and
\* unlockDisks of one Done() can bring that about.
NoUnlockOfUnlocked == ~editedLate => ~fatal

\* A VM never has two bhyve processes: Start() turns down every VM whose
\* process may still be alive, whatever events, stops and crashes are pending.
OneProcessPerVM ==
  \A p, q \in Proc : Alive(p) /\ Alive(q) /\ owner[p] = owner[q] => p = q

\* While bhyve is alive, v.Disks is what bhyve was started with: AttachDisks
\* cannot get in between SetStarting, the command line and the end of bhyve.
LaunchedDisksFrozen ==
  \A p \in Proc : Alive(p) => launch[p] = disks[owner[p]]

\* Two bhyve processes never have one disk open at the same time, unless two edits
\* raced (each looked at the other VM before the other had written) and one wrote to
\* v.Disks while a Done() had yet to unlock it: the check in AttachDisks and the
\* mutexes each do for the failure of the other.
NoSharedDisk ==
  ~(editsRaced /\ editedLate) =>
    \A p, q \in Proc : Alive(p) /\ Alive(q) /\ p # q => launch[p] \cap launch[q] = {}

\* The status shown to clients is never STOPPED while bhyve runs: everything the
\* RPC layer refuses for a VM that is not stopped is refused.
StoppedMeansNoProcess ==
  \A p \in Proc : Alive(p) => status[owner[p]] # "STOPPED"

\* A VM that is STOPPED and has neither a Start() nor a Done() under way holds no
\* disk mutex and has no interfaces: whatever way a VM ended, the next start and
\* the removal of its disks find them free.
StoppedHoldsNothing ==
  \A v \in VM :
    (status[v] = "STOPPED" /\ starter # v /\ \A p \in Proc : owner[p] = v => mon[p] = "none")
      => ~netUp[v] /\ \A d \in Disk : lockedFor[d] # v

\* Start() never keeps vmStartLock, which all VMs share: lockDisks waits only for
\* a Done() that is under way. Needs that no disk is attached to two VMs.
StartLockReleased == (starter # NoVM) ~> (starter = NoVM)

\* The handler of a stop request returns, also when the VM ends on its own just
\* before, reboots, or is started again meanwhile.
StopReturnsEventually ==
  \A v \in VM : (stopPc[v]["request"] = "check") ~> (stopPc[v]["request"] = "idle")

\* A shutdown that completes leaves no VM behind: cleanup.go counts on leftover VMs only
\* after the daemon died or the host was not shut down properly.
CleanExitLeavesNoVM ==
  shutdown = "exited" => \A p \in Proc : ~Alive(p)
=============================================================================
