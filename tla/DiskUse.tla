------------------------------- MODULE DiskUse -------------------------------
(***************************************************************************)
(* The disks of cirrinad and everybody who uses one: the VMs they are      *)
(* attached to, clients that edit attachments (SetVMDisks), save a VM      *)
(* (UpdateVM), upload, remove and wipe disks, all at the same time, with   *)
(* writes that fail half way and restarts of the daemon in between.        *)
(*                                                                         *)
(* An attachment is stored twice: in v.Disks, which the daemon looks at,   *)
(* and in the table vm_disks, which it reads when it starts. A disk also   *)
(* has a mutex, which VMs, uploads and removals hold and wipes and edits   *)
(* do not. Of a VM only what that needs is kept, VMLifecycle has the rest. *)
(***************************************************************************)
EXTENDS Naturals, FiniteSets

CONSTANTS
  VM,
  Disk,
  Op,      \* bound: calls and handlers of clients under way at one time
  NoVM,
  NoOp

ASSUME ConstantsAssumption == NoVM \notin VM /\ NoOp \notin Op

VARIABLES
  \* the database
  rows,       \* vm_disks: the disks of each VM
  exists,     \* the table of disks, and disk.List
  \* the memory of the daemon
  disks,      \* v.Disks
  status,     \* v.Status; "UP" while bhyve runs
  editor,     \* the AttachDisks call that holds v.mu
  unlocking,  \* VMs whose Done() has yet to unlock its disks
  startPc,    \* where Start() of a VM is
  toLock,     \* the disks lockDisks has yet to lock
  held,       \* the disks whose mutex is locked
  launch,     \* the disks bhyve was started with
  fatal,      \* the runtime died: "sync: unlock of unlocked mutex"
  \* the calls of clients
  pc, onVM, onDisks,
  pending,    \* wipe requests that are stored and not complete
  \* the observer
  hist        \* what has ever happened, see Mishap

dbVars    == <<rows, exists>>
startVars == <<startPc, toLock>>
vmVars    == <<status, unlocking, launch>>
opVars    == <<pc, onVM, onDisks>>
vars == <<dbVars, startVars, vmVars, opVars, disks, editor, held, fatal, pending, hist>>

-----------------------------------------------------------------------------
\* "overlap": a client edited attachments while another edit was under way;
\* "torn": an edit failed after it had begun to write; "window": attachments of a VM
\* were edited between its SetStopped and its unlockDisks.
Mishap == {"overlap", "torn", "window"}

OpPc == {"idle", "fill", "saveDelete", "saveInsert", "uploadLock", "receive",
         "removeCheck", "removeDelete", "wipeCreate", "wipeQueued", "wipeErase", "wipeStuck"}

\* Every table and every goroutine has its type, and v.mu is held by a call that
\* works on v.
TypeOK ==
  /\ rows \in [VM -> SUBSET Disk] /\ disks \in [VM -> SUBSET Disk]
  /\ exists \in SUBSET Disk
  /\ status \in [VM -> {"STOPPED", "STARTING", "UP"}]
  /\ editor \in [VM -> Op \cup {NoOp}]
  /\ unlocking \in SUBSET VM
  /\ startPc \in [VM -> {"none", "lock", "insert"}]
  /\ toLock \in SUBSET Disk /\ held \in SUBSET Disk
  /\ launch \in [VM -> SUBSET Disk]
  /\ fatal \in BOOLEAN
  /\ pc \in [Op -> OpPc]
  /\ onVM \in [Op -> VM \cup {NoVM}]
  /\ onDisks \in [Op -> SUBSET Disk]
  /\ pending \in SUBSET Op
  /\ hist \in SUBSET Mishap
  /\ \A v \in VM : editor[v] # NoOp => onVM[editor[v]] = v

\* getDiskVM and diskAttached: the VMs that have d, from v.Disks.
AttachedTo(d) == {v \in VM : d \in disks[v]}

\* An op that reads and writes attachments is between its first and its last step.
Editing == {o \in Op : pc[o] \in {"fill", "saveDelete", "saveInsert", "removeDelete"}}

\* A goroutine moves on, or it ends and its slot is free.
Goes(o, p) == pc' = [pc EXCEPT ![o] = p] /\ UNCHANGED <<onVM, onDisks>>

Begins(o, p, v, S) ==
  /\ pc[o] = "idle"
  /\ pc' = [pc EXCEPT ![o] = p]
  /\ onVM' = [onVM EXCEPT ![o] = v]
  /\ onDisks' = [onDisks EXCEPT ![o] = S]

Ends(o) ==
  /\ pc' = [pc EXCEPT ![o] = "idle"]
  /\ onVM' = [onVM EXCEPT ![o] = NoVM]
  /\ onDisks' = [onDisks EXCEPT ![o] = {}]

Unlock(S) ==
  /\ held' = held \ S
  /\ fatal' = ~(S \subseteq held)

\* The transaction of Save() that inserts v.Disks; vm_disks takes no row twice.
Insert(v) ==
  /\ rows[v] \cap disks[v] = {}
  /\ rows' = [rows EXCEPT ![v] = @ \cup disks[v]]

-----------------------------------------------------------------------------
(* Start() and Done() *)

\* Mutant: Start() does not lock the disks.
StartBeginUnlocked(v) ==
  /\ \A u \in VM : startPc[u] = "none"
  /\ status[v] = "STOPPED" /\ editor[v] = NoOp
  /\ status' = [status EXCEPT ![v] = "STARTING"]
  /\ startPc' = [startPc EXCEPT ![v] = "lock"]
  /\ UNCHANGED <<dbVars, opVars, toLock, disks, editor, unlocking, launch, held, fatal, pending,
                 hist>>

\* vmStartLock, the status, SetStarting (which waits for v.mu), lockDisks.
StartBegin(v) ==
  /\ \A u \in VM : startPc[u] = "none"
  /\ status[v] = "STOPPED" /\ editor[v] = NoOp
  /\ status' = [status EXCEPT ![v] = "STARTING"]
  /\ startPc' = [startPc EXCEPT ![v] = "lock"]
  /\ toLock' = disks[v]
  /\ UNCHANGED <<dbVars, opVars, disks, editor, unlocking, launch, held, fatal, pending, hist>>

LockDisk(d) ==
  /\ d \in toLock \ held
  /\ held' = held \cup {d}
  /\ toLock' = toLock \ {d}
  /\ UNCHANGED <<dbVars, vmVars, opVars, startPc, disks, editor, fatal, pending, hist>>

\* Mutant: Start() goes on without Save().
StartDeleteOnly(v) ==
  /\ startPc[v] = "lock" /\ toLock = {}
  /\ rows' = [rows EXCEPT ![v] = {}]
  /\ startPc' = [startPc EXCEPT ![v] = "none"]
  /\ status' = [status EXCEPT ![v] = "UP"]
  /\ launch' = [launch EXCEPT ![v] = disks[v]]
  /\ UNCHANGED <<exists, opVars, toLock, disks, editor, unlocking, held, fatal, pending, hist>>

\* Save() deletes the rows of the VM first.
StartDelete(v) ==
  /\ startPc[v] = "lock" /\ toLock = {}
  /\ rows' = [rows EXCEPT ![v] = {}]
  /\ startPc' = [startPc EXCEPT ![v] = "insert"]
  /\ UNCHANGED <<exists, vmVars, opVars, toLock, disks, editor, held, fatal, pending, hist>>

\* Save() inserts them again, and bhyve is started.
StartInsert(v) ==
  /\ startPc[v] = "insert" /\ Insert(v)
  /\ startPc' = [startPc EXCEPT ![v] = "none"]
  /\ status' = [status EXCEPT ![v] = "UP"]
  /\ launch' = [launch EXCEPT ![v] = disks[v]]
  /\ UNCHANGED <<exists, opVars, toLock, disks, editor, unlocking, held, fatal, pending, hist>>

\* netStart or Save fails: the VM stays STARTING and its disks locked.
StartFails(v) ==
  /\ startPc[v] = "insert" \/ (startPc[v] = "lock" /\ toLock = {})
  /\ startPc' = [startPc EXCEPT ![v] = "none"]
  /\ hist' = IF startPc[v] = "insert" THEN hist \cup {"torn"} ELSE hist
  /\ UNCHANGED <<dbVars, vmVars, opVars, toLock, disks, editor, held, fatal, pending>>

\* bhyve ends, and Done() begins with SetStopped. Bound: one Done() of a VM at a time.
Done(v) ==
  /\ status[v] = "UP" /\ v \notin unlocking
  /\ status' = [status EXCEPT ![v] = "STOPPED"]
  /\ launch' = [launch EXCEPT ![v] = {}]
  /\ unlocking' = unlocking \cup {v}
  /\ UNCHANGED <<dbVars, startVars, opVars, disks, editor, held, fatal, pending, hist>>

UnlockDisks(v) ==
  /\ v \in unlocking
  /\ Unlock(disks[v])
  /\ unlocking' = unlocking \ {v}
  /\ UNCHANGED <<dbVars, startVars, opVars, status, launch, disks, editor, pending, hist>>

-----------------------------------------------------------------------------
(* SetVMDisks and UpdateVM *)

\* Mutant: diskAttached looks at the VMs that run only.
AttachBeginLoose(o, v, S) ==
  /\ Begins(o, "fill", v, S)
  /\ editor[v] = NoOp /\ status[v] = "STOPPED"
  /\ S \subseteq exists
  /\ \A u \in VM \ {v} : status[u] # "STOPPED" => S \cap disks[u] = {}
  /\ editor' = [editor EXCEPT ![v] = o]
  /\ disks' = [disks EXCEPT ![v] = {}]
  /\ hist' = hist \cup (IF Editing = {} THEN {} ELSE {"overlap"})
                  \cup (IF v \in unlocking THEN {"window"} ELSE {})
  /\ UNCHANGED <<dbVars, startVars, vmVars, held, fatal, pending>>

\* AttachDisks: v.mu, the status, validateDisks, and v.Disks is emptied.
AttachBegin(o, v, S) ==
  /\ Begins(o, "fill", v, S)
  /\ editor[v] = NoOp /\ status[v] = "STOPPED"
  /\ S \subseteq exists
  /\ \A d \in S : AttachedTo(d) \subseteq {v}
  /\ editor' = [editor EXCEPT ![v] = o]
  /\ disks' = [disks EXCEPT ![v] = {}]
  /\ hist' = hist \cup (IF Editing = {} THEN {} ELSE {"overlap"})
                  \cup (IF v \in unlocking THEN {"window"} ELSE {})
  /\ UNCHANGED <<dbVars, startVars, vmVars, held, fatal, pending>>

\* v.Disks is filled again. The lookup of a disk that is gone meanwhile ends the call
\* here, and so does one that the client spelled in capitals: validateDisks lets it
\* pass, and onDisks[o] holds the disks with the canonical spelling only.
AttachFill(o) ==
  LET v == onVM[o] IN
  /\ pc[o] = "fill"
  /\ \/ /\ onDisks[o] \subseteq exists
        /\ disks' = [disks EXCEPT ![v] = onDisks[o]]
        /\ Goes(o, "saveDelete")
        /\ UNCHANGED <<editor, hist>>
     \/ /\ \E S \in SUBSET (onDisks[o] \cap exists) :
             disks' = [disks EXCEPT ![v] = S]
        /\ Ends(o)
        /\ editor' = [editor EXCEPT ![v] = NoOp]
        /\ hist' = hist \cup {"torn"}
  /\ UNCHANGED <<dbVars, startVars, vmVars, held, fatal, pending>>

\* UpdateVM saves the VM without v.mu, whatever its status.
UpdateBegin(o, v) ==
  /\ Begins(o, "saveDelete", v, {})
  /\ hist' = hist \cup (IF Editing = {} THEN {} ELSE {"overlap"})
  /\ UNCHANGED <<dbVars, startVars, vmVars, disks, editor, held, fatal, pending>>

\* Save() of both: the rows are deleted, then v.Disks is inserted.
SaveDelete(o) ==
  /\ pc[o] = "saveDelete"
  /\ rows' = [rows EXCEPT ![onVM[o]] = {}]
  /\ Goes(o, "saveInsert")
  /\ UNCHANGED <<exists, startVars, vmVars, disks, editor, held, fatal, pending, hist>>

Released(o) == [v \in VM |-> IF editor[v] = o THEN NoOp ELSE editor[v]]

SaveInsert(o) ==
  /\ pc[o] = "saveInsert" /\ Insert(onVM[o])
  /\ Ends(o)
  /\ editor' = Released(o)
  /\ UNCHANGED <<exists, startVars, vmVars, disks, held, fatal, pending, hist>>

\* Mutant: an edit whose Save failed keeps v.mu.
SaveFailsLocked(o) ==
  /\ pc[o] \in {"saveDelete", "saveInsert"}
  /\ Ends(o)
  /\ hist' = hist \cup {"torn"}
  /\ UNCHANGED <<dbVars, startVars, vmVars, disks, editor, held, fatal, pending>>

SaveFails(o) ==
  /\ pc[o] \in {"saveDelete", "saveInsert"}
  /\ Ends(o)
  /\ editor' = Released(o)
  /\ hist' = hist \cup {"torn"}
  /\ UNCHANGED <<dbVars, startVars, vmVars, disks, held, fatal, pending>>

-----------------------------------------------------------------------------
(* UploadDisk *)

\* validateDiskReq, and the file is created or the volume opened.
UploadBegin(o, d) ==
  /\ Begins(o, "uploadLock", NoVM, {d})
  /\ d \in exists
  /\ Cardinality(AttachedTo(d)) <= 1
  /\ \A v \in AttachedTo(d) : status[v] = "STOPPED"
  /\ UNCHANGED <<dbVars, startVars, vmVars, disks, editor, held, fatal, pending, hist>>

UploadLock(o) ==
  /\ pc[o] = "uploadLock" /\ onDisks[o] \cap held = {}
  /\ held' = held \cup onDisks[o]
  /\ Goes(o, "receive")
  /\ UNCHANGED <<dbVars, startVars, vmVars, disks, editor, fatal, pending, hist>>

\* The stream ended, well or not.
UploadEnd(o) ==
  /\ pc[o] = "receive"
  /\ Unlock(onDisks[o])
  /\ Ends(o)
  /\ UNCHANGED <<dbVars, startVars, vmVars, disks, editor, pending, hist>>

-----------------------------------------------------------------------------
(* RemoveDisk *)

RemoveBegin(o, d) ==
  /\ Begins(o, "removeCheck", NoVM, {d})
  /\ d \in exists \ held
  /\ held' = held \cup {d}
  /\ UNCHANGED <<dbVars, startVars, vmVars, disks, editor, fatal, pending, hist>>

\* InUse() looks into vm_disks.
RemoveCheck(o) ==
  /\ pc[o] = "removeCheck"
  /\ \/ /\ \E v \in VM : onDisks[o] \subseteq rows[v]
        /\ Unlock(onDisks[o])
        /\ Ends(o)
        /\ UNCHANGED hist
     \/ /\ \A v \in VM : ~(onDisks[o] \subseteq rows[v])
        /\ Goes(o, "removeDelete")
        /\ hist' = hist \cup (IF Editing = {} THEN {} ELSE {"overlap"})
        /\ UNCHANGED <<held, fatal>>
  /\ UNCHANGED <<dbVars, startVars, vmVars, disks, editor, pending>>

\* Delete() fails, or the disk leaves the table and the list.
RemoveDelete(o) ==
  /\ pc[o] = "removeDelete"
  /\ exists' \in {exists, exists \ onDisks[o]}
  /\ Unlock(onDisks[o])
  /\ Ends(o)
  /\ UNCHANGED <<rows, startVars, vmVars, disks, editor, pending, hist>>

-----------------------------------------------------------------------------
(* WipeDisk and its handler *)

WipeBegin(o, d) ==
  /\ Begins(o, "wipeCreate", NoVM, {d})
  /\ d \in exists
  /\ \A q \in pending : onDisks[q] # {d}
  /\ AttachedTo(d) = {}
  /\ UNCHANGED <<dbVars, startVars, vmVars, disks, editor, held, fatal, pending, hist>>

WipeCreate(o) ==
  /\ pc[o] = "wipeCreate"
  /\ pending' = pending \cup {o}
  /\ Goes(o, "wipeQueued")
  /\ UNCHANGED <<dbVars, startVars, vmVars, disks, editor, held, fatal, hist>>

\* diskWipe: the disk, other requests for it, its size. It does not look at the VMs.
WipeHandler(o) ==
  LET others == {q \in pending \ {o} : onDisks[q] = onDisks[o]} IN
  /\ pc[o] = "wipeQueued"
  /\ \/ /\ ~(onDisks[o] \subseteq exists) \/ others # {}
        /\ pending' = pending \ {o}
        /\ Ends(o)
     \/ /\ onDisks[o] \subseteq exists /\ others = {}
        /\ Goes(o, "wipeErase") \/ Goes(o, "wipeStuck")
        /\ UNCHANGED pending
  /\ UNCHANGED <<dbVars, startVars, vmVars, disks, editor, held, fatal, hist>>

\* RemoveBacking and Create, whose errors are ignored, and Succeeded.
WipeErase(o) ==
  /\ pc[o] = "wipeErase"
  /\ pending' = pending \ {o}
  /\ Ends(o)
  /\ UNCHANGED <<dbVars, startVars, vmVars, disks, editor, held, fatal, hist>>

-----------------------------------------------------------------------------
\* The daemon ends anywhere and comes back: both CacheInit, cleanupVms and
\* FailAllPending, after which a request that was not started is handed out still.
Restart ==
  LET queued == {o \in Op : pc[o] = "wipeQueued"} IN
  /\ disks' = [v \in VM |-> rows[v] \cap exists]
  /\ status' = [v \in VM |-> "STOPPED"] /\ launch' = [v \in VM |-> {}]
  /\ unlocking' = {} /\ held' = {} /\ toLock' = {} /\ fatal' = FALSE
  /\ startPc' = [v \in VM |-> "none"] /\ editor' = [v \in VM |-> NoOp]
  /\ pc' = [o \in Op |-> IF o \in queued THEN "wipeQueued" ELSE "idle"]
  /\ onVM' = [o \in Op |-> NoVM]
  /\ onDisks' = [o \in Op |-> IF o \in queued THEN onDisks[o] ELSE {}]
  /\ pending' = {}
  /\ UNCHANGED <<dbVars, hist>>

Init ==
  /\ rows \in {f \in [VM -> SUBSET Disk] : \A u, v \in VM : u # v => f[u] \cap f[v] = {}}
  /\ exists = Disk
  /\ disks = rows
  /\ status = [v \in VM |-> "STOPPED"] /\ launch = [v \in VM |-> {}]
  /\ unlocking = {} /\ held = {} /\ toLock = {} /\ fatal = FALSE
  /\ startPc = [v \in VM |-> "none"] /\ editor = [v \in VM |-> NoOp]
  /\ pc = [o \in Op |-> "idle"]
  /\ onVM = [o \in Op |-> NoVM] /\ onDisks = [o \in Op |-> {}]
  /\ pending = {}
  /\ hist = {}

VMStep(v) ==
  \/ StartBegin(v) \/ StartDelete(v) \/ StartInsert(v) \/ StartFails(v)
  \/ Done(v) \/ UnlockDisks(v)

EditStep(o) ==
  \/ \E v \in VM : UpdateBegin(o, v) \/ \E S \in SUBSET Disk : AttachBegin(o, v, S)
  \/ AttachFill(o) \/ SaveDelete(o) \/ SaveInsert(o) \/ SaveFails(o)

DiskStep(o) ==
  \/ \E d \in Disk : UploadBegin(o, d) \/ RemoveBegin(o, d) \/ WipeBegin(o, d)
  \/ UploadLock(o) \/ UploadEnd(o)
  \/ RemoveCheck(o) \/ RemoveDelete(o)
  \/ WipeCreate(o) \/ WipeHandler(o) \/ WipeErase(o)

Running ==
  \/ \E v \in VM : VMStep(v)
  \/ \E d \in Disk : LockDisk(d)
  \/ \E o \in Op : EditStep(o) \/ DiskStep(o)

Next == (~fatal /\ Running) \/ Restart

Spec == Init /\ [][Next]_vars

-----------------------------------------------------------------------------
(* Properties *)

\* Those who may rely on having a disk to themselves: the VM whose bhyve has it
\* open, an upload that writes it, a removal that is about to delete it.
Users(d) ==
  {v \in VM : d \in launch[v]} \cup
  {o \in Op : pc[o] \in {"receive", "removeDelete"} /\ d \in onDisks[o]}

\* rpc_disk.go: "prevent deleting disk while it's being uploaded etc". A disk has one
\* such user at a time, and the daemon does not die over a mutex, however
\* starts, uploads, removals and failed or overlapping edits of attachments
\* interleave. Only an edit in the window of Done() breaks this.
OneUser ==
  "window" \notin hist => ~fatal /\ \A d \in Disk : Cardinality(Users(d)) <= 1

\* While clients edit attachments one after the other, not in the window of Done(),
\* and no edit fails half way, a disk belongs to one VM, in memory and in the
\* database, and a disk that belongs to a VM exists, whatever VMs, uploads,
\* removals and restarts do. Each of the mishaps breaks this.
AttachedOnce ==
  hist = {} =>
    /\ \A u, v \in VM : u # v => disks[u] \cap disks[v] = {} /\ rows[u] \cap rows[v] = {}
    /\ \A v \in VM : disks[v] \subseteq exists

\* A VM that runs has its disks in the database, so that it comes back with them
\* after a crash of the daemon, unless it is being saved or a save has failed.
RunningIsStored ==
  \A v \in VM :
    (status[v] = "UP" /\ "torn" \notin hist /\ \A o \in Op : onVM[o] # v)
      => rows[v] = launch[v]

\* rpc_disk.go: "check that disk is not in use by a VM". A wipe that is about to
\* remove the backing of a disk does not do so under a running bhyve.
WipeSparesVMs ==
  \A o \in Op : pc[o] = "wipeErase" => \A v \in VM : launch[v] \cap onDisks[o] = {}
=============================================================================
