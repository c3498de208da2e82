--------------------------- MODULE RequestPipeline ---------------------------
(***************************************************************************)
(* The asynchronous requests of cirrinad that start, stop and delete VMs:  *)
(* the RPC that checks and stores a request, the processRequests loop that *)
(* hands it out, the handler goroutine that checks again, works and        *)
(* answers, and what a restart of the daemon does to all of them.          *)
(*                                                                         *)
(* The requests table and the VM rows survive a restart; goroutines, the   *)
(* VM list and every bhyve do not. What a VM does while it runs is kept to *)
(* what the RPCs and handlers look at or wait for; VMLifecycle has the     *)
(* rest.                                                                   *)
(***************************************************************************)
EXTENDS Naturals, FiniteSets

CONSTANTS
  VM,
  Request,        \* bound: the requests clients make
  NoVM,
  NoRequest,
  AutoStart,      \* the VMs started with the daemon
  Spelling,       \* the spellings of a VM's UUID clients use
  MaxRestarts     \* bound: restarts of the daemon

ASSUME ConstantsAssumption ==
  /\ NoVM \notin VM
  /\ NoRequest \notin Request
  /\ VM \cap (Request \cup {NoRequest}) = {}
  /\ AutoStart \subseteq VM
  /\ "canonical" \in Spelling
  /\ MaxRestarts \in Nat

VARIABLES
  \* the requests table
  kind, target, spelling,         \* Type and Data
  created, started, complete, successful,
  \* the VMs
  rows,        \* VMs in the database
  list,        \* vm.List.VMList
  listMu,      \* the deleteVM handler that holds vm.List.Mu
  status,      \* v.Status
  alive,       \* VMs whose bhyve runs
  hasProc,     \* v.proc was set since the daemon started
  told,        \* the stop requests whose bhyve was told to stop and still runs
  autostarts,  \* doAutostart goroutines still asleep
  starter,     \* the handler or the VM's doAutostart that holds vmStartLock
  diskMu,      \* who holds the mutexes of a VM's disks
  \* goroutines
  rpc,         \* where the RPC that makes a request is
  dispatcher,  \* processRequests
  picked,      \* what GetUnStarted returned
  handler,     \* where the handler of a request is
  \* the observer
  handed,      \* how often a request was given to a handler
  restarts

dataVars    == <<kind, target, spelling>>
reqVars     == <<created, started, complete, successful>>
listVars    == <<rows, list, listMu>>
vmVars      == <<status, alive, hasProc, told, autostarts>>
lockVars    == <<starter, diskMu>>
loopVars    == <<dispatcher, picked, handed>>
vars == <<dataVars, reqVars, listVars, vmVars, lockVars, loopVars, rpc, handler, restarts>>

-----------------------------------------------------------------------------
Kind == {"VMSTART", "VMSTOP", "VMDELETE"}
StatusType == {"STOPPED", "STARTING", "RUNNING", "STOPPING"}
RpcPc == {"none", "pending", "status", "create"}
HandlerPc == {"none", "lookup", "check", "act", "starting", "stopping", "deleted", "unlist"}

\* "own": the VM since its last Start(). "other": an upload, another VM with the disk,
\* nobody any more (an edit between SetStopped and unlockDisks can leave it locked).
DiskHolder == {"free", "own", "other"}

\* The sets of requests and of VMs stay what they are, every goroutine is at a
\* point of its function, and every request was handed out a number of times.
TypeOK ==
  /\ kind \in [Request -> Kind]
  /\ target \in [Request -> VM \cup {NoVM}]
  /\ spelling \in [Request -> Spelling]
  /\ created \in SUBSET Request /\ started \in SUBSET Request
  /\ complete \in SUBSET Request /\ successful \in SUBSET Request
  /\ rows \in SUBSET VM /\ list \in SUBSET VM
  /\ listMu \in Request \cup {NoRequest}
  /\ status \in [VM -> StatusType]
  /\ alive \in SUBSET VM /\ hasProc \in SUBSET VM
  /\ told \in SUBSET Request /\ autostarts \in SUBSET VM
  /\ starter \in Request \cup VM \cup {NoRequest}
  /\ diskMu \in [VM -> DiskHolder]
  /\ rpc \in [Request -> RpcPc]
  /\ dispatcher \in {"poll", "start", "go"}
  /\ picked \in Request \cup {NoRequest}
  /\ handler \in [Request -> HandlerPc]
  /\ handed \in [Request -> Nat]
  /\ restarts \in 0..MaxRestarts

\* PendingReqExists, for the id as it is spelled.
PendingReqExists(v, s) ==
  {q \in created \ complete : target[q] = v /\ spelling[q] = s}

\* The status an RPC wants to see.
Wanted(k) == IF k = "VMSTOP" THEN "RUNNING" ELSE "STOPPED"

-----------------------------------------------------------------------------
(* The RPCs StartVM, StopVM and DeleteVM *)

\* GetByID with the parsed id.
CallRPC(r, k, v, s) ==
  /\ r \notin created /\ rpc[r] = "none"
  /\ listMu = NoRequest /\ v \in list
  /\ rpc' = [rpc EXCEPT ![r] = "pending"]
  /\ kind' = [kind EXCEPT ![r] = k]
  /\ target' = [target EXCEPT ![r] = v]
  /\ spelling' = [spelling EXCEPT ![r] = s]
  /\ UNCHANGED <<reqVars, listVars, vmVars, lockVars, loopVars, handler, restarts>>

\* PendingReqExists with the id as the client spelled it.
RPCPending(r) ==
  /\ rpc[r] = "pending"
  /\ rpc' = [rpc EXCEPT ![r] =
               IF PendingReqExists(target[r], spelling[r]) = {} THEN "status" ELSE "none"]
  /\ UNCHANGED <<dataVars, reqVars, listVars, vmVars, lockVars, loopVars, handler, restarts>>

RPCStatus(r) ==
  /\ rpc[r] = "status"
  /\ rpc' = [rpc EXCEPT ![r] = IF status[target[r]] = Wanted(kind[r]) THEN "create" ELSE "none"]
  /\ UNCHANGED <<dataVars, reqVars, listVars, vmVars, lockVars, loopVars, handler, restarts>>

\* CreateVMReq. StartVM stores the parsed id, StopVM and DeleteVM the client's.
RPCCreate(r) ==
  /\ rpc[r] = "create"
  /\ rpc' = [rpc EXCEPT ![r] = "none"]
  /\ created' = created \cup {r}
  /\ spelling' = [spelling EXCEPT ![r] = IF kind[r] = "VMSTART" THEN "canonical" ELSE @]
  /\ UNCHANGED <<kind, target, started, complete, successful, listVars, vmVars, lockVars, loopVars,
                 handler, restarts>>

-----------------------------------------------------------------------------
(* processRequests *)

\* Mutant: the loop does not look whether GetUnStarted found anything.
PollUnchecked(r) ==
  /\ dispatcher = "poll"
  /\ picked' = IF r \in created \ started THEN r ELSE NoRequest
  /\ dispatcher' = "start"
  /\ UNCHANGED <<dataVars, reqVars, listVars, vmVars, lockVars, handed, rpc, handler, restarts>>

\* GetUnStarted: any request that was not started, complete or not.
Poll(r) ==
  /\ dispatcher = "poll" /\ r \in created \ started
  /\ picked' = r
  /\ dispatcher' = "start"
  /\ UNCHANGED <<dataVars, reqVars, listVars, vmVars, lockVars, handed, rpc, handler, restarts>>

\* Mutant: the start time goes into the copy in memory only.
MarkStartedInMemory ==
  /\ dispatcher = "start"
  /\ dispatcher' = "go"
  /\ UNCHANGED <<dataVars, reqVars, listVars, vmVars, lockVars, picked, handed, rpc, handler, restarts>>

\* request.Start()
MarkStarted ==
  /\ dispatcher = "start"
  /\ started' = started \cup {picked}
  /\ dispatcher' = "go"
  /\ UNCHANGED <<dataVars, created, complete, successful, listVars, vmVars, lockVars, picked, handed,
                 rpc, handler, restarts>>

GoHandler ==
  /\ dispatcher = "go"
  /\ handler' = [handler EXCEPT ![picked] = "lookup"]
  /\ handed' = [handed EXCEPT ![picked] = @ + 1]
  /\ dispatcher' = "poll"
  /\ picked' = NoRequest
  /\ UNCHANGED <<dataVars, reqVars, listVars, vmVars, lockVars, rpc, restarts>>

-----------------------------------------------------------------------------
(* The handlers startVM, stopVM and deleteVM *)

\* The handler of r moves to pc. Succeeded and Failed write the table.
Goes(r, pc) == handler' = [handler EXCEPT ![r] = pc]

Continues(r, pc) == Goes(r, pc) /\ UNCHANGED reqVars

Succeeded(r, pc) ==
  /\ Goes(r, pc)
  /\ complete' = complete \cup {r}
  /\ successful' = successful \cup {r}
  /\ UNCHANGED <<created, started>>

Failed(r) ==
  /\ Goes(r, "none")
  /\ complete' = complete \cup {r}
  /\ UNCHANGED <<created, started, successful>>

\* GetByID with the id that was stored. When it fails the request stays as it is.
HandlerLookup(r) ==
  /\ handler[r] = "lookup" /\ listMu = NoRequest
  /\ Continues(r, IF target[r] \in list /\ spelling[r] = "canonical" THEN "check" ELSE "none")
  /\ UNCHANGED <<dataVars, listVars, vmVars, lockVars, loopVars, rpc, restarts>>

\* Mutant: only requests that were not started yet count as pending.
HandlerCheckUnstarted(r) ==
  LET others == PendingReqExists(target[r], "canonical") \ (started \cup {r}) IN
  /\ handler[r] = "check"
  /\ IF others = {} THEN Continues(r, "act") ELSE Failed(r)
  /\ UNCHANGED <<dataVars, listVars, vmVars, lockVars, loopVars, rpc, restarts>>

HandlerCheck(r) ==
  /\ handler[r] = "check"
  /\ IF PendingReqExists(target[r], "canonical") \ {r} = {} THEN Continues(r, "act") ELSE Failed(r)
  /\ UNCHANGED <<dataVars, listVars, vmVars, lockVars, loopVars, rpc, restarts>>

\* vmStartLock.Lock(), which all VMs share; refused, or SetStarting.
StartBegin(r) ==
  LET v == target[r] IN
  /\ handler[r] = "act" /\ kind[r] = "VMSTART" /\ starter = NoRequest
  /\ \/ /\ status[v] # "STOPPED"
        /\ Failed(r)
        /\ UNCHANGED <<status, starter>>
     \/ /\ status[v] = "STOPPED"
        /\ Continues(r, "starting")
        /\ status' = [status EXCEPT ![v] = "STARTING"]
        /\ starter' = r
  /\ UNCHANGED <<dataVars, listVars, alive, hasProc, told, autostarts, diskMu, loopVars, rpc,
                 restarts>>

\* lockDisks waits for the mutex of every disk, getUsedVncPorts for that of the list.
LocksDisks(v) ==
  /\ diskMu[v] = "free" /\ listMu = NoRequest
  /\ diskMu' = [diskMu EXCEPT ![v] = "own"]
  /\ starter' = NoRequest

\* Mutant: a Start() that fails keeps vmStartLock.
StartReturnsLocked(r) ==
  LET v == target[r] IN
  /\ handler[r] = "starting" /\ starter = r
  /\ diskMu[v] = "free" /\ listMu = NoRequest
  /\ diskMu' = [diskMu EXCEPT ![v] = "own"]
  /\ \/ /\ Succeeded(r, "none")
        /\ alive' = alive \cup {v}
        /\ hasProc' = hasProc \cup {v}
        /\ starter' = NoRequest
     \/ /\ Failed(r)
        /\ UNCHANGED <<alive, hasProc, starter>>
  /\ UNCHANGED <<dataVars, listVars, status, told, autostarts, loopVars, rpc, restarts>>

\* Start() made a process, or failed and left the VM STARTING and its disks locked.
StartReturns(r) ==
  /\ handler[r] = "starting" /\ starter = r
  /\ LocksDisks(target[r])
  /\ \/ /\ Succeeded(r, "none")
        /\ alive' = alive \cup {target[r]}
        /\ hasProc' = hasProc \cup {target[r]}
     \/ /\ Failed(r)
        /\ UNCHANGED <<alive, hasProc>>
  /\ UNCHANGED <<dataVars, listVars, status, told, autostarts, loopVars, rpc, restarts>>

\* Stop(): nothing to do, no process to stop, or the process is told to stop.
StopBegin(r) ==
  LET v == target[r] IN
  /\ handler[r] = "act" /\ kind[r] = "VMSTOP"
  /\ \/ /\ status[v] = "STOPPED" \/ v \notin hasProc
        /\ Succeeded(r, "none")
        /\ status' = [status EXCEPT ![v] = "STOPPED"]
        /\ UNCHANGED told
     \/ /\ status[v] # "STOPPED" /\ v \in hasProc
        /\ Continues(r, "stopping")
        /\ status' = [status EXCEPT ![v] = "STOPPING"]
        /\ told' = IF v \in alive THEN told \cup {r} ELSE told
  /\ UNCHANGED <<dataVars, listVars, alive, hasProc, autostarts, lockVars, loopVars, rpc, restarts>>

\* proc.Stop() returns, with or without an error, when its process is gone.
StopReturns(r) ==
  /\ handler[r] = "stopping" /\ r \notin told
  /\ Succeeded(r, "none") \/ Failed(r)
  /\ UNCHANGED <<dataVars, listVars, vmVars, lockVars, loopVars, rpc, restarts>>

\* Mutant: the error of Delete() is dropped.
DeleteRowsIgnoringErrors(r) ==
  /\ handler[r] = "act" /\ kind[r] = "VMDELETE"
  /\ listMu = NoRequest
  /\ Continues(r, "deleted")
  /\ rows' \in {rows, rows \ {target[r]}}
  /\ listMu' = r
  /\ UNCHANGED <<dataVars, list, vmVars, lockVars, loopVars, rpc, restarts>>

\* vm.List.Mu.Lock(); Delete(), which logs and ignores that a VM is not stopped.
DeleteRows(r) ==
  /\ handler[r] = "act" /\ kind[r] = "VMDELETE"
  /\ listMu = NoRequest
  /\ \/ /\ Continues(r, "deleted")
        /\ rows' = rows \ {target[r]}
        /\ listMu' = r
     \/ /\ Failed(r)
        /\ UNCHANGED <<rows, listMu>>
  /\ UNCHANGED <<dataVars, list, vmVars, lockVars, loopVars, rpc, restarts>>

DeleteSucceeded(r) ==
  /\ handler[r] = "deleted"
  /\ Succeeded(r, "unlist")
  /\ UNCHANGED <<dataVars, listVars, vmVars, lockVars, loopVars, rpc, restarts>>

\* Mutant: the mutex is given back and the list keeps the VM.
DeleteKeepsListed(r) ==
  /\ handler[r] = "unlist"
  /\ Continues(r, "none")
  /\ listMu' = NoRequest
  /\ UNCHANGED <<dataVars, rows, list, vmVars, lockVars, loopVars, rpc, restarts>>

DeleteUnlist(r) ==
  /\ handler[r] = "unlist"
  /\ Continues(r, "none")
  /\ list' = list \ {target[r]}
  /\ listMu' = NoRequest
  /\ UNCHANGED <<dataVars, rows, vmVars, lockVars, loopVars, rpc, restarts>>

-----------------------------------------------------------------------------
(* What else happens to a VM *)

\* doAutostart wakes up and calls Start().
Autostart(v) ==
  /\ v \in autostarts /\ starter = NoRequest
  /\ autostarts' = autostarts \ {v}
  /\ \/ /\ status[v] # "STOPPED"
        /\ UNCHANGED <<status, starter>>
     \/ /\ status[v] = "STOPPED"
        /\ status' = [status EXCEPT ![v] = "STARTING"]
        /\ starter' = v
  /\ UNCHANGED <<dataVars, reqVars, listVars, alive, hasProc, told, diskMu, loopVars, rpc,
                 handler, restarts>>

AutostartReturns(v) ==
  /\ starter = v
  /\ LocksDisks(v)
  /\ \/ /\ alive' = alive \cup {v}
        /\ hasProc' = hasProc \cup {v}
     \/ UNCHANGED <<alive, hasProc>>
  /\ UNCHANGED <<dataVars, reqVars, listVars, status, told, autostarts, loopVars, rpc, handler,
                 restarts>>

\* UploadDisk holds the mutex of a disk as long as its client keeps the stream open.
OtherLocks(v) ==
  /\ diskMu[v] = "free"
  /\ diskMu' = [diskMu EXCEPT ![v] = "other"]
  /\ UNCHANGED <<dataVars, reqVars, listVars, vmVars, starter, loopVars, rpc, handler, restarts>>

OtherUnlocks(v) ==
  /\ diskMu[v] = "other"
  /\ diskMu' = [diskMu EXCEPT ![v] = "free"]
  /\ UNCHANGED <<dataVars, reqVars, listVars, vmVars, starter, loopVars, rpc, handler, restarts>>

\* The monitor sees bhyve: SetRunning.
MonitorStarted(v) ==
  /\ v \in alive
  /\ status' = [status EXCEPT ![v] = "RUNNING"]
  /\ UNCHANGED <<dataVars, reqVars, listVars, alive, hasProc, told, autostarts, lockVars,
                 loopVars, rpc, handler, restarts>>

\* bhyve is gone and Done() runs.
Done(v) ==
  /\ v \in alive
  /\ alive' = alive \ {v}
  /\ told' = {r \in told : target[r] # v}
  /\ status' = [status EXCEPT ![v] = "STOPPED"]
  /\ diskMu' = [diskMu EXCEPT ![v] = "free"]
  /\ UNCHANGED <<dataVars, reqVars, listVars, hasProc, autostarts, starter, loopVars, rpc,
                 handler, restarts>>

\* Mutant: the requests left over are not failed.
RestartKeepsPending ==
  /\ restarts < MaxRestarts
  /\ restarts' = restarts + 1
  /\ list' = rows /\ listMu' = NoRequest
  /\ status' = [v \in VM |-> "STOPPED"]
  /\ alive' = {} /\ hasProc' = {} /\ told' = {}
  /\ autostarts' = AutoStart \cap rows
  /\ starter' = NoRequest /\ diskMu' = [v \in VM |-> "free"]
  /\ rpc' = [r \in Request |-> "none"]
  /\ dispatcher' = "poll" /\ picked' = NoRequest
  /\ handler' = [r \in Request |-> "none"]
  /\ UNCHANGED <<dataVars, reqVars, rows, handed>>

\* The daemon ends anywhere and comes back: CacheInit, cleanupVms, FailAllPending,
\* AutoStartVMs, and only then the RPC server and processRequests.
Restart ==
  /\ restarts < MaxRestarts
  /\ restarts' = restarts + 1
  /\ list' = rows /\ listMu' = NoRequest
  /\ status' = [v \in VM |-> "STOPPED"]
  /\ alive' = {} /\ hasProc' = {} /\ told' = {}
  /\ autostarts' = AutoStart \cap rows
  /\ starter' = NoRequest /\ diskMu' = [v \in VM |-> "free"]
  /\ rpc' = [r \in Request |-> "none"]
  /\ dispatcher' = "poll" /\ picked' = NoRequest
  /\ handler' = [r \in Request |-> "none"]
  /\ complete' = created
  /\ UNCHANGED <<dataVars, created, started, successful, rows, handed>>

-----------------------------------------------------------------------------
Init ==
  /\ kind = [r \in Request |-> "VMSTART"]
  /\ target = [r \in Request |-> NoVM]
  /\ spelling = [r \in Request |-> "canonical"]
  /\ created = {} /\ started = {} /\ complete = {} /\ successful = {}
  /\ rows = VM /\ list = VM /\ listMu = NoRequest
  /\ status = [v \in VM |-> "STOPPED"]
  /\ alive = {} /\ hasProc = {} /\ told = {}
  /\ autostarts = AutoStart
  /\ starter = NoRequest /\ diskMu = [v \in VM |-> "free"]
  /\ rpc = [r \in Request |-> "none"]
  /\ dispatcher = "poll" /\ picked = NoRequest
  /\ handler = [r \in Request |-> "none"]
  /\ handed = [r \in Request |-> 0]
  /\ restarts = 0

RPCStep(r) ==
  \/ \E k \in Kind, v \in VM, s \in Spelling : CallRPC(r, k, v, s)
  \/ RPCPending(r) \/ RPCStatus(r) \/ RPCCreate(r)

LoopStep == (\E r \in Request : Poll(r)) \/ MarkStarted \/ GoHandler

HandlerStep(r) ==
  \/ HandlerLookup(r) \/ HandlerCheck(r)
  \/ StartBegin(r) \/ StartReturns(r)
  \/ StopBegin(r) \/ StopReturns(r)
  \/ DeleteRows(r) \/ DeleteSucceeded(r) \/ DeleteUnlist(r)

VMStep(v) ==
  \/ Autostart(v) \/ AutostartReturns(v) \/ MonitorStarted(v) \/ Done(v)
  \/ OtherLocks(v) \/ OtherUnlocks(v)

Next ==
  \/ \E r \in Request : RPCStep(r) \/ HandlerStep(r)
  \/ LoopStep
  \/ \E v \in VM : VMStep(v)
  \/ Restart

Spec == Init /\ [][Next]_vars

\* The loop polls for ever, goroutines that can run do run, a mutex that is given back
\* again and again goes to a waiter in the end, and a process that was told to stop ends.
\* Nothing makes a client call, the daemon restart or an upload end.
Fairness ==
  /\ WF_vars(LoopStep)
  /\ \A r \in Request : WF_vars(HandlerStep(r)) /\ SF_vars(StartReturns(r))
  /\ \A v \in VM : SF_vars(AutostartReturns(v))
  /\ \A r \in Request : WF_vars(r \in told /\ Done(target[r]))

FairSpec == Spec /\ Fairness

-----------------------------------------------------------------------------
(* Properties *)

\* The handler has passed its check and works on the VM.
Working(r) == handler[r] \in {"act", "starting", "stopping", "deleted", "unlist"}

\* Two requests that are both pending are never worked on for one VM: the check
\* in the RPC may be passed by several calls at once, the check in the handler
\* lets at most one of them through, whatever the order of creating, starting,
\* answering and restarting. (A request that FailAllPending has completed is not
\* pending, see FailedIsFinal.)
HandlerExclusion ==
  \A q, r \in Request \ complete :
    Working(q) /\ Working(r) /\ target[q] = target[r] => q = r

\* A request is handed out once, however often the daemon is restarted.
HandedOutOnce == \A r \in Request : handed[r] <= 1

\* What clients are told. A handler that has answered may still have the list to clear.
toldState ==
  [r \in Request |-> IF r \notin created THEN "new"
                     ELSE IF r \in successful THEN "done"
                     ELSE IF r \in complete THEN "failed" ELSE "open"]
unanswered == {r \in Request : handler[r] \notin {"none", "unlist"}}

Promise == INSTANCE RequestPromise
             WITH state <- toldState, taken <- handed, atWork <- unanswered

\* The table, the loop and the handlers keep the promise of a request: over all restarts it
\* is handed out once, only the handler it was handed to answers it, at most once, and a
\* success is never taken back. What is not promised is that a failed one stays failed.
PromiseKept == Promise!Spec

\* A client that was told a VM is deleted never finds it again, also when the
\* daemon dies right after the answer.
DeletedIsGone ==
  \A r \in successful : kind[r] = "VMDELETE" => target[r] \notin rows

\* Whoever can read vm.List finds there exactly the VMs of the database.
ListMatchesRows == listMu = NoRequest => list = rows

\* The Start() that holds vmStartLock waits for the mutex of a disk.
StartWaits ==
  \/ \E r \in Request : handler[r] = "starting" /\ diskMu[target[r]] # "free"
  \/ \E v \in VM : starter = v /\ diskMu[v] # "free"

Answered(r) == r \in complete \/ target[r] \notin rows

\* Every request a client polls for is answered at last, across restarts, unless its VM is
\* deleted first (then the handler returns without an answer) or, if it is to start a VM, a
\* Start() of whatever VM waits for ever for the mutex of a disk: stopping and deleting
\* never wait for a Start(). Needs that clients spell ids the way the daemon does.
RequestAnswered ==
  /\ \A r \in Request : (r \in created /\ kind[r] # "VMSTART") ~> Answered(r)
  /\ []<>~StartWaits => \A r \in Request : r \in created ~> Answered(r)

\* requests.go: FailAllPending "marks all requests which are not complete as
\* failed". A request a client has seen failed does not succeed later.
FailedIsFinal ==
  [][\A r \in complete \ successful : r \notin successful']_vars

\* rpc_vm_test.go: a DeleteVM of a VM that is not stopped fails ("vm not stopped").
DeletesOnlyStopped ==
  [][\A v \in rows \ rows' : status[v] = "STOPPED"]_vars
=============================================================================
