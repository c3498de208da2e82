# Specifications of cirrinad

cirrinad is a daemon that manages bhyve virtual machines on FreeBSD. It keeps
VMs, disks, NICs, switches, ISOs and requests in a database, serves gRPC calls,
and starts, watches and stops the bhyve processes through
`github.com/swills/go-supervisor`. This directory holds TLA+ models of it, the
TLC runs that check them and TLAPS proofs about them. `PROJECT.json` maps every
definition to the lines it models and lists runs, mutants, hazards and theorems.

## The system

| Component | State | Operations | Hard behaviour | What makes it correct |
|---|---|---|---|---|
| VM lifecycle (`vm/vm.go`, `vm/db.go`, `vm/disk.go`) | `v.Status`, `v.proc`, `v.Disks`, `vmStartLock`, one mutex per disk | `Start`, `Stop`, `monitor`, `Done`, `AttachDisks`, `doAutostart`, `StopAll` | Start, Stop and Done of one VM run in different goroutines with no common lock; bhyve exits and respawns at any moment; a process event races the notifier that it is gone | one bhyve per VM; a disk's mutex is held as long as its bhyve is supervised; bhyve's disks are `v.Disks`; everything taken is given back |
| VM networking (`vm/nic.go`, `epair/`, `vmnic/`) | tap/epair devices, NIC rows | `netStart`, `NetStop`, `SetNics` | built by Start, torn down by Done, which can overlap the next Start | a stopped VM has no interfaces |
| Requests (`requests/`, `reqproc.go`) | the requests table (`started_at`, `complete`, `successful`, type, data) | `CreateVMReq`, `PendingReqExists`, `GetUnStarted`, `Start`, `Succeeded`, `Failed`, `FailAllPending` | the check and the creation of a request are two steps; the daemon may die between any two writes | one request at a time per object; handed out at most once; answered in the end; an answer does not change |
| Handlers (`vmops.go`, `diskops.go`, `nicops.go`) | one goroutine per request | `startVM`, `stopVM`, `deleteVM`, `diskWipe`, `nicClone` | check again, then act on state that may have changed | as above |
| RPCs (`rpc_*.go`) | none of their own | queries, immediate changes, creation of requests | several clients at once | refuse what the state does not allow |
| VM list (`vm.List`) and `CacheInit` | map from ID to VM, `vm.List.Mu` | lookup, insert, delete | list and database are written one after the other | the list agrees with the database |
| Disks (`disk/`, `rpc_disk.go`) | disk rows, `disk.List`, backing files and zvols, per-disk mutex | add, remove, wipe, upload, resize, attach | check and use are separated by a request or a stream | never change the backing of a disk in use |
| Switches (`switch/`, `rpc_switch.go`) | bridges, uplinks, members | create, destroy, set uplink, connect NIC | external commands fail half way | one switch per uplink |
| Command line (`vm/args.go`) | PCI slots, VNC and debug ports | `generateCommandLine` | 32 slots, ports chosen before they are bound | no slot twice, no port twice |
| Configuration of a VM (`rpc_vm.go`, `Save`) | `v.Config`, `v.ISOs`, `v.Disks` and their rows | `UpdateVM`, `AttachIsos`, `AttachDisks`, `Save`, `CacheInit` | a rejected update has changed part of the VM; saves overlap; deletes and inserts are apart | a restart changes nothing |
| ISO images (`iso/`, `rpc_iso.go`) | rows, files, `vm_isos` | add, upload, remove, attach | an upload is a stream; removal looks in two places | the checksum is the file's; an attached ISO exists |
| Serial ports (`vm/com.go`, `rpc_com.go`) | devices, loggers, channels | logger, interactive session | logger and session share a port and a channel | loggers end with the VM |
| Schema migration (`db/migrate.go`) | the version, the tables | twelve migrations | no transaction; the daemon may die between any two statements | nothing is lost, the version is honest |
| Start-up and shutdown (`main.go`, `cleanup.go`) | pid file, leftovers of the last life | clean up, migrate, autostart, `shutdownHandler` | ends and starts anywhere | nothing is left behind by a clean exit |

The parts meet as follows. An RPC looks at the status of a VM and stores a
request. `processRequests` takes one request that was not started, marks it and
gives it to a goroutine. That goroutine checks again that no other request is
pending and calls `Start`, `Stop` or `Delete`. `Start` runs under `vmStartLock`,
locks the disks, makes a process and a `monitor` goroutine, and returns. From
then on the VM belongs to its monitor, which follows the supervisor's events and
calls `Done` in the end. `AttachDisks` and the shutdown act on the same VM from
other goroutines.

## Modules

| Module | Models |
|---|---|
| `VMLifecycle` | Start, Stop, monitor, Done, disk mutexes, AttachDisks, shutdown |
| `MCVMLifecycle` | small instances of it |
| `DiskLease` | the abstract specification `VMLifecycle` implements: VMs take, use and give back disks |
| `VMLifecycle_proofs` | theorems about `VMLifecycle`, the refinement among them |
| `RequestPipeline` | the RPCs StartVM, StopVM, DeleteVM, the request table, the request loop, the handlers, restarts of the daemon |
| `RequestPromise` | the abstract specification `RequestPipeline` implements: what a request is to the client that polls it |
| `MCRequestPipeline` | small instances of it |
| `RequestPipeline_proofs` | theorems about it |
| `DiskUse` | attachments in memory and database, disk mutexes, SetVMDisks, UpdateVM, UploadDisk, RemoveDisk, WipeDisk and diskWipe, restarts of the daemon |
| `MCDiskUse` | small instances of it |
| `DiskBacking` | the file and the volume behind a disk: AddDisk, UploadDisk, WipeDisk, SetDiskInfo, RemoveDisk, leftovers, a guest, restarts |
| `MCDisks` | an instance of `DiskUse` and one of `DiskBacking` |
| `Migration`, `Migration_proofs` | the schema migrations, with a daemon that dies anywhere; theorems |
| `NicPlumbing`, `NicPlumbing_proofs` | NIC rows, taps, epairs and bridges through Start, Done, UpdateVMNic, SetVMNicSwitch, SetNics, AddVMNic, nicClone, RemoveVMNic; theorems |
| `Switches`, `Switches_proofs` | AddSwitch, SetSwitchUplink, SetSwitchInfo, RemoveSwitch, both kinds of switches, restarts; theorems |
| `ComPort`, `ComPort_proofs` | one serial port: monitor, logger, channel, interactive clients; theorems |
| `VMConfig` | UpdateVM field by field, AttachIsos, AttachDisks, Save statement by statement, CacheInit |
| `IsoStore` | AddISO, UploadIso, RemoveISO, SetVMISOs, restarts |
| `Storage_proofs` | theorems about `DiskUse`, `DiskBacking` and both in `MCDisks` |
| `PciSlots` | the PCI slots of `generateCommandLine` |
| `ListenPorts` | VNC and debug ports from Start to SetStopped |
| `MCHost` | one small instance of `Migration` and of each of `NicPlumbing`, `Switches`, `ComPort`, `VMConfig`, `IsoStore`, `PciSlots` and `ListenPorts` |
| `Host_proofs` | theorems about the last four of these, and about all of them in `MCHost` |

### VMLifecycle

A step is what one goroutine does between two points where another one can
interfere: taking a mutex, waiting for the supervisor, running an external
command. `Start` is `CallStart` (about to take `vmStartLock`), `StartRefused` or
`StartBegin` (lock taken, status checked, `SetStarting`), one `LockDisk` per
disk, and then `StartSpawn`, or one of the two failures, which leave the status
STARTING and the disks locked as the code does. `Stop` is `StopCheck`, then
`StopWithoutProc` or `StopProc` (`SetStopping`, read `v.proc`, tell the
supervisor), then `StopReturns`. The check and the write are apart because
nothing holds a lock between them. `Done` is three steps, in the order of the
code: `SetStopped`, `unlockDisks`, `NetStop`.

SetVMDisks is `AttachBegin` (`v.mu` taken, status, `validateDisks`), `AttachEmpty`, one
`AttachDisk` for each disk, with `Save` and the unlock of `v.mu` in the last one;
`AttachFails` is the second lookup that fails. It holds `v.mu` of its own VM only, for which
the setters of the status wait (`MuFree`), so the edits of two VMs interleave and each may
have looked at the other before that one wrote. That the look at all VMs is one step loses
nothing: an edit that writes while another looks has raced with it anyway. Two observers
record what no lock excludes: `editsRaced` (two edits were under way at once) and
`editedLate` (one wrote to `v.Disks` between the SetStarting of a Start and the
`unlockDisks` of its Done).

The monitor of a process waits for that process's events but uses `v.proc`, the
newest process of the VM, for everything else, so `MonitorStarted` and
`MonitorDone` look at both. If an event and the notifier are ready together Go's
`select` takes either; `MonitorDone` then drops the event.

`lockedFor[d]` says for which VM a mutex was locked. Go's mutexes have no owner;
the variable is only compared with `NoVM` by actions and with an owner by
properties. Unlocking an unlocked mutex ends a Go program: `fatal`. Nothing
happens after `fatal` or after an orderly exit, so runs without restart set
`CHECK_DEADLOCK FALSE`. `lifecycle_live` has neither and checks deadlock.

Process identities are reused: a process may be replaced by `StartSpawn` once
its monitor ended and no VM, no Stop call and no monitor refers to it (`Free`).
Without that the number of starts would bound every run.

### The supervisor, which is not part of the repository

`go-supervisor` is named in `go.mod` and its source is not here. What the model
takes from its use:

- a child that exits without being told to may be respawned or be the end of the
  process (`MaxSpawns: -1` and the guest's exit code decide; both are allowed
  at any exit);
- events go through the unbuffered channel `Start` makes, which only the monitor
  reads; a new event waits until the last one is taken, and is dropped when no
  monitor reads any more;
- `proc.Stop()` returns only when the process is gone; a process told to stop
  does end, by a kill after the VM's `max_wait` if need be;
- `DoneNotifier` is ready from the moment the process is gone;
- the child of `sudo` may not exist yet, or no longer, when the monitor looks for
  it (`MonitorNoChild` is always possible).

### RequestPipeline

One request is one element of `Request`: not yet asked for, being checked by its
RPC (`rpc`), stored (`created`), taken by the loop (`picked`, `started`), worked
on (`handler`), answered (`complete`, `successful`). The RPC makes its steps in
the order of the code: `CallRPC` finds the VM, `RPCPending` looks for pending
requests, `RPCStatus` for the status, `RPCCreate` stores. The handler looks the
VM up by the stored ID (`HandlerLookup`), checks for other pending requests
(`HandlerCheck`) and acts. The three handlers share these first two steps.

IDs have a spelling: `StopVM` and `DeleteVM` store and compare the string of the
client, while the list is keyed by the canonical form, so a request with an upper
case ID is stored, never found by its handler, and remains pending.

`Failed` sets only `complete`: GORM leaves zero values out of an update by
struct, so `started_at` is untouched. This is also why a request that
`FailAllPending` failed is still handed out.

A restart happens anywhere. It keeps the table and the VM rows, and does in one
step what the daemon does before it serves anything: `CacheInit`, `cleanupVms`
(leftover bhyves are killed, all VMs STOPPED) and `FailAllPending`.

`Start`, of a handler or of an autostart, holds `vmStartLock` (`starter`) while it waits for
the mutexes of the VM's disks, which an upload keeps as long as its client likes
(`OtherLocks`), another VM may have, or an edit in the window of Done has left locked.

Abstractions: the disks of a VM are one mutex (`diskMu`); `alive`, `hasProc` and `told` are the three facts about a process the
handlers depend on; VMs are not created; requests always unmarshal because
`CreateVMReq` marshals them; a failing read of the requests table is left out.

### DiskUse

An attachment is stored in `v.Disks` (`disks`) and in the table `vm_disks`
(`rows`). Checks look at one or the other: AttachDisks, UploadDisk and WipeDisk at
`v.Disks`, RemoveDisk (`InUse`) at `vm_disks`. Start, uploads and removals take the
mutex of a disk (`held`), edits and wipes do not. The module puts all of them
beside each other.

A call of a client is an element of `Op` with a program counter. SetVMDisks is
`AttachBegin` (`v.mu`, status, `validateDisks`, `v.Disks` emptied), `AttachFill`
(the second lookup, by the client's spelling of the ID, which may end the call
with `v.Disks` half filled), `SaveDelete` and `SaveInsert` (the two writes of
`Save`); `SaveFails` may replace either. UpdateVM is the two writes alone,
without `v.mu` and whatever the status. UploadDisk is `UploadBegin`,
`UploadLock`, `UploadEnd`; RemoveDisk is `RemoveBegin`, `RemoveCheck`,
`RemoveDelete`; WipeDisk is `WipeBegin`, `WipeCreate` and its handler
`WipeHandler`, `WipeErase`. Of Start and Done there is what concerns disks:
`StartBegin`, `LockDisk`, the two writes of `Save` (`StartDelete`,
`StartInsert`), `Done` (SetStopped) and `UnlockDisks`.

`hist` is an observer. It records that edits overlapped ("overlap": what edits
and removals check and what they write are separate steps without a common lock),
that an edit failed after it had begun to write ("torn"), or that attachments were
edited after SetStopped and before `unlockDisks` ("window"). No action reads it. The
code gives weaker guarantees after each of these, and the properties say which.

A restart reads `v.Disks` from the rows whose disks exist, and no call survives
it but a wipe that was stored and not started: `FailAllPending` completes it, and
it is handed out all the same (finding 2).

Abstractions: the content of a disk is in `DiskBacking` and not here, so the creation of the
file at the start of an upload is part of `UploadBegin`; `SetVNCPort`'s Save during
Start is merged with Start's own; the row of a removed disk and its entry in
the list go in one step; VMs are not created, and disks only in `DiskBacking`; a failing read of
`vm_disks` (which `InUse` takes for "in use") is left out. Slots of `Op` are used
again, so the number of calls is not bounded, only how many are under way.
A VM has one `Done` at a time, also a bound.

### DiskBacking

A file and a ZFS volume of one name, as sequences of cells, and the disks that have had
this name, one after the other. AddDisk is `AddDisk` (no row has the name),
`LeftoverRefused` (no file or volume has it), `AddBacking` (truncate, or create and
snapshot), `AddRow`. UploadDisk is `UploadDisk` (`validateDiskReq`), `SetSize` for a
volume, `UploadOpen`, which truncates a file, and only then `UploadLocks`; then `Receive`
cell by cell, `UploadDone` or `UploadBreaks`. A wipe is `WipeDisk`, `WipeBegins`,
`RemoveBacking`, `Recreate`; `RemoveBacking` and `Recreate` log their errors and go on.
SetDiskInfo changes the type under everybody; RemoveDisk leaves the data, which the
administrator may remove by hand (`LeftoverRemoved`). The guest writes to what its bhyve
has opened. A restart ends all calls but stored wipes.

`told` is an observer: what the last call that answered said is there. It turns
"unknown" as soon as somebody writes. The field `ok` of a call is an observer too: false
once somebody without business there has disturbed the call (`Spared` says who may write
beside an upload), and then its answer counts for nothing. Sizes of volumes are not told,
because `RemoveBacking` returns a volume to the size of its snapshot.

Abstractions: a VM starts, and a disk is removed, in one step, and Save in SetDiskInfo
does not fail; `DiskUse` and `VMConfig` have these parts. Of the pending requests there
are those to wipe the same disk.

### DiskLease

What a VM promises about disks: it takes a disk only while nobody has it and its bhyve
uses none, its bhyve then uses exactly the disks it has taken, and the end of the use
gives all of them back at once. `VMLifecycle` defines `Lease`, an instance with `holder` =
`lockedFor` and `inUse` = the disks of the processes a monitor supervises, and
`LeaseKept` = `Lease!Spec` is a property of `lifecycle_locks` and a theorem.

### RequestPromise

A request is new, open, failed or done. It is taken up at most once in all lives of the
daemon, also if it has failed before that; who takes it up answers it once or gives up,
and the end of the daemon fails what is open and ends all work. `RequestPipeline` defines
`Promise`, an instance with `state` = the columns `complete` and `successful`, `taken` = how
often the request was handed out and `atWork` = the handlers that have not answered, and
`PromiseKept` = `Promise!Spec` is a property of `requests_safety` and a theorem.

### Migration

A step is one statement on the database, because SQLite commits each by itself.
`schemaVersion` is what `CustomMigrate` has read at this start, `db.version` what is
stored. `MigCrash` may come anywhere and is also what a panic does. Tables are sets:
the old columns of `configs`, the rows that were copied, the tables a rename passes
through, where the index is. `Released` are the databases that releases have left
behind. GORM's `DropColumn`, which is external, rebuilds the table and may lose the
index. An INSERT of an attachment may fail and nobody looks (`db/migrate.go:354`, `447`);
`refused` are the attachments whose last INSERT failed without their row being there.

### NicPlumbing

Every reader of a NIC gets a copy of its row and `Save` writes all columns back, so a
goroutine carries `Copy`: what it has read and what it will write. Start is `NicStart`
(SetStarting), one `PickDevice` per NIC (`getNetArgs`), `NetStart`, `Build` or
`BuildFails` (the NIC is skipped and the VM is started all the same), and `JoinDevice` or `JoinLimited` (`connectIfNic`, with epair and bridge for a rate limit),
each of which may fail half way (`ConnectFails`), and `Launch`. Done is `NicDone`, then
`NetStop`, `Disconnect` and `Demolish` for each NIC. `host` has the devices, `link` the
members of bridges. `mishap` is an observer, below. A row may be "not yet" there or
"removed": AddVMNic makes one, nicClone reads a NIC (`CloneNic`) and makes a row that has
all of it but the VM, the names of its devices included (`CreateClone`), RemoveVMNic looks
at its copy of the row and deletes (`DeleteNic`). An update of a row that is gone changes
nothing and is no error, as in the database. When the list of the interfaces of the host cannot be
read, the code takes it for empty; that is not modelled.

### Switches

A call reads the row (`seen`) and does its parts in the order of the code: SetSwitchUplink
is the check of the rows, `Unset`, `SaveCleared`, `CheckMember`, `AddMember`, `SaveNew`;
`UnsetFails` is the ignored error. Every command and every write of a row can fail: the
second connect of a netgraph uplink after the first (`HalfConnected`), the row after the
bridge (`SaveCleared`, `SaveNew`, `Insert`), the destroy after the row (`DestroySwitch`).
The kernel refuses an interface that is in another
bridge of the same kind. `switchNgRemoveUplink` and `memberUsedByNgSwitch` do not find an
uplink with a dot in its name (`Dotted`). `Restart` is cleanupNet and CreateSwitches.

### ComPort

A life is one opening of the device, with its logger and its channel. The monitor's part
is `PowerOn` .. `DoneSetStopped`; `SetupCom` starts the logger before `AssignCom` sets
`v.ComN`, as the code does, so `LoggerBegin` may see the port of another life or none. A
client has two goroutines: the handler (`ComInteractive` .. `SessionEnds`) and the sender
(`SenderLoop`, `FromDev` or `FromLog`, `Give`), which may outlive it. Bytes from the guest
are numbered. When the log cannot be written `LoggerWrite` still sends the byte ("last"),
and the logger ends after it (`EndsAfter` keeps the byte, as an observer). Statuses are STOPPED, STARTING and RUNNING; whether the port is logged does
not change during a run.

### VMConfig

`updateVMAll` is the sequence of fields in the order of the code; a field is taken as it
is, clamped or checked, and a checked one that is bad ends the call with the earlier
fields changed in memory. `Save` is six statements. Start saves as well, AttachIsos and
AttachDisks do under `v.mu`; UpdateVM holds nothing. Positions are part of the
rows, since their primary key is. `CacheInit` reads the rows in the order of their
positions (`InOrder`) and skips any that it does not find an ISO or a disk for (`Loaded`):
which ones is left open, because RemoveISO and RemoveDisk are not part of this module but
of `IsoStore` and `DiskUse`, and because a lookup may fail. `cfgStale` is an observer: parts that a call
which returned an error, or a load that skipped an attachment, has left different in memory.

### IsoStore

A file is two chunks. `UploadCreate` truncates, `UploadChunk` writes where this upload is,
so two uploads mix; `UploadVerify` compares with what was announced, `UploadSave` writes
the row the upload has read at its start. RemoveISO looks at the VMs in memory, then at
`vm_isos`, then deletes; the file stays. `isoSpoiled` and `isoRaced` are observers.

### PciSlots and ListenPorts

`PciSlots` is `getSlotArgs`: one action per device that may be added, in the order of the
code, with the slot counter, the limits of AHCI disks and CDs (`maxSata`), the early
returns of `getNetArgs` and the LPC bridge at its fixed slot.

`ListenPorts` follows the VNC and debug ports of VMs from Start, under `vmStartLock`, to
SetStopped. `GetFreeTCPPort` counts a uint16 up from the first port, past its end to 0;
bhyve binds later and other programs come and go.

## Runs

Each run's properties are in its `.cfg`; every property has a mutant of the code
in the module that breaks it (comments starting with "Mutant").

| Run | Instance | Shows |
|---|---|---|
| `lifecycle_locks` | 2 VMs, 2 disks, one of them in both VMs, 2 processes, shutdown | a VM is a lease of its disks (`DiskLease`), whatever stops, crashes and a shutdown do; 1.7 million states |
| `lifecycle_attach` | 2 VMs, 1 disk, edits of the attachments at any moment, of both VMs at once | one process per VM, bhyve's disks are the VM's disks, no disk has two users, STOPPED means no process, disk mutexes cover every supervised process and are never unlocked twice; 7 million states |
| `lifecycle_live` | 2 VMs with a disk each, no edits, no shutdown | a stopped VM holds nothing, the start lock is released, stop requests return; 320 thousand states |
| `lifecycle_shutdown` | 2 VMs, shutdown | **violated**: see Findings |
| `requests_safety` | 1 autostarted VM, 3 requests, two spellings, 1 restart | exclusion, the promise of a request (`RequestPromise`), deletion is final, list and rows agree; 1.2 million states |
| `requests_live` | 2 VMs, one of them autostarted, 2 requests, 1 restart | every request is answered or its VM deleted, or, if it starts a VM, a Start waits for ever for a disk; 280 thousand states |
| `requests_zombie` | 1 VM, 2 requests, 1 restart | **violated**: see Findings |
| `requests_delete` | 1 VM, 2 requests | **violated**: see Findings |
| `disks_use` | `DiskUse` with 2 VMs, 1 disk, 2 calls under way; `DiskBacking` with 2 disks of one name, 2 calls | one user per disk, one owner per disk, running VMs are stored with their disks; what clients were told is what is on the disk; 960 thousand states |
| `disks_wipe` | the same `DiskUse` | **violated**: see Findings |
| `host` | one instance of each of eight components, see below | 17 invariants and one action property; 1.3 million states |
| `migrate_nics` | a database with 2 VMs and a NIC each, of any release | **violated**: see Findings |

`host` is one run for `Migration`, `NicPlumbing`, `Switches`, `ComPort`,
`VMConfig`, `IsoStore`, `PciSlots` and `ListenPorts`. They share no state, so
interleaving them would multiply states and show nothing. `moving` picks one at the
start, the others stay idle, and the states are the sum of the components' own.

Why these bounds are enough to see the interesting cases. Two VMs are the least
that compete for `vmStartLock` and for a disk, two disks the least that are
locked one after the other while another VM holds the second. Two processes let
one VM have an old process under a monitor in `Done` and a new one beside it, or
each VM one. `MaxWaiting = 1` lets one Start of a VM wait while another of the
same VM is inside. Requests for different VMs share only the loop, so one VM and
three requests give: two that pass the RPC's check together and a third that
arrives while they are handled. One restart separates a life in which a request
was made from one in which it is found.

For a disk: two VMs are the least that compete for it, and two calls the least that
interleave with each other while VMs start and end. What is checked about a disk
relates its users to each other, and no step makes one disk depend on another
except the order of locking, which `lifecycle_locks` has with two disks.

For what is on a disk (`view` in `MCDisks` picks it or `DiskUse` at the start, as they
share no state): two disks of one name, the second after the first was removed, are the
least that can meet a leftover; two calls interleave with each other, a guest, a change
of the type and a restart. Once the second disk is there, or both a file and a volume,
only one call at a time is under way (`OneCallLater`). Disks are made with one cell and images have two, so that
files and volumes grow and a volume's snapshot is smaller than the volume; every size is
a multiple of the block size 1, and sizes are below 3, so `RoundUp` does nothing here.

In `host`: two VMs with one attachment each for the migrations, where VMs meet only
through the tables, and every release's database; two NICs, one of each VM, or one with a rate limit and one that is
made, cloned and removed during the run, two devices of each kind, one RPC that changes
rows and any number that only clone, which is what a stale row takes; three switches, two
of them netgraph, two uplinks and two calls, the least for a race about an uplink beside
a switch of the other kind; two clients and two lives of a serial port, with one byte
and a channel of one byte so that it is full at once; four fields of an update, one of each treatment,
lists of one ISO and of one or two disks, and two calls; two ISOs of one name and two calls; 7 PCI slots with the bridge at 6, which a
guest with two of each device exceeds; ports of 3 bits for two VMs, with the first
VNC port the last port there is, so that the counter wraps. The constraints of `MCHost`
bound what goes on at once when something has already gone wrong: one call at a time for
a switch after a failure, for a VM after one or after a load that skipped an
attachment, for a serial port that was opened again and
for an ISO that was attached while being removed, no RPC about NICs beside a failed
command, and no start of a VM without NICs. `CHECK_DEADLOCK FALSE`:
runs of `NicPlumbing` and `Switches` end after a mishap, those of `PciSlots` when
the command line is complete.

The request runs end when all requests are used, so they too have
`CHECK_DEADLOCK FALSE`. Processes and requests are interchangeable and the
safety runs use that symmetry; the liveness runs do not use symmetry.

Fairness. Go schedules every goroutine that can run: the steps of Start, of each
monitor, of each Stop call, of each SetVMDisks, of the loop and of each handler are weakly
fair. In `RequestPipeline` a Start that waits for mutexes which are given back again and
again is strongly fair, because Go hands a mutex to whoever has waited for a millisecond. A
process that was told to stop ends, because the supervisor kills it. Nothing is
assumed of clients, uploads, guests, crashes, respawns or restarts. Waiting Start calls are
not fair either: nothing says a mutex waiter gets in before others, and no
property needs it.

Conditions of the properties, each because the code does not give more:

- `LocksCoverProcess` and `NoUnlockOfUnlocked` hold until an edit was late
  (`editedLate`). `Done` publishes STOPPED before `unlockDisks`, and `AttachDisks`
  accepts a VM that is STOPPED; a disk that is attached in that window is
  unlocked without having been locked, and one that is taken away stays locked.
- `NoSharedDisk` holds until both an edit was late and two edits raced. Each alone
  leaves something: after a race a disk may be attached to two VMs, but the mutex lets
  only one of them run; after a late edit the mutexes mean nothing, but the lists are
  disjoint.
- `StartLockReleased` needs that no disk is attached to two VMs.
- `RequestAnswered` excepts requests whose VM has been deleted and needs IDs in
  canonical spelling. Requests to start a VM are answered unless from some moment on a
  Start waits for a disk for ever: with `vmStartLock` in its hands it keeps all others
  waiting, those of other VMs and autostarts too. Stops and deletes are answered all the same.
- `OneUser` needs that attachments are not edited in the window of `Done`;
  `AttachedOnce` needs that none of the three mishaps of `hist` has happened. Each
  one alone leads to a disk with two owners or to an attached disk that is gone.
- `LeaseKept` is checked without edits of the attachments: after a late one the
  mutexes are no lease any more.
- `VersionHonest` and `AttachmentsSurvive` except attachments whose last INSERT failed
  (`refused`): the code stores the version all the same and drops the column later.
- `NoSharedTap`, `RunningPlumbed`, `StoppedClean`: `mishap` of `NicPlumbing`. "failed": a
  command failed after the device had been made; "unbuilt": the device could not be made;
  "lost": a command failed between making a device and writing its name;
  "restarted": a Start overlaps the NetStop of the VM's last life; "stale": a whole-row
  Save has overwritten another; "rewired", "stolen", "window": a NIC was rewired,
  moved or removed under a VM that is up or whose NetStop has yet to read its rows, or
  its limit was changed while its row named an epair, which a clone's does. After the
  last four nothing is claimed. After "unbuilt" and "restarted" `RunningPlumbed` claims
  only that the rows name the devices of bhyve, not that these exist.
- `RowHonest`, `OneUplinkOwner`: `swMishap` of `Switches`. "overlap": two
  calls for one switch at once, after which nothing is claimed; "failed": a
  failure that can leave a row whose uplink its bridge does not have; "left": one that
  can only leave a bridge or a member that no row names, or a dotted uplink that was not
  found and stays; "raced": an uplink was taken between check and build; "cut": the
  daemon ended within a call. After "left" the rows are still unique and each is still
  on its bridge; after "raced" no bridge has an uplink that its row does not name.
- `ShownIsLogged` excepts, for each logger, the byte whose write to the log failed: the
  code shows it to the client before it looks at the error, and the logger ends.
- `ChecksumHonest` excepts files of uploads that failed, were cut or ran beside another
  one; `AttachedExists` excepts an ISO that was attached while it was being removed.
- `ContentAsTold` excepts wipes whose removal failed, an AddDisk beside another one of the
  same name or beside an upload or a wipe that still has the old path, an upload whose
  file another upload or a guest wrote to between the truncation and the lock, and an
  upload that was disturbed by an AddDisk, a wipe or the administrator.
- `RestartChangesNothing` looks at restarts while no call runs and excepts the parts that a
  call which returned an error, or an earlier load, has left behind. An attachment that the
  load does not find is left out, whatever was answered to the client: an ISO that was
  attached while it was removed, a disk removed between the DELETE and the INSERT of a Save,
  or a lookup that fails. All others must be there, in their order. That an attached ISO
  or disk is not removed is `AttachedExists` and `AttachedOnce`, with their own exceptions.
- `SlotsApart` excepts the slot of the LPC bridge for all but CDs; `AutoPortsApart` is
  about ports that are AUTO, because fixed ports are not compared with anything.
- `RunningIsStored` excepts a VM that is being saved, because `Save` deletes
  the rows before it inserts them, and a VM after a save failed.

## Findings

1. *A clean exit can leave a VM behind* (`CleanExitLeavesNoVM`). Start writes
   STARTING before it sets `v.proc`. A Stop by `StopAll` in between finds no
   process, writes STOPPED and returns; Start goes on and launches bhyve.
   `shutdownHandler` counts no running VM and exits. `cleanup.go:17-20` expects
   leftover VMs only after the daemon died or the host went down.
2. *A failed request is executed* (`FailedIsFinal`). `FailAllPending` sets
   `complete`; `GetUnStarted` asks for `started_at IS NULL` only. A request
   stored just before the daemon ended is reported as failed at the next start
   and then carried out.
3. *A running VM can be deleted* (`DeletesOnlyStopped`). DeleteVM checks the
   status when it accepts the request; the handler does not, and `Delete` logs
   and ignores the refusal of `AttachDisks`. A StartVM served between DeleteVM's
   check and its creation of the request makes a delete of a VM that runs.
4. *A wipe can hit a running VM* (`WipeSparesVMs`). WipeDisk checks "that disk is
   not in use by a VM" (`rpc_disk.go:260`) and stores a request; `diskWipe` does not
   check again and takes no mutex, and SetVMDisks does not look for requests. A
   disk that is attached between the two, to a VM that is started, is removed and
   created anew under its bhyve.

5. *A migration that was cut off loses the NICs of every VM* (`NicsSurvive`).
   `migration2024022401` adds the column `config_id` and then reads the VMs with
   `vm.GetAllDB`, which needs `vm_isos` and `vm_disks`; a database of that age has
   neither, so the migration panics. The next start finds the column, skips the
   copy and drops `configs.nics`. `db/migrate.go:131` says "copy nics from
   config.nics to vm_nics.config_id". A crash of the daemon at this point does the
   same without the panic.

Seen while modelling, without a sentence in the repository that says otherwise,
and so not checked as violations:

- An INSERT of an attachment that fails is ignored (`db/migrate.go:354`, `447`): the
  version is stored, the column is dropped two migrations later and the attachment is gone.
- A database that does not exist yet panics at `drop index
  idx_configs_deleted_at` (migration 2024110601): nothing has made the index.
- `setSchemaVersion` deletes the version before it inserts the new one. A daemon
  that dies in between repeats all migrations, and 2024110601 then cannot be
  repeated: the daemon no longer starts, though nothing is lost. The same holds
  after a crash inside 2024110601.
- A logger that is about to send when `killCom` closes its channel ends the daemon
  (`comPanic`); a logger that is scheduled late publishes a channel of a VM that is
  gone; a client whose channel was nil waits for ever.
- VNC ports from 32768 on are dropped: `ParseInt(.., 10, 16)` is signed.
- A NIC, a sound card or a disk of another type than AHCI can be given the slot of
  the LPC bridge.
- Two Saves of one VM that overlap can leave one disk at two positions, if the
  attachments change between them; after a restart `lockDisks` would lock one mutex
  twice.
- A tap whose `ifconfig create` failed is in no row of a VM that is up once its VM has
  ended, so another VM can be given the name, and the NetStop of the first VM then destroys
  the tap of the second.
- `nicClone` copies the names of the original's epair and bridge. If the clone's limit is
  then removed, its VM started and stopped, NetStop destroys the epair and the bridge of
  the NIC it was cloned from, under a running VM.
- Two uploads to one disk with a file: the second truncates the file before it waits for
  the mutex, the first goes on writing, and what it wrote behind the end of the second
  image stays there. Both are answered with success.
- A wipe of a volume that has its snapshot rolls it back and then tries to create it
  again, which always fails and is only logged.
- An uplink whose second netgraph connect failed, or whose row could not be written after
  the bridge, is refused to every switch, its own too, until a restart. A row that could not
  be cleared after its bridge still names an uplink that AddSwitch, which looks only at the
  host, gives to a second switch.
- `GetNgDev` takes the first link of a netgraph switch that has no peer on the host and
  does not look at the rows, so two netgraph NICs of one VM on one switch are given the
  same link.
- `MacIsMulticastFunc` is `util.MacIsBroadcast`, so multicast addresses pass the check of
  a NIC. `nicClone` tests `existingVMNic.Name == ""` where it means the opposite; `Create`
  checks again.

## Theorems

For any number of VMs, disks, processes and requests, any database content and
any number of restarts. The only assumptions are those each module states about its
constants (`ConstantsAssumption`, `SwNames`, `ComConstants`, `IsoConstants` and their
like): bounds are numbers, and the values that stand for nothing (no VM, no uplink, no
client, no checksum) are none of the things themselves. `CfgConstants` adds that the
requests of clients are about the fields there are, and `DiskAssumption` that sizes fit
into `uint64` and that a block is one of the powers of two that divide its range. TLC
evaluates them in the runs.

`VMLifecycle_proofs`:

- `TypeCorrect`: every variable keeps its type.
- `DiskLocks`: `LocksCoverProcess` and `NoUnlockOfUnlocked`, with edits of the
  attachments. `LocksCoverProcess` alone is not inductive: whether
  `LockDisk` or another VM's `unlockDisks` breaks it depends on who holds what.
  The invariant adds what Start holds between its steps (`StarterHolds`: the
  disks it has passed; `StarterWaits`: it has only its own disks still to lock),
  what a monitor holds up to its unlock (`MonitorHolds`: all disks of its VM), and
  that a mutex has one user: no two of Start and the monitors that have yet to
  unlock belong to the same VM (`OneHolder`). The last needs the status:
  a VM with such a monitor, or under Start, is not at a point where Start could
  take it, except after Done has written STOPPED. Both hold until an edit was late, and
  an edit that is not late writes to the list of a VM nobody has locked anything for
  (`LockEdit`).
- `LeaseImplemented`: from the same invariant, every step of `VMLifecycle` is a step of
  `DiskLease` or leaves `holder` and `inUse` alone.
- `OneProcess`: without a shutdown, `OneProcessPerVM`, `StoppedMeansNoProcess` and
  `LaunchedDisksFrozen`, with edits at any moment. The invariant relates status,
  `v.proc` and the monitors: a VM has one monitor that has not written STOPPED, and
  only while it is not STOPPED.
- `DisksUnshared` (`NoSharedDisk`): if the database gives no disk to two VMs. While no
  edits have raced, what an edit is about to append is in no other VM's list
  (`DisksApart`), so lists are disjoint and by `OneProcess` so are the bhyves' disks; while
  no edit was late, `DiskLocks` gives the mutexes, and a mutex is locked for one VM.
- `AllGivenBack` (`StoppedHoldsNothing`): without edits and shutdown, whatever is
  locked or up belongs to a Start, a process or a Done that is under way.

`RequestPipeline_proofs`:

- `TypeCorrect`.
- `OneHandlerPerVM` (`HandlerExclusion`): a handler that works, and whose request
  is pending, works on a stored request with canonical ID. A second handler's
  check would see the first one's request and fail; `PickedStored` says that the
  loop only hands out what is stored.
- `AtMostOnce` (`HandedOutOnce`, which `PromiseKept` contains): a request not yet marked
  was never handed out, and the one between the mark and the hand-out is marked and not yet
  counted.
- `PromiseImplemented` (`PromiseKept`): every step is one of `RequestPromise` or leaves what
  clients see alone. The invariant `PromiseInv` adds to the last one that who has a
  handler was handed out, and that a success was handed out and its handler is through. So a
  request that `FailAllPending` failed may still be taken up and succeed (finding 2), but a
  success is never answered again, and a failure comes from the handler or from the
  restart that ended it.
- `DeleteLasts` (`DeletedIsGone` and `ListMatchesRows`): list and rows differ by
  the VM whose deletion holds the list's mutex, and by nothing else.

`Migration_proofs`, for any number of VMs and attachments and any number of starts
that are cut off anywhere:

- `TypeCorrect`.
- `HonestVersion` (`VersionHonest`). The invariant `MigInv` says how far the run under
  way has got: whatever is behind `at` is done (`Through`, `Behind`), and what the
  statements of a migration have reached (`Reached`).
- `AttachmentsKept` (`AttachmentsSurvive`): a column is dropped only after the migration
  that copies it is through, by `Behind`, in this run or in an earlier one; what a loop
  has gone through is a row or `refused` (`InsertKeeps`).
- `ConfigsKept` (`ConfigsSurvive`): `Tables` says which of the three tables exist and
  which of them is complete at each statement of 2024110601, also in a run that
  finds what an earlier one has left.

`Storage_proofs` about `DiskUse`, for any number of VMs, disks and calls under way:

- `TypeCorrect`. The invariant `TypeInv` that carries the other three adds who holds
  `v.mu` (`EditorAt`), that bhyve has the disks of its VM (`Launched`) and that what a
  Start has yet to lock belongs to it (`StartAt`).
- `DiskHasOneUser` (`OneUser`). `Users` are only those who use a disk now; the mutex
  outlives their use. `Held` names everyone a locked mutex can be locked for: a
  VM from the moment its Start has passed the disk to its `unlockDisks`, a call from its
  lock to its end, and says that there is one of them. `WindowShut` is what "no edit in
  the window of Done" comes to: until `unlockDisks` a stopped VM keeps its list, and if
  it is started again in between, that Start still waits for its first disk.
- `DiskHasOneOwner` (`AttachedOnce`). The property is about lists and rows; to keep it
  when nothing has failed or overlapped, lists *and* rows of different VMs must be apart,
  a VM's rows must be among its list unless a Save is about to replace them
  (`OwnRows`, `Outdated`), all disks must exist, and what a call has checked must still be
  true when it acts (`FillApart` for the list, `RemoveApart` for the removal), which is
  where `OneEdit` is needed.
- `RunningStored` (`RunningIsStored`): `NoneTooMany` holds whatever happens, `NoneMissing`
  until a save has failed, because the last Save to end wrote what the VM has.

`Storage_proofs` about `DiskBacking`, for any number of disks of the name, calls, images
and sizes:

- `ContentInductive`, the invariant `DiskInv`, and `ContentTold` (`ContentAsTold`) from it.
  The property is about answers, but what a call answers was made many steps before. So
  the invariant says of every call that nobody has disturbed (`ok`) what it finds
  (`Found`): an AddDisk no file or volume, and later the empty one it has made; an upload
  exactly the cells it has received; a wipe nothing of what was there. A step keeps this
  for the call that makes it, or the calls it could harm are those that lose `ok`
  (`StepKeeps`, `CallAside`).
- Nobody is spared without a reason: `Spared` lets the holder of a disk's mutex write beside
  an upload to this disk, and `SparedFinds` needs that this cannot be while the upload
  receives. That is `Locked` (an upload that receives has the mutex of its disk) and
  `GuestPlaced` (a VM that runs has it). An upload that waits for the mutex with a volume
  has received nothing, so there is nothing to lose; one that waits with a file has
  truncated it too early, and is not spared.
- What is not there has no cells (`Absent`), so that AddDisk, which finds nothing, makes
  something empty; a file that is open is there (`CallsPlaced`), and no size is beyond
  what `uint64` can tell (`DiskTyped`), which `RoundUp` needs.
- `DisksRunEach`: a behaviour of the run `disks_use` is one of `DiskUse` and one of
  `DiskBacking`, so all these theorems hold in it; `DisksTyped` (`DisksTypeOK`) follows.

`Switches_proofs`, for any number of switches of both kinds, uplinks and calls:

- `SwitchesTyped`.
- `RowsAndBridgesAgree` (`RowHonest`). One invariant for each direction, and they survive
  different mishaps: `NamedIsMember` and `NewIsMember` (the uplink of a row, and the one
  about to be written, is in the bridge) and `MemberIsNamed` (a member is `Explained`
  by its row, by an insert or save to come, or by a bridge that is about to be
  destroyed). The exception in both is a row about to be cleared. `Cleared` says that
  an old uplink is gone from the row before the new one is added.
- `UplinkHasOneOwner` (`OneUplinkOwner`) from `NamedIsMember` and what the kernel does
  (`OneBridge`).

`ComPort_proofs`, for any number of clients, openings and bytes and any capacity of the
channel:

- `PortTyped`.
- `LogComesFirst` (`ShownIsLogged`): not only the byte a client is about to get, also each
  byte in a channel or on its way there is in the log or is the one the log breaks off at
  (`Logged`). The set of these bytes only grows (`LogGrows`), because every opening has
  a logger of its own, so that none that has ended is started again.
- `OneByteLost` (`LastByteOnly`): a sender that has sent a byte to nobody is gone (`SenderAt`).
- `LoggerAlone` (`Unattended`): the flag `comWrite` and every copy of it a logger has taken
  come from a client (`Flagged`).
- `NoPortLeft` (`PortsClosed`): `PortAt` says at which steps of the monitor `v.ComN` is set.

`NicPlumbing_proofs`, for any number of VMs, NICs, RPCs and devices of each kind:

- `NicsTypeCorrect`, and `NicInductive`, the invariant `NicInv` the other three follow
  from. It has layers, and each is claimed only under the mishaps it survives. Types, who
  works at which step (`NicControl`) and how a copy may differ from the row it was read from
  (`CopiesAsRead`) hold always.
- `TapsUnshared` (`NoSharedTap`) from `DevicesNamed`, which holds until a row is overwritten
  with an old copy, moved or rewired: the argument of a bhyve, or of the Start under way, is
  the device its row names, and no device is the argument of two NICs. It survives failed
  commands and a Start beside the last NetStop because `getTapDev` looks at the rows and
  not only at the host.
- `RunningIsPlumbed` (`RunningPlumbed`). That the rows name the devices of bhyve holds
  until rows and devices have parted, that the devices exist unless one could not be made
  or a Start met the NetStop of the VM's last life, that they are connected when nothing
  has gone wrong. `DevicesHeld`, while at most commands have failed,
  follows a device from its choice to its destruction. `Held` has the arguments, the rows a
  NetStop is about to read and the copies it works through; no device is held twice, and
  all exist but those of the VM that is started, where `IsBuilt` says how far the loop
  of netStart is. That NetStop destroys nothing of a running VM needs that it is
  through before its own VM starts again (`StoppedFirst`). For connections `WiresHeld`
  says the same of `Wires`, while nothing has happened at all: every connection is whole,
  with its epair and bridge, and none shares these with another (`WiresApart`). A failed
  command already breaks this layer, since it leaves a connection half made.
- `NothingLeft` (`StoppedClean`) from `HostNeeded`: whatever is on the host is held or part
  of a connection. When no VM is up and no NetStop runs there are none.

`NicConstants` is assumed of the tables a run begins with: a row may name any tap, but an
epair or a bridge only if it has a limit. Before the daemon serves anything
`cleanupNet` runs NetStop for every VM and destroys what is left; where the disconnect of a NIC
fails, as after a reboot of the host, its row keeps the names. Only `setupVMNicRateLimit`
writes an epair or a bridge into a row, so a row with such a name and no limit comes from
taking the limit off while the row had the name. Within a run that is the mishap "window".

`Host_proofs` about `PciSlots`: `SlotsTyped`, and `DevicesApart` (`SlotsApart`)
for any limit. Slots are given in ascending order (`Stacked`, `Collected` for the NICs
not yet on the command line), and a CD is below the bridge because the slots and the CDs
still allowed add up (`Counted`, `CDsBelow`). About `ListenPorts`: `PortsTyped`, and
`AutoPorts` (`AutoPortsApart`) for any number of VMs and any width of a port. A port that
was chosen belongs to a VM that is not STOPPED (`AutoHeld`) and so was in `used` when
the other was chosen; only the holder of `vmStartLock` chooses (`Choosing`). That the
loop of `GetFreeTCPPort` ends at a free port is the existence of a least element of a set
of numbers.

`Host_proofs` about `VMConfig`, for any fields, requests, attachments and calls:

- `ConfigTyped`.
- `CfgInductive`, the invariant `CfgInv`, and `RestartKeepsConfig`
  (`RestartChangesNothing`), an action property, from it. For each of the four parts the rows say what is
  in memory, or some call has yet to come to the statement of `Save` that writes the part
  (`Coming`), or a call has failed (`ColumnsKept`, `ListsKept`). Two Saves may overlap with
  memory changing in between, and the columns need no more than this: the last one to
  write does so after the last change. Rows of attachments are deleted and inserted, and
  the second INSERT of two could find the first one's rows. `InsertsFit` says who is about to
  insert finds no rows, or exactly those he inserts, or somebody will delete them
  again.
- `CacheInit` reads rows in the order of their positions. That rows *can* be put into an order
  (`Orderable`), and that those of a list give this list and no other, is proved for
  finite sets of rows of any size; the run has a list of two disks. What is left out of a
  list is left open, so a load gives the list or marks it (`LoadDoes`).

`Host_proofs` about `IsoStore`, for any number of ISOs, names, VMs and calls:

- `IsoTyped`; with it, that uploads that mix leave a file of no more than an image
  (`WriteAtTyped`).
- `ChecksumsHonest` (`ChecksumHonest`). The property says nothing while somebody uploads,
  so the invariant must: unless the file is spoiled, the upload is alone, any ISO
  of that name is the one it uploads, and the file is what it has received so far
  (`UploadAlone`). That AddISO cannot bring a second ISO of the name in between
  needs that the upload's file exists (`UploadOnDisk`) and that names are unique
  (`NamesOnce`). The proof goes file by file (`HonestAt`): most steps are `IsoAside`,
  one file is where something happens.
- `AttachedImagesExist` (`AttachedExists`): what a RemoveISO has not found in memory
  (`RemoverLooked`), and what a SetVMISOs has looked up (`AttachesIso`), stays so or is
  recorded as raced. This property does not need the second look of
  RemoveISO, at the rows of `vm_isos`.

`Host_proofs` about `MCHost`: `HostRunsEach` says that a behaviour of the run `host` is one of
each component, those it does not move stuttering, so what is proved about a component
holds in the run, and `HostTyped` (`HostTypeOK`) follows. The exception is `NicPlumbing`,
of which it is one if it moves it: else the tables are arbitrary.

Only model-checked: the liveness properties (`lifecycle_live`, `requests_live`), which are
beyond the prover. Every other property a passing run checks is a theorem.

## Not modelled

- Generated code: `cirrina/*.pb.go` and the `*_templ.go` files of the web client, by
  far the largest files. They have no behaviour of their own to state.
- The two clients, `cirrinactl` and `cirrinaweb`: they turn commands and forms into
  RPCs and print the answers. They keep no state between calls; what matters here, that
  clients poll a request until it is complete, is in `RequestPipeline`.
- MAC addresses, NICs on netgraph switches, and NICs that name a switch which is gone.
- Creation of VMs, SetISOInfo, and the columns of a disk other than its type.
- `ApplyFileSize`, which no RPC reaches, and the parsing of what zfs prints.
- Resource limits, UEFI variables, validation of names and host queries: single
  external commands or functions on strings, without state of the daemon.
- Data races below the level of a statement, such as `disk.Delete` changing the map of
  the list without its mutex.

## Plan

Done: all modules of the table above. What could follow:

1. A second RPC on NIC rows at once, and netgraph switches in `NicPlumbing`, which need a
   smaller instance of the rest.
2. A guest that keeps its disk through a crash of the daemon, in `DiskBacking`.
