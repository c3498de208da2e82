---------------------------- MODULE NicPlumbing ----------------------------
(***************************************************************************)
(* The network interfaces of VMs: the rows of NICs, the devices Start      *)
(* chooses, builds and connects (vm/args.go, vm/nic.go, vmnic/, the IF     *)
(* back end of switch/ and epair/), what NetStop takes down again, and the *)
(* RPCs that write the same rows meanwhile.                                *)
(*                                                                         *)
(* Every reader gets a copy of a row, and Save writes all columns of its   *)
(* copy back. Start runs under vmStartLock, NetStop and the RPCs do not.   *)
(***************************************************************************)
EXTENDS Naturals

CONSTANTS
  VM, Nic,
  MaxDev,     \* bound: devices of one kind are numbered from 0 to this
  MaxCalls,   \* bound: RPCs in a run
  Lan,        \* the switch NICs are connected to
  Call,       \* RPCs under way at once
  NicRows,    \* tables a run starts with
  NewNics,    \* rows AddVMNic is asked for
  None

\* Names of tap (or vmnet) devices, epairs and dummy bridges.
Names(kind) == {kind} \X (0 .. MaxDev)
Tap == Names("tap")
Epair == Names("epair")
Bridge == Names("bridge")

\* A row of vm_nics. "on" says that it has a SwitchID, "limited" is RateLimit.
\* Bound: a NIC that is "not yet" created is created at most once.
NotThere == {"not yet", "removed"}
Row == [vm : VM \cup {None} \cup NotThere, on : BOOLEAN, limited : BOOLEAN,
        dev : Tap \cup {None}, epair : Epair \cup {None}, bridge : Bridge \cup {None}]

\* NotThere are no VMs; no device, and none of a switch, has the name None. cleanupNet empties
\* the host at the start of the daemon, but names may stay in the rows, so a run may begin with
\* rows that name any tap, and an epair and a bridge where there is a limit: a limit taken off
\* such a row is the mishap "window", here of an earlier run. AddVMNic names none.
ASSUME NicConstants ==
  /\ Nic \subseteq Nat /\ MaxDev \in Nat /\ MaxCalls \in Nat
  /\ VM \cap NotThere = {}
  /\ None \notin VM \cup NotThere \cup Tap \cup Epair \cup Bridge
  /\ Lan \notin Tap \cup Epair \cup Bridge
  /\ \A r \in NicRows : /\ r \in [Nic -> Row]
                        /\ \A n \in Nic : {r[n].epair, r[n].bridge} # {None} => r[n].limited
  /\ \A r \in NewNics : r \in Row /\ r.vm = None /\ r.epair = None /\ r.bridge = None

VARIABLES
  up,         \* VMs that are not STOPPED
  row,        \* the table
  host,       \* devices that exist
  link,       \* members of bridges
  bhyve,      \* the NIC and device of every argument of a VM's bhyve
  start,      \* the Start that holds vmStartLock
  stop,       \* the NetStop of each VM
  call,       \* the RPCs
  calls,      \* how many there have been
  mishap      \* observer: what has happened that weakens the guarantees

nicVars == <<up, row, host, link, bhyve, start, stop, call, calls, mishap>>

StartIdle == [vm |-> None, pc |-> "idle", todo |-> {}, args |-> {}]
StopIdle == [pc |-> "idle", todo |-> {}]
CallIdle == [pc |-> "idle", vm |-> None, todo |-> {}, nics |-> {}]

\* A goroutine's copy of a row: what it read and what it will write.
Copy == [nic : Nic, seen : Row, row : Row]

NicTypeOK ==
  /\ up \subseteq VM
  /\ row \in [Nic -> Row]
  /\ host \subseteq Tap \cup Epair \cup Bridge
  /\ link \subseteq (Bridge \cup {Lan}) \X (Tap \cup Epair)
  /\ bhyve \in [VM -> SUBSET (Nic \X Tap)]
  /\ start.vm \in VM \cup {None}
  /\ start.pc \in {"idle", "args", "build", "connect"}
  /\ start.todo \subseteq Copy /\ start.args \subseteq Nic \X Tap
  /\ \A v \in VM : /\ stop[v].pc \in {"idle", "list", "leave", "demolish"}
                   /\ stop[v].todo \subseteq Copy
  /\ \A o \in Call : /\ call[o].pc \in {"idle", "update", "remove", "attach", "clone", "delete"}
                     /\ call[o].vm \in VM \cup {None}
                     /\ call[o].todo \subseteq Copy /\ call[o].nics \subseteq Nic
  /\ calls \in 0 .. MaxCalls
  /\ mishap \subseteq {"failed", "lost", "unbuilt", "stale", "rewired", "stolen", "window", "restarted"}

NicIdle ==
  /\ up = {} /\ host = {} /\ link = {}
  /\ bhyve = [v \in VM |-> {}]
  /\ start = StartIdle
  /\ stop = [v \in VM |-> StopIdle]
  /\ call = [o \in Call |-> CallIdle]
  /\ calls = 0
  /\ mishap = {}

NicInit == row \in NicRows /\ NicIdle

-----------------------------------------------------------------------------

\* GetNics: copies of the rows of a VM.
CopyOf(n) == [nic |-> n, seen |-> row[n], row |-> row[n]]
NicsOf(v) == {CopyOf(n) : n \in {m \in Nic : row[m].vm = v}}

\* Loops go through them in the order of the table.
IsNext(c, todo) == c \in todo /\ \A d \in todo : c.nic <= d.nic

IsNic(n) == row[n].vm \notin NotThere

\* Save writes every column. What others wrote since the copy was taken is lost. To
\* update a row that is gone is not an error.
Stale(c) == IF row[c.nic] = c.seen THEN {} ELSE {"stale"}
Save(c, more) ==
  /\ row' = [row EXCEPT ![c.nic] = IF IsNic(c.nic) THEN c.row ELSE @]
  /\ mishap' = mishap \cup Stale(c) \cup more

\* The first name of a kind that is not used.
IsFree(d, used) == d \notin used /\ \A k \in 0 .. d[2] - 1 : <<d[1], k>> \in used

\* A device that is destroyed leaves its bridge, a bridge loses its members.
Without(links, S) == {l \in links : l[1] \notin S /\ l[2] \notin S}

\* The epair and the bridge a row names: those of another NIC if it was cloned.
Inst(r) == {r.epair, r.bridge} \ {None}

\* What connectIfNic and disconnectIfNic call thisMemberName.
Member(r) == IF r.limited THEN r.epair ELSE r.dev

-----------------------------------------------------------------------------
(* Start: a device for every NIC on the command line, then netStart.       *)

\* SetStarting takes v.mu, which SetNics holds.
NicStart(v) ==
  /\ start.pc = "idle" /\ v \notin up
  /\ \A o \in Call : call[o].vm # v
  /\ up' = up \cup {v}
  /\ start' = [StartIdle EXCEPT !.vm = v, !.pc = "args", !.todo = NicsOf(v)]
  /\ mishap' = mishap \cup IF stop[v].pc = "idle" THEN {} ELSE {"restarted"}
  /\ UNCHANGED <<calls, row, host, link, bhyve, stop, call>>

\* getUsedNetPorts: what the rows of VMs that are not STOPPED name.
UsedPorts == {row[n].dev : n \in {m \in Nic : row[m].vm \in up}}

\* Mutant: getTapDev looks only at the host.
PickDeviceOffHost(c, t) ==
  /\ start.pc = "args" /\ IsNext(c, start.todo)
  /\ IsFree(t, host)
  /\ Save([c EXCEPT !.row.dev = t], {})
  /\ start' = [start EXCEPT !.todo = @ \ {c}, !.args = @ \cup {<<c.nic, t>>}]
  /\ UNCHANGED <<calls, up, host, link, bhyve, stop, call>>

\* Mutant: getTapDev looks only at the rows.
PickDeviceOffRows(c, t) ==
  /\ start.pc = "args" /\ IsNext(c, start.todo)
  /\ IsFree(t, UsedPorts)
  /\ Save([c EXCEPT !.row.dev = t], {})
  /\ start' = [start EXCEPT !.todo = @ \ {c}, !.args = @ \cup {<<c.nic, t>>}]
  /\ UNCHANGED <<calls, up, host, link, bhyve, stop, call>>

\* getNetArgs: a device neither on the host nor in use, saved with the copy of the row.
PickDevice(c, t) ==
  /\ start.pc = "args" /\ IsNext(c, start.todo)
  /\ IsFree(t, host \cup UsedPorts)
  /\ Save([c EXCEPT !.row.dev = t], {})
  /\ start' = [start EXCEPT !.todo = @ \ {c}, !.args = @ \cup {<<c.nic, t>>}]
  /\ UNCHANGED <<calls, up, host, link, bhyve, stop, call>>

\* netStart reads the rows again.
NetStart ==
  /\ start.pc = "args" /\ start.todo = {}
  /\ start' = [start EXCEPT !.pc = "build", !.todo = NicsOf(start.vm)]
  /\ UNCHANGED <<calls, up, row, host, link, bhyve, stop, call, mishap>>

\* Build refuses a device that exists or has no name.
Build(c) ==
  /\ start.pc = "build" /\ IsNext(c, start.todo)
  /\ IF c.row.dev \in Tap \ host /\ c.row.on
     THEN start' = [start EXCEPT !.pc = "connect"]
     ELSE start' = [start EXCEPT !.todo = @ \ {c}]
  /\ host' = IF c.row.dev \in Tap THEN host \cup {c.row.dev} ELSE host
  /\ UNCHANGED <<calls, up, row, link, bhyve, stop, call, mishap>>

\* The device cannot be made. netStart goes on without it, and so does Start.
BuildFails(c) ==
  /\ start.pc = "build" /\ IsNext(c, start.todo)
  /\ c.row.dev \in Tap \ host
  /\ start' = [start EXCEPT !.todo = @ \ {c}]
  /\ mishap' = mishap \cup {"unbuilt"}
  /\ UNCHANGED <<calls, up, row, host, link, bhyve, stop, call>>

Connected(c) ==
  /\ start' = [start EXCEPT !.pc = "build", !.todo = @ \ {c}]
  /\ UNCHANGED <<calls, up, bhyve, stop, call>>

\* connectIfNic of a NIC without a limit: the device joins the switch.
JoinDevice(c) ==
  /\ start.pc = "connect" /\ IsNext(c, start.todo)
  /\ ~c.row.limited
  /\ c.row.dev \in host
  /\ link' = link \cup {<<Lan, c.row.dev>>}
  /\ Connected(c)
  /\ UNCHANGED <<row, host, mishap>>

\* setupVMNicRateLimit: an epair, and a bridge with one end of it and the device; then
\* the other end joins the switch. Nobody else knows the two names before it is done.
JoinLimited(c, e, b) ==
  /\ start.pc = "connect" /\ IsNext(c, start.todo)
  /\ c.row.limited
  /\ c.row.dev \in host
  /\ IsFree(e, host) /\ IsFree(b, host)
  /\ host' = host \cup {e, b}
  /\ link' = link \cup {<<b, e>>, <<b, c.row.dev>>, <<Lan, e>>}
  /\ Save([c EXCEPT !.row.epair = e, !.row.bridge = b], {})
  /\ Connected(c)

\* A command fails: netStart goes on with the next NIC. Of the epair and the bridge of
\* a limited NIC there are then the epair (k >= 1), its name in the row (k >= 2), the
\* bridge (k >= 3) and its name (k = 4). What has no name in the row is lost.
ConnectFails(c) ==
  /\ start.pc = "connect" /\ IsNext(c, start.todo)
  /\ \/ UNCHANGED <<row, host>> /\ mishap' = mishap \cup {"failed"}
     \/ /\ c.row.limited
        /\ \E e \in Epair, b \in Bridge, k \in 1 .. 4 :
             /\ IsFree(e, host) /\ IsFree(b, host)
             /\ host' = host \cup {e} \cup IF k >= 3 THEN {b} ELSE {}
             /\ Save([c EXCEPT !.row.epair = IF k >= 2 THEN e ELSE @,
                               !.row.bridge = IF k = 4 THEN b ELSE @],
                     {IF k \in {1, 3} THEN "lost" ELSE "failed"})
  /\ UNCHANGED link
  /\ Connected(c)

Launch ==
  /\ start.pc = "build" /\ start.todo = {}
  /\ bhyve' = [bhyve EXCEPT ![start.vm] = start.args]
  /\ start' = StartIdle
  /\ UNCHANGED <<calls, up, row, host, link, stop, call, mishap>>

-----------------------------------------------------------------------------
(* Done: SetStopped, then NetStop.                                         *)

NicDone(v) ==
  /\ v \in up /\ start.vm # v
  /\ stop[v].pc = "idle"      \* bound: one NetStop of a VM at a time
  /\ up' = up \ {v}
  /\ bhyve' = [bhyve EXCEPT ![v] = {}]
  /\ stop' = [stop EXCEPT ![v].pc = "list"]
  /\ UNCHANGED <<calls, row, host, link, start, call, mishap>>

Stopping(v, pc, todo) ==
  stop' = [stop EXCEPT ![v] = IF todo = {} THEN StopIdle ELSE [pc |-> pc, todo |-> todo]]

NetStop(v) ==
  /\ stop[v].pc = "list"
  /\ Stopping(v, "leave", NicsOf(v))
  /\ UNCHANGED <<calls, up, row, host, link, bhyve, start, call, mishap>>

\* Mutant: unsetVMNicRateLimit forgets the names of what it should destroy.
DisconnectForgets(v, c) ==
  /\ stop[v].pc = "leave" /\ IsNext(c, stop[v].todo)
  /\ link' = link \ {<<Lan, Member(c.row)>>}
  /\ Save([c EXCEPT !.row.epair = None, !.row.bridge = None], {})
  /\ stop' = [stop EXCEPT ![v].pc = "demolish"]
  /\ UNCHANGED <<calls, up, host, bhyve, start, call>>

\* disconnectIfNic and unsetVMNicRateLimit. A NIC without a switch, or whose own end
\* has no name, keeps the epair and the bridge that its row names.
Disconnect(v, c) ==
  /\ stop[v].pc = "leave" /\ IsNext(c, stop[v].todo)
  /\ LET inst == Inst(c.row)
     IN  \/ /\ c.row.on /\ Member(c.row) # None
            /\ host' = host \ inst
            /\ link' = {l \in Without(link, inst) : l # <<Lan, Member(c.row)>>}
            /\ IF inst = {} THEN UNCHANGED <<row, mishap>>
               ELSE Save([c EXCEPT !.row.epair = None, !.row.bridge = None], {})
         \/ /\ ~c.row.on \/ Member(c.row) = None
            /\ UNCHANGED <<row, host, link, mishap>>
  /\ stop' = [stop EXCEPT ![v].pc = "demolish"]
  /\ UNCHANGED <<calls, up, bhyve, start, call>>

Demolish(v, c) ==
  /\ stop[v].pc = "demolish" /\ IsNext(c, stop[v].todo)
  /\ host' = host \ {c.row.dev}
  /\ link' = Without(link, {c.row.dev})
  /\ Stopping(v, "leave", stop[v].todo \ {c})
  /\ UNCHANGED <<calls, up, row, bhyve, start, call, mishap>>

-----------------------------------------------------------------------------
(* RPCs.                                                                   *)

Calling(o, c) == call' = [call EXCEPT ![o] = c]

\* UpdateVMNic and SetVMNicSwitch read a row, whatever its VM does.
ReadNic(o, n, on, limited) ==
  /\ call[o].pc = "idle" /\ IsNic(n)
  /\ calls < MaxCalls /\ calls' = calls + 1
  /\ Calling(o, [call[o] EXCEPT !.pc = "update",
                   !.todo = {[CopyOf(n) EXCEPT !.row.on = on, !.row.limited = limited]}])
  /\ UNCHANGED <<up, row, host, link, bhyve, start, stop, mishap>>

\* A VM that is up, or whose NetStop has yet to read its rows.
Plumbed(v) == v \in up \/ (v \in VM /\ stop[v].pc = "list")

\* The observer also notes a limit that changes while the row names an epair: only
\* a Start of the NIC with a limit writes new names over those of a clone.
SaveNic(o, c) ==
  /\ call[o].pc = "update" /\ c \in call[o].todo
  /\ Save(c, IF \/ Plumbed(row[c.nic].vm) /\ c.row.on # row[c.nic].on
                \/ /\ Plumbed(row[c.nic].vm) \/ Inst(row[c.nic]) # {}
                   /\ c.row.limited # row[c.nic].limited
             THEN {"rewired"} ELSE {})
  /\ Calling(o, CallIdle)
  /\ UNCHANGED <<calls, up, host, link, bhyve, start, stop>>

\* SetNics holds v.mu to its end, and starts with taking all NICs from the VM.
SetNics(o, v, S) ==
  /\ call[o].pc = "idle"
  /\ calls < MaxCalls /\ calls' = calls + 1
  /\ v \notin up /\ \A p \in Call : call[p].vm # v
  /\ Calling(o, [pc |-> "remove", vm |-> v, todo |-> NicsOf(v), nics |-> S])
  /\ UNCHANGED <<up, row, host, link, bhyve, start, stop, mishap>>

\* SetNics changes the list that a NetStop of the VM has yet to read.
Window(v) == IF stop[v].pc = "list" THEN {"window"} ELSE {}

RemoveNic(o, c) ==
  /\ call[o].pc = "remove" /\ c \in call[o].todo
  /\ Save([c EXCEPT !.row.vm = None], Window(call[o].vm))
  /\ Calling(o, [call[o] EXCEPT !.todo = @ \ {c}])
  /\ UNCHANGED <<calls, up, host, link, bhyve, start, stop>>

\* validateNics refuses the list for a NIC that another VM has, or that is not there;
\* the old list is gone.
ValidateNics(o) ==
  /\ call[o].pc = "remove" /\ call[o].todo = {}
  /\ Calling(o, IF \E n \in call[o].nics : row[n].vm \notin {None, call[o].vm}
                THEN CallIdle ELSE [call[o] EXCEPT !.pc = "attach"])
  /\ UNCHANGED <<calls, up, row, host, link, bhyve, start, stop, mishap>>

\* Nothing is checked again: another SetNics may have attached the NIC meanwhile.
AttachNic(o, n) ==
  /\ call[o].pc = "attach" /\ n \in call[o].nics /\ IsNic(n)
  /\ Save([CopyOf(n) EXCEPT !.row.vm = call[o].vm],
          Window(call[o].vm) \cup IF row[n].vm \in {None, call[o].vm} THEN {} ELSE {"stolen"})
  /\ Calling(o, [call[o] EXCEPT !.nics = @ \ {n}])
  /\ UNCHANGED <<calls, up, host, link, bhyve, start, stop>>

\* The end, or a NIC of the list that has been removed meanwhile.
SetNicsReturns(o) ==
  /\ call[o].pc = "attach"
  /\ call[o].nics = {} \/ \E n \in call[o].nics : ~IsNic(n)
  /\ Calling(o, CallIdle)
  /\ UNCHANGED <<calls, up, row, host, link, bhyve, start, stop, mishap>>

\* AddVMNic and Create: the name is checked, and unique in the table.
AddVMNic(n, r) ==
  /\ row[n].vm = "not yet"
  /\ row' = [row EXCEPT ![n] = r]
  /\ UNCHANGED <<calls, up, host, link, bhyve, start, stop, call, mishap>>

\* nicClone reads the source, whatever its VM does.
CloneNic(o, n, m) ==
  /\ call[o].pc = "idle" /\ IsNic(n) /\ row[m].vm = "not yet"
  /\ Calling(o, [call[o] EXCEPT !.pc = "clone", !.todo = {CopyOf(n)}, !.nics = {m}])
  /\ UNCHANGED <<calls, up, row, host, link, bhyve, start, stop, mishap>>

\* "ensure cloned nic is not attached to VM" (nicops.go:83). The rest of the row comes
\* along, the names of the devices its source has at the moment included.
CreateClone(o, c, m) ==
  /\ call[o].pc = "clone" /\ c \in call[o].todo /\ m \in call[o].nics
  /\ row' = [row EXCEPT ![m] = IF IsNic(m) THEN @ ELSE [c.row EXCEPT !.vm = None]]
  /\ Calling(o, CallIdle)
  /\ UNCHANGED <<calls, up, host, link, bhyve, start, stop, mishap>>

\* RemoveVMNic: InUse looks at the copy of the row.
RemoveVMNic(o, n) ==
  /\ call[o].pc = "idle" /\ row[n].vm = None
  /\ calls < MaxCalls /\ calls' = calls + 1
  /\ Calling(o, [call[o] EXCEPT !.pc = "delete", !.todo = {CopyOf(n)}])
  /\ UNCHANGED <<up, row, host, link, bhyve, start, stop, mishap>>

DeleteNic(o, c) ==
  /\ call[o].pc = "delete" /\ c \in call[o].todo
  /\ row' = [row EXCEPT ![c.nic].vm = "removed"]
  /\ mishap' = mishap \cup IF row[c.nic].vm \in VM THEN {"stolen"} ELSE {}
  /\ Calling(o, CallIdle)
  /\ UNCHANGED <<calls, up, host, link, bhyve, start, stop>>

\* Rows overwritten by a goroutine with an old copy, NICs moved or rewired under a
\* running VM: after these the devices and the rows have parted, and nothing more is
\* claimed. Bound: runs end there, and after a second mishap of another kind.
Parted == mishap \notin {{}, {"failed"}, {"lost"}, {"unbuilt"}, {"restarted"}}

NicStep ==
  \/ \E v \in VM :
       \/ NicStart(v) \/ NicDone(v) \/ NetStop(v)
       \/ \E c \in stop[v].todo : Disconnect(v, c) \/ Demolish(v, c)
  \/ \E c \in start.todo :
       \/ \E t \in Tap : PickDevice(c, t)
       \/ Build(c) \/ BuildFails(c) \/ JoinDevice(c) \/ ConnectFails(c)
       \/ \E e \in Epair, b \in Bridge : JoinLimited(c, e, b)
  \/ NetStart \/ Launch
  \/ \E o \in Call :
       \/ \E n \in Nic, on, limited \in BOOLEAN : ReadNic(o, n, on, limited)
       \/ \E v \in VM, S \in SUBSET Nic : SetNics(o, v, S)
       \/ \E c \in call[o].todo : SaveNic(o, c) \/ RemoveNic(o, c) \/ DeleteNic(o, c)
       \/ \E c \in call[o].todo, m \in Nic : CreateClone(o, c, m)
       \/ \E n, m \in Nic : CloneNic(o, n, m)
       \/ ValidateNics(o) \/ SetNicsReturns(o)
       \/ \E n \in Nic : AttachNic(o, n) \/ RemoveVMNic(o, n)
  \/ \E n \in Nic, r \in NewNics : AddVMNic(n, r)

NicNext == ~Parted /\ NicStep

NicSpec == NicInit /\ [][NicNext]_nicVars

-----------------------------------------------------------------------------
(* Properties.                                                             *)

\* Two running VMs never have the same device, also when commands fail or a Start
\* overlaps the NetStop of the VM's last life (vm/vm.go:213): a device that is not on
\* the host any more is still known from the rows, and one that no row of a running VM
\* names is still on the host.
NoSharedTap ==
  ~Parted => \A u, v \in VM : u # v => {a[2] : a \in bhyve[u]} \cap {a[2] : a \in bhyve[v]} = {}

\* A NIC with a switch can be reached from there, through its epair if it is limited.
Reachable(r) ==
  /\ <<Lan, Member(r)>> \in link
  /\ r.limited => {<<r.bridge, r.dev>>, <<r.bridge, r.epair>>} \subseteq link

\* The rows of a running VM name the devices its bhyve was given, the devices exist and
\* they are connected: no NetStop, Start or RPC for another VM takes them down, however
\* they overlap. Where a device could not be made, or a Start overlaps the NetStop of the
\* VM's last life, only the names are certain: a NetStop may then destroy a device that
\* another VM has been given meanwhile. Where a command failed later, only names and devices.
RunningPlumbed ==
  \A v \in VM : \A a \in bhyve[v] :
    /\ ~Parted => row[a[1]].dev = a[2]
    /\ mishap \subseteq {"failed", "lost"} => a[2] \in host
    /\ mishap = {} /\ row[a[1]].on => Reachable(row[a[1]])

\* "clean up all of a VMs nics" (vm/nic.go:149): when all VMs have stopped nothing is
\* left on the host, if no command failed.
StoppedClean ==
  mishap = {} /\ up = {} /\ (\A v \in VM : stop[v].pc = "idle") => host = {}
=============================================================================
