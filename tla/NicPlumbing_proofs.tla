------------------------ MODULE NicPlumbing_proofs ------------------------
(***************************************************************************)
(* Proofs about NicPlumbing, for every set of VMs, NICs and RPCs, any      *)
(* number of devices and any tables.                                       *)
(*                                                                         *)
(* The invariant has layers, each of which holds under the mishaps it      *)
(* survives: types, control and copies always, DevicesNamed until a row    *)
(* has been overwritten, moved or rewired, DevicesHeld while at most       *)
(* commands have failed, and WiresHeld while nothing has happened at all.  *)
(***************************************************************************)
EXTENDS NicPlumbing, TLAPS

\* The type invariant, with the records of Start, NetStop and the RPCs as records.
NicTyped ==
  /\ up \subseteq VM
  /\ row \in [Nic -> Row]
  /\ host \subseteq Tap \cup Epair \cup Bridge
  /\ link \subseteq (Bridge \cup {Lan}) \X (Tap \cup Epair)
  /\ bhyve \in [VM -> SUBSET (Nic \X Tap)]
  /\ start \in [vm : VM \cup {None}, pc : {"idle", "args", "build", "connect"},
                todo : SUBSET Copy, args : SUBSET (Nic \X Tap)]
  /\ stop \in [VM -> [pc : {"idle", "list", "leave", "demolish"}, todo : SUBSET Copy]]
  /\ call \in [Call -> [pc : {"idle", "update", "remove", "attach", "clone", "delete"},
                        vm : VM \cup {None}, todo : SUBSET Copy, nics : SUBSET Nic]]
  /\ calls \in 0 .. MaxCalls
  /\ mishap \subseteq {"failed", "lost", "unbuilt", "stale", "rewired", "stolen", "window", "restarted"}

\* Who works for which VM at which step: Start for one that is up and has no bhyve yet,
\* SetNics for one that is not up. A NetStop that has not read the rows has none.
NicControl ==
  /\ start.pc = "idle" => start = StartIdle
  /\ start.pc # "idle" => start.vm \in up /\ bhyve[start.vm] = {}
  /\ \A v \in VM \ up : bhyve[v] = {}
  /\ \A v \in VM : stop[v].pc \in {"idle", "list"} => stop[v].todo = {}
  /\ \A o \in Call : IF call[o].pc \in {"remove", "attach"} THEN call[o].vm \in VM \ up
                                                            ELSE call[o].vm = None

\* The loops of Start and NetStop do not edit their copies, and have one of each NIC.
AsRead(todo, v) ==
  /\ \A c \in todo : c.row = c.seen /\ c.seen.vm = v
  /\ \A c, d \in todo : c.nic = d.nic => c = d

\* How the copy of each RPC that has one differs from what it has read.
CopiesAsRead ==
  /\ AsRead(start.todo, start.vm)
  /\ \A v \in VM : AsRead(stop[v].todo, v)
  /\ \A o \in Call : \A c \in call[o].todo :
       /\ call[o].pc = "update" =>
            c.row = [c.seen EXCEPT !.on = c.row.on, !.limited = c.row.limited]
       /\ call[o].pc = "remove" => c.row = c.seen /\ c.seen.vm = call[o].vm
       /\ call[o].pc = "clone" => c.row = c.seen

\* The arguments of a VM's bhyve, and those the Start under way has chosen for it.
ArgsOf(v) == bhyve[v] \cup IF start.vm = v THEN start.args ELSE {}

\* The row of the NIC belongs to the VM and names the device, and no device is the
\* argument of two NICs.
DevicesNamed ==
  /\ \A v \in VM : \A a \in ArgsOf(v) : row[a[1]].vm = v /\ row[a[1]].dev = a[2]
  /\ \A u, v \in VM : \A a \in ArgsOf(u), b \in ArgsOf(v) : a[2] = b[2] => a = b
  /\ start.pc = "args" => \A a \in start.args, c \in start.todo : c.nic # a[1]

\* No row has been overwritten with an old copy, moved or rewired.
Current == mishap \cap {"stale", "rewired", "stolen", "window"} = {}

\* The NICs a NetStop is about to read, and the devices of a VM from the moment they are
\* chosen until NetStop has destroyed them.
Listed(v) == {n \in Nic : stop[v].pc = "list" /\ row[n].vm = v}
Held(v) ==
  ArgsOf(v) \cup {<<n, row[n].dev>> : n \in Listed(v)} \cup {<<c.nic, c.row.dev>> : c \in stop[v].todo}

\* At most commands of Start have failed.
Quiet == mishap \subseteq {"failed", "lost"}

\* netStart has been through the Build of the NIC.
IsBuilt(n) ==
  /\ start.pc \in {"build", "connect"}
  /\ \A c \in start.todo : c.nic = n => start.pc = "connect" /\ IsNext(c, start.todo)

\* The last NetStop of a VM that is up is through, every NIC of such a VM has an argument or
\* is about to get one, and the copies of Start are those of the rows.
StoppedFirst == \A v \in up : stop[v].pc = "idle"
ArgsForAll ==
  \A v \in up, n \in Nic : row[n].vm = v =>
    \/ \E a \in ArgsOf(v) : a[1] = n
    \/ start.vm = v /\ start.pc = "args" /\ \E c \in start.todo : c.nic = n
StartCurrent == \A c \in start.todo : c.seen = row[c.nic]

\* Of the VM that is started the devices that are built exist and the others do not; of
\* any other VM they all exist. No device is held twice.
BuiltExist == \A a \in start.args : a[2] \in host <=> IsBuilt(a[1])
HeldExist == \A v \in VM : \A a \in Held(v) : start.vm = v \/ a[2] \in host \cap Tap
HeldApart == \A u, v \in VM : \A a \in Held(u), b \in Held(v) : a[2] = b[2] => u = v /\ a = b

DevicesHeld == StoppedFirst /\ ArgsForAll /\ StartCurrent /\ BuiltExist /\ HeldExist /\ HeldApart

\* Nothing has happened that weakens the guarantees.
Clean == mishap = {}

\* The NIC of a VM that is up is connected, if it has a switch: netStart is through with it.
IsWired(v, n) ==
  /\ v \in up /\ row[n].vm = v
  /\ start.vm = v => start.pc \in {"build", "connect"} /\ \A c \in start.todo : c.nic # n

\* Those, and the NICs of a stopped VM its NetStop has not disconnected yet: the row it is
\* about to read, or the copy it works with.
WiredNics(v) == {n \in Nic : IsWired(v, n)} \cup Listed(v)
Leaving(v) == {c \in stop[v].todo : ~(stop[v].pc = "demolish" /\ IsNext(c, stop[v].todo))}
Wires(v) ==
  {w \in {<<n, row[n]>> : n \in WiredNics(v)} \cup {<<c.nic, c.row>> : c \in Leaving(v)} : w[2].on}

\* Only a NIC with a limit names an epair and a bridge, also in the copy of a clone.
LimitNamed ==
  /\ \A n \in Nic : Inst(row[n]) # {} => row[n].limited
  /\ \A o \in Call : call[o].pc = "clone" =>
       \A c \in call[o].todo : Inst(c.row) # {} => c.row.limited

\* netStart connects NICs that have a switch.
ConnectsOn == start.pc = "connect" => \A c \in start.todo : IsNext(c, start.todo) => c.row.on

\* Every connection is there with its epair and its bridge, which no other connection has,
\* and everything on the host is a device that is held or part of a connection.
WiresWhole ==
  \A v \in VM : \A w \in Wires(v) :
    /\ Reachable(w[2])
    /\ w[2].limited => w[2].epair # None /\ w[2].bridge # None
    /\ Inst(w[2]) # {} => w[2].limited
    /\ Inst(w[2]) \subseteq host
WiresApart ==
  \A u, v \in VM : \A w \in Wires(u), x \in Wires(v) :
    Inst(w[2]) \cap Inst(x[2]) # {} => u = v /\ w = x
HostNeeded ==
  \A d \in host : \E v \in VM :
    (\E a \in Held(v) : a[2] = d) \/ (\E w \in Wires(v) : d \in Inst(w[2]))

WiresHeld == LimitNamed /\ ConnectsOn /\ WiresWhole /\ WiresApart /\ HostNeeded

NicInv ==
  /\ NicTyped /\ NicControl /\ CopiesAsRead
  /\ Current => DevicesNamed
  /\ Quiet => DevicesHeld
  /\ Clean => WiresHeld

-----------------------------------------------------------------------------
\* The kinds of devices have different names.
LEMMA DeviceKinds ==
  /\ Tap \cap Epair = {} /\ Tap \cap Bridge = {} /\ Epair \cap Bridge = {}
  BY DEF Tap, Epair, Bridge, Names

\* GetNics returns copies.
LEMMA NicsTyped ==
  ASSUME NicTyped, NEW v
  PROVE  NicsOf(v) \in SUBSET Copy
<1>. SUFFICES ASSUME NEW n \in Nic PROVE CopyOf(n) \in Copy
  BY DEF NicsOf
<1>1. row[n] \in Row
  BY DEF NicTyped
<1>. QED
  BY <1>1 DEF CopyOf, Copy

\* What a goroutine makes of its copy of a row is again a copy of a row.
LEMMA CopyEdited ==
  ASSUME NEW c \in Copy, NEW r \in Row
  PROVE  [c EXCEPT !.row = r] \in Copy
  BY DEF Copy

\* An edit of a column of a copy is an edit of its row.
LEMMA EditOfCopy ==
  ASSUME NEW c \in Copy, NEW t, NEW e, NEW b, NEW on, NEW limited, NEW v
  PROVE  /\ [c EXCEPT !.row.dev = t] = [c EXCEPT !.row = [c.row EXCEPT !.dev = t]]
         /\ [c EXCEPT !.row.epair = e, !.row.bridge = b]
              = [c EXCEPT !.row = [c.row EXCEPT !.epair = e, !.bridge = b]]
         /\ [c EXCEPT !.row.on = on, !.row.limited = limited]
              = [c EXCEPT !.row = [c.row EXCEPT !.on = on, !.limited = limited]]
         /\ [c EXCEPT !.row.vm = v] = [c EXCEPT !.row = [c.row EXCEPT !.vm = v]]
  BY DEF Copy, Row

\* What a Save of an edited copy does, and what it means that nothing was lost.
LEMMA Saved ==
  ASSUME NicTyped, NEW c \in Copy, NEW r \in Row, NEW more, Save([c EXCEPT !.row = r], more)
  PROVE  /\ row' = [row EXCEPT ![c.nic] = IF IsNic(c.nic) THEN r ELSE @]
         /\ row' \in [Nic -> Row]
         /\ mishap' = mishap \cup Stale(c) \cup more
         /\ "stale" \notin mishap' => row[c.nic] = c.seen
<1>1. c.nic \in Nic /\ [c EXCEPT !.row = r].nic = c.nic /\ [c EXCEPT !.row = r].row = r
      /\ [c EXCEPT !.row = r].seen = c.seen
  BY DEF Copy
<1>. QED
  BY <1>1 DEF NicTyped, Save, Stale

\* What getNetArgs writes.
LEMMA PickDeviceSaves ==
  ASSUME NicTyped, NEW c \in Copy, NEW t \in Tap, PickDevice(c, t)
  PROVE  /\ row' = [row EXCEPT ![c.nic] = IF IsNic(c.nic) THEN [c.row EXCEPT !.dev = t] ELSE @]
         /\ row' \in [Nic -> Row]
         /\ mishap' = mishap \cup Stale(c)
         /\ "stale" \notin mishap' => row[c.nic] = c.seen
<1>1. c.row \in Row
  BY DEF Copy
<1>2. [c.row EXCEPT !.dev = t] \in Row
  BY <1>1 DEF Row
<1>3. Save([c EXCEPT !.row = [c.row EXCEPT !.dev = t]], {})
  BY EditOfCopy DEF PickDevice
<1>. QED
  BY <1>2, <1>3, Saved

\* What setupVMNicRateLimit writes.
LEMMA JoinLimitedSaves ==
  ASSUME NicTyped, NEW c \in Copy, NEW e \in Epair, NEW b \in Bridge, JoinLimited(c, e, b)
  PROVE  /\ row' = [row EXCEPT ![c.nic] = IF IsNic(c.nic)
                                          THEN [c.row EXCEPT !.epair = e, !.bridge = b] ELSE @]
         /\ row' \in [Nic -> Row]
         /\ mishap' = mishap \cup Stale(c)
         /\ "stale" \notin mishap' => row[c.nic] = c.seen
<1>1. c.row \in Row
  BY DEF Copy
<1>2. [c.row EXCEPT !.epair = e, !.bridge = b] \in Row
  BY <1>1 DEF Row
<1>3. Save([c EXCEPT !.row = [c.row EXCEPT !.epair = e, !.bridge = b]], {})
  BY EditOfCopy DEF JoinLimited
<1>. QED
  BY <1>2, <1>3, Saved

\* A command that fails leaves the device of the row alone, and says so.
LEMMA ConnectFailsSaves ==
  ASSUME NicTyped, NEW c \in Copy, ConnectFails(c)
  PROVE  /\ row' \in [Nic -> Row]
         /\ \A n \in Nic : n # c.nic => row'[n] = row[n]
         /\ row'[c.nic] = row[c.nic] \/ (row'[c.nic].vm = c.row.vm /\ row'[c.nic].dev = c.row.dev
                                         /\ ("stale" \notin mishap' => row[c.nic] = c.seen))
         /\ mishap \subseteq mishap' /\ mishap' \subseteq mishap \cup {"failed", "lost", "stale"}
         /\ mishap' # {}
         /\ host \subseteq host' /\ host' \subseteq host \cup Epair \cup Bridge
<1>1. c.row \in Row /\ c.nic \in Nic
  BY DEF Copy
<1>2. CASE UNCHANGED <<row, host>> /\ mishap' = mishap \cup {"failed"}
  BY <1>1, <1>2 DEF NicTyped
<1>3. ASSUME NEW e \in Epair, NEW b \in Bridge, NEW k \in 1 .. 4,
             host' = host \cup {e} \cup IF k >= 3 THEN {b} ELSE {},
             Save([c EXCEPT !.row.epair = IF k >= 2 THEN e ELSE @,
                            !.row.bridge = IF k = 4 THEN b ELSE @],
                  {IF k \in {1, 3} THEN "lost" ELSE "failed"})
      PROVE  /\ row' \in [Nic -> Row]
             /\ \A n \in Nic : n # c.nic => row'[n] = row[n]
             /\ row'[c.nic] = row[c.nic] \/ (row'[c.nic].vm = c.row.vm /\ row'[c.nic].dev = c.row.dev
                                             /\ ("stale" \notin mishap' => row[c.nic] = c.seen))
             /\ mishap \subseteq mishap' /\ mishap' \subseteq mishap \cup {"failed", "lost", "stale"}
             /\ mishap' # {}
             /\ host \subseteq host' /\ host' \subseteq host \cup Epair \cup Bridge
  <2>. DEFINE r == [c.row EXCEPT !.epair = IF k >= 2 THEN e ELSE @, !.bridge = IF k = 4 THEN b ELSE @]
              more == {IF k \in {1, 3} THEN "lost" ELSE "failed"}
  <2>1. r \in Row /\ r.vm = c.row.vm /\ r.dev = c.row.dev
    BY <1>1 DEF Row
  <2>2. [c EXCEPT !.row.epair = IF k >= 2 THEN e ELSE @, !.row.bridge = IF k = 4 THEN b ELSE @]
          = [c EXCEPT !.row = r]
    BY DEF Copy, Row
  <2>3. Save([c EXCEPT !.row = r], more)
    BY <1>3, <2>2
  <2>. HIDE DEF r, more
  <2>4. /\ row' = [row EXCEPT ![c.nic] = IF IsNic(c.nic) THEN r ELSE @]
        /\ row' \in [Nic -> Row]
        /\ mishap' = mishap \cup Stale(c) \cup more
        /\ "stale" \notin mishap' => row[c.nic] = c.seen
    BY <2>1, <2>3, Saved
  <2>5. more \subseteq {"failed", "lost"} /\ more # {}
    BY DEF more
  <2>6. Stale(c) \subseteq {"stale"}
    BY DEF Stale
  <2>7. row \in [Nic -> Row]
    BY DEF NicTyped
  <2>8. \A n \in Nic : n # c.nic => row'[n] = row[n]
    BY <2>4, <2>7
  <2>9. row'[c.nic] = row[c.nic] \/ row'[c.nic] = r
    BY <2>4, <2>7, <1>1
  <2>. QED
    BY <1>3, <2>1, <2>4, <2>5, <2>6, <2>8, <2>9
<1>. QED
  BY <1>2, <1>3 DEF ConnectFails

\* Disconnect writes a row only to forget an epair and a bridge.
LEMMA DisconnectSaves ==
  ASSUME NicTyped, NEW v \in VM, NEW c \in Copy, Disconnect(v, c)
  PROVE  /\ row' \in [Nic -> Row]
         /\ \A n \in Nic : n # c.nic => row'[n] = row[n]
         /\ row'[c.nic] = row[c.nic] \/ (row'[c.nic] = [c.row EXCEPT !.epair = None, !.bridge = None]
                                         /\ ("stale" \notin mishap' => row[c.nic] = c.seen))
         /\ mishap \subseteq mishap' /\ mishap' \subseteq mishap \cup {"stale"}
<1>1. c.row \in Row /\ c.nic \in Nic
  BY DEF Copy
<1>2. CASE UNCHANGED <<row, mishap>>
  BY <1>1, <1>2 DEF NicTyped
<1>3. CASE Save([c EXCEPT !.row.epair = None, !.row.bridge = None], {})
  <2>. DEFINE r == [c.row EXCEPT !.epair = None, !.bridge = None]
  <2>1. r \in Row
    BY <1>1 DEF Row
  <2>2. Save([c EXCEPT !.row = r], {})
    BY <1>3, EditOfCopy
  <2>. HIDE DEF r
  <2>3. /\ row' = [row EXCEPT ![c.nic] = IF IsNic(c.nic) THEN r ELSE @]
        /\ row' \in [Nic -> Row]
        /\ mishap' = mishap \cup Stale(c) \cup {}
        /\ "stale" \notin mishap' => row[c.nic] = c.seen
    BY <2>1, <2>2, Saved
  <2>4. row \in [Nic -> Row]
    BY DEF NicTyped
  <2>5. row'[c.nic] = row[c.nic] \/ row'[c.nic] = r
    BY <1>1, <2>3, <2>4
  <2>6. \A n \in Nic : n # c.nic => row'[n] = row[n]
    BY <2>3, <2>4
  <2>. QED
    BY <2>3, <2>5, <2>6 DEF Stale, r
<1>. QED
  BY <1>2, <1>3 DEF Disconnect

\* A device that exists is not None.
LEMMA DeviceOnHost ==
  ASSUME NicTyped, NEW r \in Row, r.dev \in host
  PROVE  r.dev \in Tap
<1>1. r.dev \in Tap \cup {None}
  BY DEF Row
<1>2. None \notin host
  BY NicConstants DEF NicTyped
<1>. QED
  BY <1>1, <1>2

\* NicTyped is kept: steps of Done, NetStop and the begin of Start, the steps of
\* Start, the RPCs, and all together.
LEMMA TypedVM ==
  ASSUME NicTyped, NEW v \in VM,
         \/ NicStart(v) \/ NicDone(v) \/ NetStop(v)
         \/ \E c \in stop[v].todo : Disconnect(v, c) \/ Demolish(v, c)
  PROVE  NicTyped'
<1>1. CASE NicStart(v)
  <2>1. NicsOf(v) \in SUBSET Copy
    BY NicsTyped
  <2>2. start' = [vm |-> v, pc |-> "args", todo |-> NicsOf(v), args |-> {}]
    BY <1>1 DEF NicStart, StartIdle
  <2>. QED
    BY <1>1, <2>1, <2>2 DEF NicStart, NicTyped
<1>2. CASE NicDone(v)
  BY <1>2 DEF NicDone, NicTyped
<1>3. CASE NetStop(v)
  <2>1. NicsOf(v) \in SUBSET Copy
    BY NicsTyped
  <2>. QED
    BY <1>3, <2>1 DEF NetStop, Stopping, StopIdle, NicTyped
<1>4. ASSUME NEW c \in stop[v].todo, Disconnect(v, c) PROVE NicTyped'
  <2>1. c \in Copy
    BY DEF NicTyped
  <2>2. row' \in [Nic -> Row] /\ mishap' \subseteq mishap \cup {"stale"}
    BY <1>4, <2>1, DisconnectSaves
  <2>3. host' \subseteq host /\ link' \subseteq link
    BY <1>4 DEF Disconnect, Without
  <2>4. stop' \in [VM -> [pc : {"idle", "list", "leave", "demolish"}, todo : SUBSET Copy]]
    <3>1. stop' = [stop EXCEPT ![v].pc = "demolish"]
      BY <1>4 DEF Disconnect
    <3>. QED
      BY <3>1 DEF NicTyped
  <2>. QED
    BY <1>4, <2>2, <2>3, <2>4 DEF Disconnect, NicTyped
<1>5. ASSUME NEW c \in stop[v].todo, Demolish(v, c) PROVE NicTyped'
  BY <1>5 DEF Demolish, Stopping, StopIdle, Without, NicTyped
<1>. QED
  BY <1>1, <1>2, <1>3, <1>4, <1>5

LEMMA TypedStart ==
  ASSUME NicTyped, NEW c \in start.todo,
         \/ \E t \in Tap : PickDevice(c, t)
         \/ Build(c) \/ BuildFails(c) \/ JoinDevice(c) \/ ConnectFails(c)
         \/ \E e \in Epair, b \in Bridge : JoinLimited(c, e, b)
  PROVE  NicTyped'
<1>0. c \in Copy /\ c.nic \in Nic /\ c.row \in Row
  BY DEF Copy, NicTyped
<1>1. ASSUME NEW t \in Tap, PickDevice(c, t) PROVE NicTyped'
  <2>1. row' \in [Nic -> Row] /\ mishap' \subseteq mishap \cup {"stale"}
    BY <1>0, <1>1, PickDeviceSaves DEF Stale
  <2>2. start' = [start EXCEPT !.todo = @ \ {c}, !.args = @ \cup {<<c.nic, t>>}]
    BY <1>1 DEF PickDevice
  <2>3. start' \in [vm : VM \cup {None}, pc : {"idle", "args", "build", "connect"},
                    todo : SUBSET Copy, args : SUBSET (Nic \X Tap)]
    <3>1. <<c.nic, t>> \in Nic \X Tap
      BY <1>0
    <3>2. start.args \cup {<<c.nic, t>>} \in SUBSET (Nic \X Tap) /\ start.todo \ {c} \in SUBSET Copy
      BY <3>1 DEF NicTyped
    <3>. QED
      BY <2>2, <3>2 DEF NicTyped
  <2>4. UNCHANGED <<calls, up, host, link, bhyve, stop, call>>
    BY <1>1 DEF PickDevice
  <2>. QED
    BY <2>1, <2>3, <2>4 DEF NicTyped
<1>2. CASE Build(c) \/ BuildFails(c)
  BY <1>2 DEF Build, BuildFails, NicTyped
<1>3. CASE JoinDevice(c)
  <2>1. c.row.dev \in Tap
    BY <1>0, <1>3, DeviceOnHost DEF JoinDevice
  <2>2. link' \subseteq (Bridge \cup {Lan}) \X (Tap \cup Epair)
    <3>1. <<Lan, c.row.dev>> \in (Bridge \cup {Lan}) \X (Tap \cup Epair)
      BY <2>1
    <3>. QED
      BY <1>3, <3>1 DEF JoinDevice, NicTyped
  <2>. QED
    BY <1>3, <2>2 DEF JoinDevice, Connected, NicTyped
<1>4. CASE ConnectFails(c)
  <2>1. row' \in [Nic -> Row] /\ mishap' \subseteq mishap \cup {"stale", "lost", "failed"}
        /\ host' \subseteq host \cup Epair \cup Bridge
    BY <1>0, <1>4, ConnectFailsSaves
  <2>2. Connected(c) /\ UNCHANGED link
    BY <1>4 DEF ConnectFails
  <2>. QED
    BY <2>1, <2>2 DEF Connected, NicTyped
<1>5. ASSUME NEW e \in Epair, NEW b \in Bridge, JoinLimited(c, e, b) PROVE NicTyped'
  <2>1. row' \in [Nic -> Row] /\ mishap' \subseteq mishap \cup {"stale"}
    BY <1>0, <1>5, JoinLimitedSaves DEF Stale
  <2>2. c.row.dev \in Tap
    BY <1>0, <1>5, DeviceOnHost DEF JoinLimited
  <2>3. link' \subseteq (Bridge \cup {Lan}) \X (Tap \cup Epair)
    <3>1. {<<b, e>>, <<b, c.row.dev>>, <<Lan, e>>} \subseteq (Bridge \cup {Lan}) \X (Tap \cup Epair)
      BY <2>2
    <3>. QED
      BY <1>5, <3>1 DEF JoinLimited, NicTyped
  <2>4. host' \subseteq Tap \cup Epair \cup Bridge
    BY <1>5 DEF JoinLimited, NicTyped
  <2>5. Connected(c)
    BY <1>5 DEF JoinLimited
  <2>. QED
    BY <2>1, <2>3, <2>4, <2>5 DEF Connected, NicTyped
<1>. QED
  BY <1>1, <1>2, <1>3, <1>4, <1>5

\* What the three RPCs that save a row write, and what the observer notes.
LEMMA SaveNicSaves ==
  ASSUME NicTyped, NEW o \in Call, NEW c \in call[o].todo, SaveNic(o, c)
  PROVE  /\ c \in Copy
         /\ row' = [row EXCEPT ![c.nic] = IF IsNic(c.nic) THEN c.row ELSE @]
         /\ row' \in [Nic -> Row]
         /\ mishap \subseteq mishap' /\ mishap' \subseteq mishap \cup {"stale", "rewired"}
         /\ "stale" \notin mishap' => row[c.nic] = c.seen
         /\ "rewired" \notin mishap' =>
              /\ Plumbed(row[c.nic].vm) => c.row.on = row[c.nic].on
              /\ Plumbed(row[c.nic].vm) \/ Inst(row[c.nic]) # {} => c.row.limited = row[c.nic].limited
<1>. DEFINE more == IF \/ Plumbed(row[c.nic].vm) /\ c.row.on # row[c.nic].on
                       \/ /\ Plumbed(row[c.nic].vm) \/ Inst(row[c.nic]) # {}
                          /\ c.row.limited # row[c.nic].limited
                    THEN {"rewired"} ELSE {}
<1>1. c \in Copy
  BY DEF NicTyped
<1>2. c.row \in Row /\ [c EXCEPT !.row = c.row] = c
  BY <1>1 DEF Copy
<1>3. Save([c EXCEPT !.row = c.row], more)
  BY <1>2 DEF SaveNic
<1>. HIDE DEF more
<1>4. /\ row' = [row EXCEPT ![c.nic] = IF IsNic(c.nic) THEN c.row ELSE @]
      /\ row' \in [Nic -> Row]
      /\ mishap' = mishap \cup Stale(c) \cup more
      /\ "stale" \notin mishap' => row[c.nic] = c.seen
  BY <1>1, <1>2, <1>3, Saved
<1>5. more \subseteq {"rewired"} /\ Stale(c) \subseteq {"stale"}
  BY DEF more, Stale
<1>6. "rewired" \notin more =>
        /\ Plumbed(row[c.nic].vm) => c.row.on = row[c.nic].on
        /\ Plumbed(row[c.nic].vm) \/ Inst(row[c.nic]) # {} => c.row.limited = row[c.nic].limited
  BY DEF more
<1>. QED
  BY <1>1, <1>4, <1>5, <1>6

LEMMA RemoveNicSaves ==
  ASSUME NicTyped, NEW o \in Call, NEW c \in call[o].todo, RemoveNic(o, c)
  PROVE  /\ c \in Copy
         /\ row' = [row EXCEPT ![c.nic] = IF IsNic(c.nic) THEN [c.row EXCEPT !.vm = None] ELSE @]
         /\ row' \in [Nic -> Row]
         /\ mishap' = mishap \cup Stale(c) \cup Window(call[o].vm)
         /\ "stale" \notin mishap' => row[c.nic] = c.seen
<1>1. c \in Copy
  BY DEF NicTyped
<1>2. c.row \in Row
  BY <1>1 DEF Copy
<1>3. [c.row EXCEPT !.vm = None] \in Row
  BY <1>2 DEF Row
<1>4. Save([c EXCEPT !.row = [c.row EXCEPT !.vm = None]], Window(call[o].vm))
  BY <1>1, EditOfCopy DEF RemoveNic
<1>. QED
  BY <1>1, <1>3, <1>4, Saved

LEMMA AttachNicSaves ==
  ASSUME NicTyped, NEW o \in Call, NEW n \in Nic, AttachNic(o, n)
  PROVE  /\ row' = [row EXCEPT ![n] = [row[n] EXCEPT !.vm = call[o].vm]]
         /\ row' \in [Nic -> Row]
         /\ mishap' = mishap \cup Window(call[o].vm)
                        \cup IF row[n].vm \in {None, call[o].vm} THEN {} ELSE {"stolen"}
<1>. DEFINE more == Window(call[o].vm)
                      \cup IF row[n].vm \in {None, call[o].vm} THEN {} ELSE {"stolen"}
<1>1. CopyOf(n) \in Copy /\ CopyOf(n).row = row[n] /\ CopyOf(n).nic = n /\ CopyOf(n).seen = row[n]
      /\ row[n] \in Row /\ row \in [Nic -> Row]
  BY DEF NicTyped, CopyOf, Copy
<1>2. call[o].vm \in VM \cup {None}
  BY DEF NicTyped
<1>3. [row[n] EXCEPT !.vm = call[o].vm] \in Row
  BY <1>1, <1>2 DEF Row
<1>4. Save([CopyOf(n) EXCEPT !.row = [row[n] EXCEPT !.vm = call[o].vm]], more)
  BY <1>1, EditOfCopy DEF AttachNic
<1>. HIDE DEF more
<1>5. /\ row' = [row EXCEPT ![n] = IF IsNic(n) THEN [row[n] EXCEPT !.vm = call[o].vm] ELSE @]
      /\ row' \in [Nic -> Row]
      /\ mishap' = mishap \cup Stale(CopyOf(n)) \cup more
  BY <1>1, <1>3, <1>4, Saved
<1>6. Stale(CopyOf(n)) = {}
  BY <1>1 DEF Stale
<1>7. IsNic(n)
  BY DEF AttachNic
<1>. QED
  BY <1>5, <1>6, <1>7 DEF more

CallStep(o) ==
  \/ \E n \in Nic, on, limited \in BOOLEAN : ReadNic(o, n, on, limited)
  \/ \E v \in VM, S \in SUBSET Nic : SetNics(o, v, S)
  \/ \E c \in call[o].todo : SaveNic(o, c) \/ RemoveNic(o, c) \/ DeleteNic(o, c)
  \/ \E c \in call[o].todo, m \in Nic : CreateClone(o, c, m)
  \/ \E n, m \in Nic : CloneNic(o, n, m)
  \/ ValidateNics(o) \/ SetNicsReturns(o)
  \/ \E n \in Nic : AttachNic(o, n) \/ RemoveVMNic(o, n)

LEMMA TypedCall ==
  ASSUME NicTyped, NEW o \in Call, CallStep(o)
  PROVE  NicTyped'
<1>. DEFINE C == [pc : {"idle", "update", "remove", "attach", "clone", "delete"},
                  vm : VM \cup {None}, todo : SUBSET Copy, nics : SUBSET Nic]
<1>0. call \in [Call -> C] /\ call[o] \in C /\ CallIdle \in C
  BY DEF NicTyped, CallIdle
<1>a. \A x \in C : Calling(o, x) => call' \in [Call -> C]
  BY <1>0 DEF Calling
<1>c. \A n \in Nic : CopyOf(n) \in Copy /\ CopyOf(n).row = row[n] /\ row[n] \in Row
  BY DEF NicTyped, CopyOf, Copy
<1>1. ASSUME NEW n \in Nic, NEW on \in BOOLEAN, NEW limited \in BOOLEAN, ReadNic(o, n, on, limited)
      PROVE  NicTyped'
  <2>. DEFINE d == [CopyOf(n) EXCEPT !.row.on = on, !.row.limited = limited]
              x == [call[o] EXCEPT !.pc = "update", !.todo = {d}]
  <2>1. [row[n] EXCEPT !.on = on, !.limited = limited] \in Row
    BY <1>c DEF Row
  <2>2. d = [CopyOf(n) EXCEPT !.row = [row[n] EXCEPT !.on = on, !.limited = limited]]
    BY <1>c, EditOfCopy
  <2>3. d \in Copy
    BY <1>c, <2>1, <2>2, CopyEdited
  <2>. HIDE DEF d
  <2>4. x \in C
    BY <1>0, <2>3
  <2>5. Calling(o, x) /\ calls' = calls + 1 /\ calls < MaxCalls
        /\ UNCHANGED <<up, row, host, link, bhyve, start, stop, mishap>>
    BY <1>1 DEF ReadNic, d
  <2>6. call' \in [Call -> C]
    BY <1>a, <2>4, <2>5
  <2>7. calls' \in 0 .. MaxCalls
    BY <2>5, NicConstants DEF NicTyped
  <2>. QED
    BY <2>5, <2>6, <2>7 DEF NicTyped
<1>2. ASSUME NEW v \in VM, NEW S \in SUBSET Nic, SetNics(o, v, S) PROVE NicTyped'
  <2>1. [pc |-> "remove", vm |-> v, todo |-> NicsOf(v), nics |-> S] \in C
    BY NicsTyped
  <2>2. Calling(o, [pc |-> "remove", vm |-> v, todo |-> NicsOf(v), nics |-> S])
        /\ calls' = calls + 1 /\ calls < MaxCalls
        /\ UNCHANGED <<up, row, host, link, bhyve, start, stop, mishap>>
    BY <1>2 DEF SetNics
  <2>3. call' \in [Call -> C]
    BY <1>a, <2>1, <2>2
  <2>4. calls' \in 0 .. MaxCalls
    BY <2>2, NicConstants DEF NicTyped
  <2>. QED
    BY <2>2, <2>3, <2>4 DEF NicTyped
<1>3. ASSUME NEW c \in call[o].todo, SaveNic(o, c) PROVE NicTyped'
  <2>1. row' \in [Nic -> Row] /\ mishap' \subseteq mishap \cup {"stale", "rewired"}
    BY <1>3, SaveNicSaves
  <2>2. call' \in [Call -> C]
    BY <1>a, <1>0, <1>3 DEF SaveNic
  <2>. QED
    BY <1>3, <2>1, <2>2 DEF SaveNic, NicTyped
<1>4. ASSUME NEW c \in call[o].todo, RemoveNic(o, c) PROVE NicTyped'
  <2>1. row' \in [Nic -> Row] /\ mishap' \subseteq mishap \cup {"stale", "window"}
    BY <1>4, RemoveNicSaves DEF Stale, Window
  <2>2. [call[o] EXCEPT !.todo = @ \ {c}] \in C
    BY <1>0
  <2>3. call' \in [Call -> C]
    BY <1>a, <1>4, <2>2 DEF RemoveNic
  <2>. QED
    BY <1>4, <2>1, <2>3 DEF RemoveNic, NicTyped
<1>5. ASSUME NEW c \in call[o].todo, DeleteNic(o, c) PROVE NicTyped'
  <2>1. c.nic \in Nic /\ row[c.nic] \in Row
    BY DEF NicTyped, Copy
  <2>2. [row[c.nic] EXCEPT !.vm = "removed"] \in Row
    BY <2>1 DEF Row, NotThere
  <2>3. row' = [row EXCEPT ![c.nic] = [row[c.nic] EXCEPT !.vm = "removed"]]
    BY <1>5 DEF DeleteNic
  <2>4. row' \in [Nic -> Row]
    BY <2>2, <2>3 DEF NicTyped
  <2>5. call' \in [Call -> C]
    BY <1>a, <1>0, <1>5 DEF DeleteNic
  <2>. QED
    BY <1>5, <2>4, <2>5 DEF DeleteNic, NicTyped
<1>6. ASSUME NEW c \in call[o].todo, NEW m \in Nic, CreateClone(o, c, m) PROVE NicTyped'
  <2>1. c.row \in Row
    BY DEF NicTyped, Copy
  <2>2. [c.row EXCEPT !.vm = None] \in Row
    BY <2>1 DEF Row
  <2>3. row' \in [Nic -> Row]
    BY <1>6, <2>2 DEF CreateClone, NicTyped
  <2>4. call' \in [Call -> C]
    BY <1>a, <1>0, <1>6 DEF CreateClone
  <2>. QED
    BY <1>6, <2>3, <2>4 DEF CreateClone, NicTyped
<1>7. ASSUME NEW n \in Nic, NEW m \in Nic, CloneNic(o, n, m) PROVE NicTyped'
  <2>1. [call[o] EXCEPT !.pc = "clone", !.todo = {CopyOf(n)}, !.nics = {m}] \in C
    BY <1>0, <1>c
  <2>2. call' \in [Call -> C]
    BY <1>a, <1>7, <2>1 DEF CloneNic
  <2>. QED
    BY <1>7, <2>2 DEF CloneNic, NicTyped
<1>8. CASE ValidateNics(o)
  <2>1. [call[o] EXCEPT !.pc = "attach"] \in C
    BY <1>0
  <2>2. call' \in [Call -> C]
    BY <1>a, <1>0, <1>8, <2>1 DEF ValidateNics
  <2>. QED
    BY <1>8, <2>2 DEF ValidateNics, NicTyped
<1>9. CASE SetNicsReturns(o)
  <2>1. call' \in [Call -> C]
    BY <1>a, <1>0, <1>9 DEF SetNicsReturns
  <2>. QED
    BY <1>9, <2>1 DEF SetNicsReturns, NicTyped
<1>10. ASSUME NEW n \in Nic, AttachNic(o, n) PROVE NicTyped'
  <2>1. row' \in [Nic -> Row] /\ mishap' \subseteq mishap \cup {"window", "stolen"}
    BY <1>10, AttachNicSaves DEF Window
  <2>2. [call[o] EXCEPT !.nics = @ \ {n}] \in C
    BY <1>0
  <2>3. call' \in [Call -> C]
    BY <1>a, <1>10, <2>2 DEF AttachNic
  <2>. QED
    BY <1>10, <2>1, <2>3 DEF AttachNic, NicTyped
<1>11. ASSUME NEW n \in Nic, RemoveVMNic(o, n) PROVE NicTyped'
  <2>1. [call[o] EXCEPT !.pc = "delete", !.todo = {CopyOf(n)}] \in C
    BY <1>0, <1>c
  <2>2. call' \in [Call -> C] /\ calls' = calls + 1 /\ calls < MaxCalls
    BY <1>a, <1>11, <2>1 DEF RemoveVMNic
  <2>3. calls' \in 0 .. MaxCalls
    BY <2>2, NicConstants DEF NicTyped
  <2>. QED
    BY <1>11, <2>2, <2>3 DEF RemoveVMNic, NicTyped
<1>. QED
  BY <1>1, <1>2, <1>3, <1>4, <1>5, <1>6, <1>7, <1>8, <1>9, <1>10, <1>11 DEF CallStep

LEMMA TypedStep ==
  ASSUME NicTyped, [NicNext]_nicVars
  PROVE  NicTyped'
<1>1. CASE UNCHANGED nicVars
  BY <1>1 DEF nicVars, NicTyped
<1>2. CASE NetStart
  BY <1>2, NicsTyped DEF NetStart, NicTyped
<1>3. CASE Launch
  BY <1>3 DEF Launch, StartIdle, NicTyped
<1>4. ASSUME NEW n \in Nic, NEW r \in NewNics, AddVMNic(n, r) PROVE NicTyped'
  <2>1. r \in Row
    BY NicConstants
  <2>2. row' \in [Nic -> Row]
    BY <1>4, <2>1 DEF AddVMNic, NicTyped
  <2>. QED
    BY <1>4, <2>2 DEF AddVMNic, NicTyped
<1>. QED
  BY <1>1, <1>2, <1>3, <1>4, TypedVM, TypedStart, TypedCall DEF NicNext, NicStep, CallStep

-----------------------------------------------------------------------------
\* NicControl is kept, and a step of Start is one for a VM that is up.
LEMMA ControlStart ==
  ASSUME NicTyped, NicControl, NEW c \in start.todo,
         \/ \E t \in Tap : PickDevice(c, t)
         \/ Build(c) \/ BuildFails(c) \/ JoinDevice(c) \/ ConnectFails(c)
         \/ \E e \in Epair, b \in Bridge : JoinLimited(c, e, b)
  PROVE  /\ start.vm \in up /\ start.pc # "idle" /\ start'.pc # "idle" /\ start'.vm = start.vm
         /\ UNCHANGED <<up, bhyve, stop, call>>
         /\ NicControl'
<1>1. start.pc # "idle"
  BY DEF PickDevice, Build, BuildFails, JoinDevice, ConnectFails, JoinLimited
<1>2. start'.pc # "idle" /\ start'.vm = start.vm
  BY <1>1 DEF NicTyped, PickDevice, Build, BuildFails, JoinDevice, ConnectFails, JoinLimited, Connected
<1>3. UNCHANGED <<up, bhyve, stop, call>>
  BY DEF PickDevice, Build, BuildFails, JoinDevice, ConnectFails, JoinLimited, Connected
<1>. QED
  BY <1>1, <1>2, <1>3 DEF NicControl

LEMMA ControlVM ==
  ASSUME NicTyped, NicControl, NEW v \in VM,
         \/ NicStart(v) \/ NicDone(v) \/ NetStop(v)
         \/ \E c \in stop[v].todo : Disconnect(v, c) \/ Demolish(v, c)
  PROVE  NicControl'
<1>1. CASE NicStart(v)
  BY <1>1 DEF NicStart, StartIdle, NicControl, NicTyped
<1>2. CASE NicDone(v)
  BY <1>2 DEF NicDone, NicControl, NicTyped
<1>3. CASE NetStop(v)
  BY <1>3 DEF NetStop, Stopping, StopIdle, NicControl, NicTyped
<1>4. ASSUME NEW c \in stop[v].todo, Disconnect(v, c) PROVE NicControl'
  <2>1. UNCHANGED <<up, bhyve, start, call>> /\ stop' = [stop EXCEPT ![v].pc = "demolish"]
    BY <1>4 DEF Disconnect
  <2>. QED
    BY <2>1 DEF NicControl, NicTyped
<1>5. ASSUME NEW c \in stop[v].todo, Demolish(v, c) PROVE NicControl'
  BY <1>5 DEF Demolish, Stopping, StopIdle, NicControl, NicTyped
<1>. QED
  BY <1>1, <1>2, <1>3, <1>4, <1>5

\* No RPC touches a device or the state of a VM.
LEMMA CallFrame ==
  ASSUME NEW o \in Call, CallStep(o)
  PROVE  UNCHANGED <<up, host, link, bhyve, start, stop>>
  BY DEF CallStep, ReadNic, SetNics, SaveNic, RemoveNic, DeleteNic, CreateClone, CloneNic,
         ValidateNics, SetNicsReturns, AttachNic, RemoveVMNic

LEMMA ControlCall ==
  ASSUME NicTyped, NicControl, NEW o \in Call, CallStep(o)
  PROVE  NicControl'
<1>. DEFINE Fit(x) == IF x.pc \in {"remove", "attach"} THEN x.vm \in VM \ up ELSE x.vm = None
<1>0. call \in [Call -> [pc : {"idle", "update", "remove", "attach", "clone", "delete"},
                         vm : VM \cup {None}, todo : SUBSET Copy, nics : SUBSET Nic]]
      /\ \A p \in Call : Fit(call[p])
  BY DEF NicTyped, NicControl
<1>a. call[o].pc \notin {"remove", "attach"} =>
        \A pc \in {"update", "clone", "delete"} : \A T, S :
          /\ Fit([call[o] EXCEPT !.pc = pc, !.todo = T])
          /\ Fit([call[o] EXCEPT !.pc = pc, !.todo = T, !.nics = S])
  BY <1>0
<1>b. call[o].pc = "attach" => \A S : Fit([call[o] EXCEPT !.nics = S])
  BY <1>0
<1>1. \E x : Calling(o, x) /\ Fit(x)
  <2>. USE <1>0
  <2>1. ASSUME NEW n \in Nic, NEW on \in BOOLEAN, NEW limited \in BOOLEAN, ReadNic(o, n, on, limited)
        PROVE  \E x : Calling(o, x) /\ Fit(x)
    <3>1. PICK T : Calling(o, [call[o] EXCEPT !.pc = "update", !.todo = T])
      BY <2>1 DEF ReadNic
    <3>. QED
      BY <1>a, <2>1, <3>1 DEF ReadNic
  <2>2. ASSUME NEW v \in VM, NEW S \in SUBSET Nic, SetNics(o, v, S)
        PROVE  \E x : Calling(o, x) /\ Fit(x)
    BY <2>2 DEF SetNics
  <2>3. ASSUME NEW c \in call[o].todo, SaveNic(o, c) \/ RemoveNic(o, c) \/ DeleteNic(o, c)
        PROVE  \E x : Calling(o, x) /\ Fit(x)
    BY <2>3 DEF SaveNic, RemoveNic, DeleteNic, CallIdle
  <2>4. ASSUME NEW c \in call[o].todo, NEW m \in Nic, CreateClone(o, c, m)
        PROVE  \E x : Calling(o, x) /\ Fit(x)
    BY <2>4 DEF CreateClone, CallIdle
  <2>5. ASSUME NEW n \in Nic, NEW m \in Nic, CloneNic(o, n, m)
        PROVE  \E x : Calling(o, x) /\ Fit(x)
    <3>1. Fit([call[o] EXCEPT !.pc = "clone", !.todo = {CopyOf(n)}, !.nics = {m}])
      BY <1>a, <2>5 DEF CloneNic
    <3>2. Calling(o, [call[o] EXCEPT !.pc = "clone", !.todo = {CopyOf(n)}, !.nics = {m}])
      BY <2>5 DEF CloneNic
    <3>. QED
      BY <3>1, <3>2
  <2>6. ASSUME ValidateNics(o) \/ SetNicsReturns(o)
        PROVE  \E x : Calling(o, x) /\ Fit(x)
    BY <2>6 DEF ValidateNics, SetNicsReturns, CallIdle
  <2>7. ASSUME NEW n \in Nic, AttachNic(o, n) \/ RemoveVMNic(o, n)
        PROVE  \E x : Calling(o, x) /\ Fit(x)
    BY <1>a, <1>b, <2>7 DEF AttachNic, RemoveVMNic
  <2>. QED
    BY <2>1, <2>2, <2>3, <2>4, <2>5, <2>6, <2>7 DEF CallStep
<1>2. \A p \in Call : Fit(call'[p])
  BY <1>0, <1>1 DEF Calling
<1>. QED
  BY <1>2, CallFrame DEF NicControl

LEMMA ControlStep ==
  ASSUME NicTyped, NicControl, [NicNext]_nicVars
  PROVE  NicControl'
<1>1. CASE UNCHANGED nicVars
  BY <1>1 DEF nicVars, NicControl
<1>2. CASE NetStart
  BY <1>2 DEF NetStart, NicControl, NicTyped
<1>3. CASE Launch
  BY <1>3 DEF Launch, StartIdle, NicControl, NicTyped
<1>4. ASSUME NEW n \in Nic, NEW r \in NewNics, AddVMNic(n, r) PROVE NicControl'
  BY <1>4 DEF AddVMNic, NicControl
<1>. QED
  BY <1>1, <1>2, <1>3, <1>4, ControlVM, ControlStart, ControlCall DEF NicNext, NicStep, CallStep

\* CopiesAsRead is kept.
LEMMA NicsAsRead ==
  ASSUME NicTyped, NEW v
  PROVE  AsRead(NicsOf(v), v)
<1>1. \A n \in Nic : CopyOf(n).row = row[n] /\ CopyOf(n).seen = row[n] /\ CopyOf(n).nic = n
  BY DEF CopyOf
<1>. QED
  BY <1>1 DEF AsRead, NicsOf

LEMMA CopiesStart ==
  ASSUME NicTyped, NicControl, CopiesAsRead, NEW c \in start.todo,
         \/ \E t \in Tap : PickDevice(c, t)
         \/ Build(c) \/ BuildFails(c) \/ JoinDevice(c) \/ ConnectFails(c)
         \/ \E e \in Epair, b \in Bridge : JoinLimited(c, e, b)
  PROVE  CopiesAsRead'
<1>1. start'.vm = start.vm /\ UNCHANGED <<stop, call>>
  BY ControlStart
<1>2. start'.todo \subseteq start.todo
  <2>1. \A t : PickDevice(c, t) => start'.todo = start.todo \ {c}
    BY DEF NicTyped, PickDevice
  <2>2. Build(c) \/ BuildFails(c) => start'.todo \in {start.todo, start.todo \ {c}}
    BY DEF NicTyped, Build, BuildFails
  <2>3. Connected(c) => start'.todo = start.todo \ {c}
    BY DEF NicTyped, Connected
  <2>. QED
    BY <2>1, <2>2, <2>3 DEF JoinDevice, ConnectFails, JoinLimited
<1>3. AsRead(start.todo, start.vm)'
  BY <1>1, <1>2 DEF CopiesAsRead, AsRead
<1>. QED
  BY <1>1, <1>3 DEF CopiesAsRead

LEMMA CopiesVM ==
  ASSUME NicTyped, CopiesAsRead, NEW v \in VM,
         \/ NicStart(v) \/ NicDone(v) \/ NetStop(v)
         \/ \E c \in stop[v].todo : Disconnect(v, c) \/ Demolish(v, c)
  PROVE  CopiesAsRead'
<1>1. UNCHANGED call
  BY DEF NicStart, NicDone, NetStop, Disconnect, Demolish
<1>2. AsRead(start.todo, start.vm)'
  <2>1. CASE NicStart(v)
    <3>1. start'.vm = v /\ start'.todo = NicsOf(v)
      BY <2>1 DEF NicStart, StartIdle
    <3>. QED
      BY <3>1, NicsAsRead DEF AsRead
  <2>2. CASE UNCHANGED start
    BY <2>2 DEF CopiesAsRead
  <2>. QED
    BY <2>1, <2>2 DEF NicDone, NetStop, Disconnect, Demolish
<1>3. ASSUME NEW u \in VM PROVE AsRead(stop[u].todo, u)'
  <2>1. AsRead(stop[u].todo, u)
    BY DEF CopiesAsRead
  <2>2. CASE NetStop(v) /\ u = v
    <3>1. stop'[u].todo \subseteq NicsOf(u)
      BY <2>2 DEF NetStop, Stopping, StopIdle, NicTyped
    <3>. QED
      BY <3>1, NicsAsRead DEF AsRead
  <2>3. CASE stop'[u].todo \subseteq stop[u].todo
    BY <2>1, <2>3 DEF AsRead
  <2>4. NetStop(v) /\ u # v => stop'[u] = stop[u]
    BY DEF NetStop, Stopping, NicTyped
  <2>5. NicStart(v) \/ NicDone(v) \/ (\E c \in stop[v].todo : Disconnect(v, c) \/ Demolish(v, c))
          => stop'[u].todo \subseteq stop[u].todo
    <3>1. NicStart(v) \/ NicDone(v) => stop'[u].todo = stop[u].todo
      BY DEF NicStart, NicDone, NicTyped
    <3>2. ASSUME NEW c \in stop[v].todo, Disconnect(v, c) PROVE stop'[u].todo = stop[u].todo
      BY <3>2 DEF Disconnect, NicTyped
    <3>3. ASSUME NEW c \in stop[v].todo, Demolish(v, c) PROVE stop'[u].todo \subseteq stop[u].todo
      BY <3>3 DEF Demolish, Stopping, StopIdle, NicTyped
    <3>. QED
      BY <3>1, <3>2, <3>3
  <2>. QED
    BY <2>2, <2>3, <2>4, <2>5
<1>. QED
  BY <1>1, <1>2, <1>3 DEF CopiesAsRead

\* What an RPC wrote into its copy of a row before it will save it.
FitsCall(x) ==
  \A c \in x.todo :
    /\ x.pc = "update" => c.row = [c.seen EXCEPT !.on = c.row.on, !.limited = c.row.limited]
    /\ x.pc = "remove" => c.row = c.seen /\ c.seen.vm = x.vm
    /\ x.pc = "clone" => c.row = c.seen

LEMMA CopiesCall ==
  ASSUME NicTyped, CopiesAsRead, NEW o \in Call, CallStep(o)
  PROVE  CopiesAsRead'
<1>0. call \in [Call -> [pc : {"idle", "update", "remove", "attach", "clone", "delete"},
                         vm : VM \cup {None}, todo : SUBSET Copy, nics : SUBSET Nic]]
      /\ \A p \in Call : FitsCall(call[p])
  BY DEF NicTyped, CopiesAsRead, FitsCall
<1>a. \A n \in Nic : /\ CopyOf(n) \in Copy /\ CopyOf(n).row = row[n] /\ CopyOf(n).seen = row[n]
                     /\ row[n] \in Row
  BY DEF NicTyped, CopyOf, Copy
<1>b. FitsCall(CallIdle)
  BY DEF FitsCall, CallIdle
<1>1. \E x : Calling(o, x) /\ FitsCall(x)
  <2>1. ASSUME NEW n \in Nic, NEW on \in BOOLEAN, NEW limited \in BOOLEAN, ReadNic(o, n, on, limited)
        PROVE  \E x : Calling(o, x) /\ FitsCall(x)
    <3>. DEFINE d == [CopyOf(n) EXCEPT !.row.on = on, !.row.limited = limited]
                x == [call[o] EXCEPT !.pc = "update", !.todo = {d}]
    <3>1. d.row = [row[n] EXCEPT !.on = on, !.limited = limited] /\ d.seen = row[n]
      BY <1>a DEF Copy, CopyOf
    <3>2. d.row = [d.seen EXCEPT !.on = d.row.on, !.limited = d.row.limited]
      <4>1. \A r \in Row : LET s == [r EXCEPT !.on = on, !.limited = limited]
                           IN  s.on = on /\ s.limited = limited
        BY DEF Row
      <4>2. d.row.on = on /\ d.row.limited = limited
        BY <1>a, <3>1, <4>1
      <4>. QED
        BY <3>1, <4>2
    <3>. HIDE DEF d
    <3>3. x.todo = {d} /\ x.pc = "update"
      BY <1>0
    <3>4. FitsCall(x)
      BY <3>2, <3>3 DEF FitsCall
    <3>5. Calling(o, x)
      BY <2>1 DEF ReadNic, d
    <3>. QED
      BY <3>4, <3>5
  <2>2. ASSUME NEW v \in VM, NEW S \in SUBSET Nic, SetNics(o, v, S)
        PROVE  \E x : Calling(o, x) /\ FitsCall(x)
    <3>1. FitsCall([pc |-> "remove", vm |-> v, todo |-> NicsOf(v), nics |-> S])
      BY NicsAsRead DEF FitsCall, AsRead
    <3>. QED
      BY <2>2, <3>1 DEF SetNics
  <2>3. ASSUME NEW c \in call[o].todo, SaveNic(o, c) \/ DeleteNic(o, c)
        PROVE  \E x : Calling(o, x) /\ FitsCall(x)
    BY <1>b, <2>3 DEF SaveNic, DeleteNic
  <2>4. ASSUME NEW c \in call[o].todo, RemoveNic(o, c)
        PROVE  \E x : Calling(o, x) /\ FitsCall(x)
    <3>. DEFINE x == [call[o] EXCEPT !.todo = @ \ {c}]
    <3>1. x.pc = call[o].pc /\ x.vm = call[o].vm /\ x.todo \subseteq call[o].todo
      BY <1>0
    <3>2. Calling(o, x)
      BY <2>4 DEF RemoveNic
    <3>. HIDE DEF x
    <3>3. FitsCall(x)
      BY <1>0, <3>1 DEF FitsCall
    <3>. QED
      BY <3>2, <3>3
  <2>5. ASSUME NEW c \in call[o].todo, NEW m \in Nic, CreateClone(o, c, m)
        PROVE  \E x : Calling(o, x) /\ FitsCall(x)
    BY <1>b, <2>5 DEF CreateClone
  <2>6. ASSUME NEW n \in Nic, NEW m \in Nic, CloneNic(o, n, m)
        PROVE  \E x : Calling(o, x) /\ FitsCall(x)
    <3>. DEFINE x == [call[o] EXCEPT !.pc = "clone", !.todo = {CopyOf(n)}, !.nics = {m}]
    <3>1. x.pc = "clone" /\ x.todo = {CopyOf(n)}
      BY <1>0
    <3>2. Calling(o, x)
      BY <2>6 DEF CloneNic
    <3>. HIDE DEF x
    <3>3. FitsCall(x)
      BY <1>a, <3>1 DEF FitsCall
    <3>. QED
      BY <3>2, <3>3
  <2>7. CASE ValidateNics(o)
    <3>1. FitsCall([call[o] EXCEPT !.pc = "attach"])
      <4>1. [call[o] EXCEPT !.pc = "attach"].pc = "attach"
        BY <1>0
      <4>. QED
        BY <4>1 DEF FitsCall
    <3>. QED
      BY <1>b, <2>7, <3>1 DEF ValidateNics
  <2>8. CASE SetNicsReturns(o)
    BY <1>b, <2>8 DEF SetNicsReturns
  <2>9. ASSUME NEW n \in Nic, AttachNic(o, n)
        PROVE  \E x : Calling(o, x) /\ FitsCall(x)
    <3>1. FitsCall([call[o] EXCEPT !.nics = @ \ {n}])
      BY <1>0 DEF FitsCall
    <3>. QED
      BY <2>9, <3>1 DEF AttachNic
  <2>10. ASSUME NEW n \in Nic, RemoveVMNic(o, n)
        PROVE  \E x : Calling(o, x) /\ FitsCall(x)
    <3>. DEFINE x == [call[o] EXCEPT !.pc = "delete", !.todo = {CopyOf(n)}]
    <3>1. x.pc = "delete"
      BY <1>0
    <3>2. Calling(o, x)
      BY <2>10 DEF RemoveVMNic
    <3>. HIDE DEF x
    <3>3. FitsCall(x)
      BY <3>1 DEF FitsCall
    <3>. QED
      BY <3>2, <3>3
  <2>. QED
    BY <2>1, <2>2, <2>3, <2>4, <2>5, <2>6, <2>7, <2>8, <2>9, <2>10 DEF CallStep
<1>2. \A p \in Call : FitsCall(call'[p])
  BY <1>0, <1>1 DEF Calling
<1>. QED
  BY <1>2, CallFrame DEF CopiesAsRead, FitsCall

LEMMA CopiesStep ==
  ASSUME NicTyped, NicControl, CopiesAsRead, [NicNext]_nicVars
  PROVE  CopiesAsRead'
<1>1. CASE UNCHANGED nicVars
  BY <1>1 DEF nicVars, CopiesAsRead
<1>2. CASE NetStart
  <2>1. start'.vm = start.vm /\ start'.todo = NicsOf(start.vm) /\ UNCHANGED <<stop, call>>
    BY <1>2 DEF NetStart, NicTyped
  <2>2. AsRead(start.todo, start.vm)'
    BY <2>1, NicsAsRead DEF AsRead
  <2>. QED
    BY <2>1, <2>2 DEF CopiesAsRead
<1>3. CASE Launch
  <2>1. start'.todo = {} /\ UNCHANGED <<stop, call>>
    BY <1>3 DEF Launch, StartIdle
  <2>2. AsRead(start.todo, start.vm)'
    BY <2>1 DEF AsRead
  <2>. QED
    BY <2>1, <2>2 DEF CopiesAsRead
<1>4. ASSUME NEW n \in Nic, NEW r \in NewNics, AddVMNic(n, r) PROVE CopiesAsRead'
  BY <1>4 DEF AddVMNic, CopiesAsRead
<1>. QED
  BY <1>1, <1>2, <1>3, <1>4, CopiesVM, CopiesStart, CopiesCall DEF NicNext, NicStep, CallStep

-----------------------------------------------------------------------------
\* A mishap is not forgotten.
LEMMA MishapGrows ==
  ASSUME NicTyped, [NicNext]_nicVars
  PROVE  mishap \subseteq mishap'
<1>1. CASE UNCHANGED nicVars
  BY <1>1 DEF nicVars
<1>2. ASSUME NEW v \in VM, NicStart(v) \/ NicDone(v) \/ NetStop(v) PROVE mishap \subseteq mishap'
  BY <1>2 DEF NicStart, NicDone, NetStop
<1>3. ASSUME NEW v \in VM, NEW c \in stop[v].todo, Disconnect(v, c) \/ Demolish(v, c)
      PROVE  mishap \subseteq mishap'
  BY <1>3, DisconnectSaves DEF Demolish, NicTyped
<1>4. ASSUME NEW c \in start.todo,
             \/ \E t \in Tap : PickDevice(c, t)
             \/ Build(c) \/ BuildFails(c) \/ JoinDevice(c) \/ ConnectFails(c)
             \/ \E e \in Epair, b \in Bridge : JoinLimited(c, e, b)
      PROVE  mishap \subseteq mishap'
  <2>1. c \in Copy
    BY DEF NicTyped
  <2>. QED
    BY <1>4, <2>1, PickDeviceSaves, ConnectFailsSaves, JoinLimitedSaves DEF Build, BuildFails, JoinDevice
<1>5. CASE NetStart \/ Launch
  BY <1>5 DEF NetStart, Launch
<1>6. ASSUME NEW o \in Call, CallStep(o) PROVE mishap \subseteq mishap'
  <2>1. ASSUME NEW c \in call[o].todo, SaveNic(o, c) \/ RemoveNic(o, c) \/ DeleteNic(o, c)
        PROVE  mishap \subseteq mishap'
    BY <2>1, SaveNicSaves, RemoveNicSaves DEF DeleteNic
  <2>2. ASSUME NEW n \in Nic, AttachNic(o, n) PROVE mishap \subseteq mishap'
    BY <2>2, AttachNicSaves
  <2>. QED
    BY <1>6, <2>1, <2>2 DEF CallStep, ReadNic, SetNics, CreateClone, CloneNic, ValidateNics,
                            SetNicsReturns, RemoveVMNic
<1>7. ASSUME NEW n \in Nic, NEW r \in NewNics, AddVMNic(n, r) PROVE mishap \subseteq mishap'
  BY <1>7 DEF AddVMNic
<1>. QED
  BY <1>1, <1>2, <1>3, <1>4, <1>5, <1>6, <1>7 DEF NicNext, NicStep, CallStep

\* What the calls leave alone while the rows and the devices have not parted: the owners
\* and the devices in the rows of VMs that are up, and before anything at all has been
\* restarted, every column of the rows of VMs that are up or about to be cleaned up.
OwnersKept ==
  \A n \in Nic : row[n].vm \in up \/ row'[n].vm \in up =>
    row'[n].vm = row[n].vm /\ row'[n].dev = row[n].dev
PlumbedKept ==
  \A n \in Nic : Plumbed(row[n].vm) \/ Plumbed(row'[n].vm) => row'[n] = row[n]

\* Runs end where rows and devices part.
LEMMA NotParted ==
  ASSUME ~Parted
  PROVE  Current
  BY DEF Parted, Current

\* A row without a VM is not the row of a VM that is up or to be cleaned up.
LEMMA NobodyIsUp ==
  ASSUME NicTyped
  PROVE  /\ ~Plumbed(None) /\ None \notin up
         /\ \A v \in NotThere : ~Plumbed(v) /\ v \notin up
  BY NicConstants DEF NicTyped, Plumbed

\* What RPCs leave alone.
LEMMA CallsKeep ==
  ASSUME NicTyped, NicControl, CopiesAsRead, NEW o \in Call, CallStep(o),
         mishap' \cap {"stale", "rewired", "stolen", "window"} = {}
  PROVE  OwnersKept /\ PlumbedKept
<1>0. row \in [Nic -> Row]
  BY DEF NicTyped
<1>1. CASE UNCHANGED row
  BY <1>1 DEF OwnersKept, PlumbedKept
<1>2. ASSUME NEW m \in Nic, NEW r \in Row, row' \in {row, [row EXCEPT ![m] = r]},
             ~Plumbed(row[m].vm), ~Plumbed(r.vm)
      PROVE  OwnersKept /\ PlumbedKept
  BY <1>0, <1>2 DEF OwnersKept, PlumbedKept, Plumbed
<1>3. ASSUME NEW c \in call[o].todo, SaveNic(o, c) PROVE OwnersKept /\ PlumbedKept
  <2>1. c \in Copy /\ c.nic \in Nic /\ row[c.nic] = c.seen /\ c.row \in Row /\ c.seen \in Row
        /\ row' \in {row, [row EXCEPT ![c.nic] = c.row]}
        /\ (Plumbed(row[c.nic].vm) => c.row.on = row[c.nic].on /\ c.row.limited = row[c.nic].limited)
    <3>1. c \in Copy
      BY <1>3, SaveNicSaves
    <3>2. c.nic \in Nic /\ c.row \in Row /\ c.seen \in Row
      BY <3>1 DEF Copy
    <3>3. row' \in {row, [row EXCEPT ![c.nic] = c.row]}
      BY <1>0, <1>3, SaveNicSaves
    <3>. QED
      BY <1>3, <3>1, <3>2, <3>3, SaveNicSaves
  <2>2. c.row = [c.seen EXCEPT !.on = c.row.on, !.limited = c.row.limited]
    BY <1>3 DEF SaveNic, CopiesAsRead
  <2>. DEFINE on == c.row.on
              limited == c.row.limited
  <2>a. c.row = [c.seen EXCEPT !.on = on, !.limited = limited]
    BY <2>2
  <2>. HIDE DEF on, limited
  <2>c. /\ [c.seen EXCEPT !.on = on, !.limited = limited].vm = c.seen.vm
        /\ [c.seen EXCEPT !.on = on, !.limited = limited].dev = c.seen.dev
    BY <2>1, SMTT(30) DEF Row
  <2>3. c.row.vm = c.seen.vm /\ c.row.dev = c.seen.dev
    BY <2>a, <2>c
  <2>4. ASSUME Plumbed(row[c.nic].vm) PROVE c.row = c.seen
    <3>1. on = c.seen.on /\ limited = c.seen.limited
      BY <2>1, <2>4 DEF on, limited
    <3>2. [c.seen EXCEPT !.on = on, !.limited = limited] = c.seen
      BY <2>1, <3>1 DEF Row
    <3>. QED
      BY <2>a, <3>2
  <2>. QED
    BY <1>0, <2>1, <2>3, <2>4 DEF OwnersKept, PlumbedKept, Plumbed
<1>4. ASSUME NEW c \in call[o].todo, RemoveNic(o, c) PROVE OwnersKept /\ PlumbedKept
  <2>1. call[o].vm \in VM \ up /\ c.seen.vm = call[o].vm
    BY <1>4 DEF RemoveNic, NicControl, CopiesAsRead
  <2>2. c \in Copy /\ row[c.nic] = c.seen /\ "window" \notin Window(call[o].vm)
        /\ row' = [row EXCEPT ![c.nic] = IF IsNic(c.nic) THEN [c.row EXCEPT !.vm = None] ELSE @]
    BY <1>4, RemoveNicSaves
  <2>3. c.nic \in Nic /\ c.row \in Row
    BY <2>2 DEF Copy
  <2>. DEFINE r == [c.row EXCEPT !.vm = None]
  <2>4. r \in Row /\ r.vm = None
    BY <2>3 DEF Row
  <2>5. row' \in {row, [row EXCEPT ![c.nic] = r]}
    BY <1>0, <2>2
  <2>. HIDE DEF r
  <2>6. ~Plumbed(row[c.nic].vm)
    <3>1. stop[call[o].vm].pc # "list" /\ row[c.nic].vm = call[o].vm
      BY <2>1, <2>2 DEF Window
    <3>. QED
      BY <2>1, <3>1 DEF Plumbed
  <2>. QED
    BY <1>2, <2>3, <2>4, <2>5, <2>6, NobodyIsUp
<1>5. ASSUME NEW c \in call[o].todo, DeleteNic(o, c) PROVE OwnersKept /\ PlumbedKept
  <2>1. c.nic \in Nic /\ row[c.nic] \in Row
    BY DEF NicTyped, Copy
  <2>2. row[c.nic].vm \notin VM
    BY <1>5 DEF DeleteNic
  <2>3. [row[c.nic] EXCEPT !.vm = "removed"] \in Row /\ [row[c.nic] EXCEPT !.vm = "removed"].vm = "removed"
    BY <2>1 DEF Row, NotThere
  <2>4. row' = [row EXCEPT ![c.nic] = [row[c.nic] EXCEPT !.vm = "removed"]]
    BY <1>5 DEF DeleteNic
  <2>5. ~Plumbed(row[c.nic].vm) /\ ~Plumbed("removed")
    BY <2>2, NobodyIsUp DEF Plumbed, NotThere, NicTyped
  <2>. QED
    BY <1>2, <2>1, <2>3, <2>4, <2>5
<1>6. ASSUME NEW c \in call[o].todo, NEW m \in Nic, CreateClone(o, c, m)
      PROVE  OwnersKept /\ PlumbedKept
  <2>1. c.row \in Row
    BY DEF NicTyped, Copy
  <2>2. [c.row EXCEPT !.vm = None] \in Row /\ [c.row EXCEPT !.vm = None].vm = None
    BY <2>1 DEF Row
  <2>3. row' \in {row, [row EXCEPT ![m] = [c.row EXCEPT !.vm = None]]}
        /\ (IsNic(m) => row' = row)
    BY <1>0, <1>6 DEF CreateClone
  <2>4. ~IsNic(m) => ~Plumbed(row[m].vm)
    BY NobodyIsUp DEF IsNic
  <2>. QED
    BY <1>1, <1>2, <2>2, <2>3, <2>4, NobodyIsUp
<1>7. ASSUME NEW n \in Nic, AttachNic(o, n) PROVE OwnersKept /\ PlumbedKept
  <2>1. call[o].vm \in VM \ up
    BY <1>7 DEF AttachNic, NicControl
  <2>2. "window" \notin Window(call[o].vm) /\ row[n].vm \in {None, call[o].vm}
        /\ row' = [row EXCEPT ![n] = [row[n] EXCEPT !.vm = call[o].vm]] /\ row' \in [Nic -> Row]
    BY <1>7, AttachNicSaves
  <2>3. ~Plumbed(call[o].vm)
    BY <2>1, <2>2 DEF Plumbed, Window
  <2>4. row[n] \in Row
    BY <1>0
  <2>5. [row[n] EXCEPT !.vm = call[o].vm] \in Row
        /\ [row[n] EXCEPT !.vm = call[o].vm].vm = call[o].vm
    BY <2>1, <2>4 DEF Row
  <2>. QED
    BY <1>2, <2>2, <2>3, <2>5, NobodyIsUp
<1>. QED
  BY <1>1, <1>3, <1>4, <1>5, <1>6, <1>7
     DEF CallStep, ReadNic, SetNics, CloneNic, ValidateNics, SetNicsReturns, RemoveVMNic

\* A new row has no VM.
LEMMA AddKeeps ==
  ASSUME NicTyped, NEW n \in Nic, NEW r \in NewNics, AddVMNic(n, r)
  PROVE  OwnersKept /\ PlumbedKept
<1>1. r.vm = None /\ row[n].vm = "not yet" /\ row' = [row EXCEPT ![n] = r] /\ row \in [Nic -> Row]
  BY NicConstants DEF AddVMNic, NicTyped
<1>2. ~Plumbed(row[n].vm) /\ ~Plumbed(r.vm)
  BY <1>1, NobodyIsUp DEF NotThere
<1>. QED
  BY <1>1, <1>2 DEF OwnersKept, PlumbedKept, Plumbed

\* Nor does NetStop, which writes rows of a VM that is not up, and nothing but the names
\* of an epair and a bridge.
LEMMA DisconnectKeeps ==
  ASSUME NicTyped, CopiesAsRead, NEW v \in VM, NEW c \in stop[v].todo, Disconnect(v, c),
         "stale" \notin mishap'
  PROVE  /\ \A n \in Nic : row'[n].vm = row[n].vm /\ row'[n].dev = row[n].dev
         /\ v \notin up => PlumbedKept
<1>1. c \in Copy /\ c.row = c.seen /\ c.seen.vm = v
  BY DEF NicTyped, CopiesAsRead, AsRead
<1>2. c.row \in Row /\ c.nic \in Nic
  BY <1>1 DEF Copy
<1>3. [c.row EXCEPT !.epair = None, !.bridge = None].vm = c.row.vm
      /\ [c.row EXCEPT !.epair = None, !.bridge = None].dev = c.row.dev
  BY <1>2 DEF Row
<1>4. /\ \A n \in Nic : n # c.nic => row'[n] = row[n]
      /\ row'[c.nic] = row[c.nic] \/ (row'[c.nic] = [c.row EXCEPT !.epair = None, !.bridge = None]
                                      /\ row[c.nic] = c.seen)
  BY <1>1, DisconnectSaves
<1>5. stop[v].pc = "leave"
  BY DEF Disconnect
<1>. QED
  BY <1>1, <1>2, <1>3, <1>4, <1>5 DEF PlumbedKept, Plumbed

-----------------------------------------------------------------------------
\* An argument belongs to a VM that is up, to the one that is started or a running one.
LEMMA ArgsFacts ==
  ASSUME NicTyped, NicControl, NEW v \in VM, NEW a \in ArgsOf(v)
  PROVE  /\ a \in Nic \X Tap /\ a[1] \in Nic /\ a[2] \in Tap /\ a = <<a[1], a[2]>>
         /\ v \in up
         /\ IF start.vm = v THEN a \in start.args ELSE a \in bhyve[v]
<1>1. a \in Nic \X Tap
  BY DEF ArgsOf, NicTyped
<1>2. v \in up /\ IF start.vm = v THEN a \in start.args ELSE a \in bhyve[v]
  <2>1. start = StartIdle \/ (start.vm \in up /\ bhyve[start.vm] = {})
    BY DEF NicControl
  <2>2. bhyve[v] # {} => v \in up
    BY DEF NicControl
  <2>. QED
    BY <2>1, <2>2, NicConstants DEF ArgsOf, StartIdle
<1>. QED
  BY <1>1, <1>2

\* DevicesNamed is kept, first by steps that change neither Start nor bhyve.
LEMMA NamedKept ==
  ASSUME NicTyped, NicControl, DevicesNamed, UNCHANGED <<bhyve, start>>, OwnersKept
  PROVE  DevicesNamed'
<1>1. \A v : ArgsOf(v)' = ArgsOf(v)
  BY DEF ArgsOf
<1>2. ASSUME NEW v \in VM, NEW a \in ArgsOf(v) PROVE row'[a[1]].vm = v /\ row'[a[1]].dev = a[2]
  BY <1>2, ArgsFacts DEF DevicesNamed, OwnersKept
<1>. QED
  BY <1>1, <1>2 DEF DevicesNamed

LEMMA NamedVM ==
  ASSUME NicTyped, NicControl, CopiesAsRead, DevicesNamed, "stale" \notin mishap', NEW v \in VM,
         \/ NicStart(v) \/ NicDone(v) \/ NetStop(v)
         \/ \E c \in stop[v].todo : Disconnect(v, c) \/ Demolish(v, c)
  PROVE  DevicesNamed'
<1>1. CASE NicStart(v)
  <2>1. start = StartIdle /\ UNCHANGED <<row, bhyve>> /\ bhyve[v] = {}
        /\ start' = [StartIdle EXCEPT !.vm = v, !.pc = "args", !.todo = NicsOf(v)]
    BY <1>1 DEF NicStart, NicControl
  <2>2. start.args = {} /\ start'.args = {}
    BY <2>1 DEF StartIdle
  <2>3. \A u : ArgsOf(u)' = ArgsOf(u)
    BY <2>1, <2>2 DEF ArgsOf
  <2>. QED
    BY <2>1, <2>2, <2>3 DEF DevicesNamed
<1>2. CASE NicDone(v)
  <2>1. UNCHANGED <<row, start>> /\ \A u \in VM : bhyve'[u] \subseteq bhyve[u]
    BY <1>2 DEF NicDone, NicTyped
  <2>2. \A u \in VM : ArgsOf(u)' \subseteq ArgsOf(u)
    BY <2>1 DEF ArgsOf
  <2>. QED
    BY <2>1, <2>2 DEF DevicesNamed
<1>3. CASE NetStop(v)
  BY <1>3, NamedKept DEF NetStop, OwnersKept
<1>4. ASSUME NEW c \in stop[v].todo, Disconnect(v, c) PROVE DevicesNamed'
  BY <1>4, DisconnectKeeps, NamedKept DEF Disconnect, OwnersKept
<1>5. ASSUME NEW c \in stop[v].todo, Demolish(v, c) PROVE DevicesNamed'
  BY <1>5, NamedKept DEF Demolish, OwnersKept
<1>. QED
  BY <1>1, <1>2, <1>3, <1>4, <1>5

\* getTapDev finds a device no argument of a running VM has: it is not in the rows.
LEMMA NamedPick ==
  ASSUME NicTyped, NicControl, CopiesAsRead, DevicesNamed, "stale" \notin mishap',
         NEW c \in start.todo, NEW t \in Tap, PickDevice(c, t)
  PROVE  /\ start'.args = start.args \cup {<<c.nic, t>>} /\ start'.todo = start.todo \ {c}
         /\ row[c.nic] = c.row /\ c.row = c.seen /\ c.row.vm = start.vm
         /\ row' = [row EXCEPT ![c.nic] = [c.row EXCEPT !.dev = t]]
         /\ row'[c.nic].vm = start.vm /\ row'[c.nic].dev = t
         /\ \A v \in VM : \A a \in ArgsOf(v) : a[1] # c.nic /\ a[2] # t
         /\ \A v \in VM : ArgsOf(v)' = ArgsOf(v) \cup IF v = start.vm THEN {<<c.nic, t>>} ELSE {}
         /\ DevicesNamed'
<1>1. c \in Copy /\ start.pc = "args" /\ start.vm \in up /\ start.vm \in VM
  BY DEF PickDevice, NicTyped, NicControl
<1>2. c.nic \in Nic /\ c.row \in Row /\ row \in [Nic -> Row]
  BY <1>1 DEF Copy, NicTyped
<1>3. row[c.nic] = c.row /\ c.row = c.seen /\ c.row.vm = start.vm
  <2>1. c.row = c.seen /\ c.seen.vm = start.vm
    BY DEF CopiesAsRead, AsRead
  <2>2. row[c.nic] = c.seen
    BY <1>1, PickDeviceSaves
  <2>. QED
    BY <2>1, <2>2
<1>4. row' = [row EXCEPT ![c.nic] = [c.row EXCEPT !.dev = t]]
  BY <1>1, <1>3, PickDeviceSaves, NicConstants DEF IsNic
<1>5. start'.args = start.args \cup {<<c.nic, t>>} /\ start'.todo = start.todo \ {c}
      /\ start'.vm = start.vm /\ start'.pc = "args" /\ UNCHANGED bhyve
  BY <1>1 DEF PickDevice, NicTyped
<1>6. row'[c.nic].vm = start.vm /\ row'[c.nic].dev = t
  BY <1>2, <1>3, <1>4 DEF Row
<1>7. ASSUME NEW v \in VM, NEW a \in ArgsOf(v) PROVE a[1] # c.nic /\ a[2] # t
  <2>1. a[1] \in Nic /\ v \in up /\ (v = start.vm => a \in start.args)
        /\ row[a[1]].vm = v /\ row[a[1]].dev = a[2]
    BY <1>7, ArgsFacts DEF DevicesNamed
  <2>2. a[2] \in UsedPorts
    BY <2>1 DEF UsedPorts
  <2>3. t \notin UsedPorts
    BY DEF PickDevice, IsFree
  <2>. QED
    BY <1>1, <1>3, <2>1, <2>2, <2>3 DEF DevicesNamed
<1>8. ASSUME NEW v \in VM PROVE ArgsOf(v)' = ArgsOf(v) \cup IF v = start.vm THEN {<<c.nic, t>>} ELSE {}
  BY <1>5 DEF ArgsOf
<1>9. ASSUME NEW v \in VM, NEW a \in ArgsOf(v)' PROVE row'[a[1]].vm = v /\ row'[a[1]].dev = a[2]
  <2>1. CASE a \in ArgsOf(v)
    BY <1>2, <1>4, <1>7, <2>1, ArgsFacts DEF DevicesNamed
  <2>2. CASE v = start.vm /\ a = <<c.nic, t>>
    BY <1>6, <2>2
  <2>. QED
    BY <1>8, <1>9, <2>1, <2>2
<1>10. ASSUME NEW u \in VM, NEW v \in VM, NEW a \in ArgsOf(u)', NEW b \in ArgsOf(v)', a[2] = b[2]
       PROVE  a = b
  <2>1. a \in ArgsOf(u) \/ a = <<c.nic, t>>
    BY <1>8
  <2>2. b \in ArgsOf(v) \/ b = <<c.nic, t>>
    BY <1>8
  <2>. QED
    BY <1>7, <1>10, <2>1, <2>2 DEF DevicesNamed
<1>11. ASSUME NEW a \in start'.args, NEW d \in start'.todo PROVE d.nic # a[1]
  <2>1. d.nic # c.nic
    BY <1>5 DEF CopiesAsRead, AsRead
  <2>. QED
    BY <1>1, <1>5, <2>1 DEF DevicesNamed
<1>12. DevicesNamed'
  BY <1>9, <1>10, <1>11 DEF DevicesNamed
<1>. QED
  BY <1>3, <1>4, <1>5, <1>6, <1>7, <1>8, <1>12

LEMMA NamedStart ==
  ASSUME NicTyped, NicControl, CopiesAsRead, DevicesNamed, "stale" \notin mishap',
         NEW c \in start.todo,
         \/ \E t \in Tap : PickDevice(c, t)
         \/ Build(c) \/ BuildFails(c) \/ JoinDevice(c) \/ ConnectFails(c)
         \/ \E e \in Epair, b \in Bridge : JoinLimited(c, e, b)
  PROVE  DevicesNamed'
<1>1. CASE \E t \in Tap : PickDevice(c, t)
  BY <1>1, NamedPick
<1>2. CASE ~\E t \in Tap : PickDevice(c, t)
  <2>1. c \in Copy /\ c.nic \in Nic /\ c.row \in Row /\ row \in [Nic -> Row] /\ c.row = c.seen
    BY DEF NicTyped, Copy, CopiesAsRead, AsRead
  <2>2. \A n \in Nic : row'[n].vm = row[n].vm /\ row'[n].dev = row[n].dev
    <3>1. CASE Build(c) \/ BuildFails(c) \/ JoinDevice(c)
      BY <3>1 DEF Build, BuildFails, JoinDevice
    <3>2. CASE ConnectFails(c)
      BY <2>1, <3>2, ConnectFailsSaves
    <3>3. ASSUME NEW e \in Epair, NEW b \in Bridge, JoinLimited(c, e, b)
          PROVE  \A n \in Nic : row'[n].vm = row[n].vm /\ row'[n].dev = row[n].dev
      <4>1. row[c.nic] = c.seen
            /\ row' = [row EXCEPT ![c.nic] = IF IsNic(c.nic) THEN [c.row EXCEPT !.epair = e, !.bridge = b]
                                                             ELSE @]
        BY <2>1, <3>3, JoinLimitedSaves
      <4>2. [c.row EXCEPT !.epair = e, !.bridge = b].vm = c.row.vm
            /\ [c.row EXCEPT !.epair = e, !.bridge = b].dev = c.row.dev
        BY <2>1 DEF Row
      <4>. QED
        BY <2>1, <4>1, <4>2
    <3>. QED
      BY <1>2, <3>1, <3>2, <3>3
  <2>3. /\ start'.args = start.args /\ start'.vm = start.vm /\ start'.pc # "args"
        /\ UNCHANGED bhyve
    BY <1>2 DEF NicTyped, Build, BuildFails, JoinDevice, ConnectFails, JoinLimited, Connected
  <2>4. \A v \in VM : ArgsOf(v)' = ArgsOf(v)
    BY <2>3 DEF ArgsOf
  <2>5. ASSUME NEW v \in VM, NEW a \in ArgsOf(v) PROVE row'[a[1]].vm = v /\ row'[a[1]].dev = a[2]
    BY <2>2, <2>5, ArgsFacts DEF DevicesNamed
  <2>. QED
    BY <2>3, <2>4, <2>5 DEF DevicesNamed
<1>. QED
  BY <1>1, <1>2

LEMMA NamedLaunch ==
  ASSUME NicTyped, NicControl, DevicesNamed, Launch
  PROVE  (\A v \in VM : ArgsOf(v)' = ArgsOf(v)) /\ DevicesNamed'
<1>1. start.pc = "build" /\ start' = StartIdle /\ UNCHANGED row
      /\ bhyve' = [bhyve EXCEPT ![start.vm] = start.args]
  BY DEF Launch
<1>2. start.vm \in VM /\ bhyve[start.vm] = {}
  BY <1>1 DEF NicControl, NicTyped
<1>3. start'.vm = None /\ start'.args = {} /\ start'.pc = "idle"
  BY <1>1 DEF StartIdle
<1>4. ASSUME NEW v \in VM PROVE ArgsOf(v)' = ArgsOf(v)
  BY <1>1, <1>2, <1>3, NicConstants DEF ArgsOf, NicTyped
<1>. QED
  BY <1>1, <1>3, <1>4 DEF DevicesNamed

LEMMA NamedStep ==
  ASSUME NicTyped, NicControl, CopiesAsRead, DevicesNamed, [NicNext]_nicVars, Current'
  PROVE  DevicesNamed'
<1>0. mishap' \cap {"stale", "rewired", "stolen", "window"} = {}
  BY DEF Current
<1>1. CASE UNCHANGED nicVars
  BY <1>1, NamedKept DEF nicVars, OwnersKept
<1>2. CASE NetStart
  <2>1. /\ start'.args = start.args /\ start'.vm = start.vm /\ start'.pc # "args"
        /\ UNCHANGED <<row, bhyve>>
    BY <1>2 DEF NicTyped, NetStart
  <2>2. \A v \in VM : ArgsOf(v)' = ArgsOf(v)
    BY <2>1 DEF ArgsOf
  <2>. QED
    BY <2>1, <2>2 DEF DevicesNamed
<1>3. ASSUME NEW n \in Nic, NEW r \in NewNics, AddVMNic(n, r) PROVE DevicesNamed'
  BY <1>3, AddKeeps, NamedKept DEF AddVMNic
<1>4. ASSUME NEW o \in Call, CallStep(o) PROVE DevicesNamed'
  BY <1>0, <1>4, CallsKeep, CallFrame, NamedKept
<1>. QED
  BY <1>0, <1>1, <1>2, <1>3, <1>4, NamedLaunch, NamedVM, NamedStart DEF NicNext, NicStep, CallStep

-----------------------------------------------------------------------------
\* The devices of VMs that run or are being cleaned up. Nothing has been restarted, so a VM
\* is not both.
LEMMA HeldFacts ==
  ASSUME NicTyped, NicControl, StoppedFirst, NEW v \in VM
  PROVE  /\ v \in up => Listed(v) = {} /\ stop[v].todo = {} /\ Held(v) = ArgsOf(v)
         /\ v \notin up => ArgsOf(v) = {}
         /\ start.pc # "idle" => start.vm \in up /\ start.vm \in VM /\ bhyve[start.vm] = {}
  BY NicConstants DEF NicTyped, NicControl, StoppedFirst, Listed, Held, ArgsOf, StartIdle

\* Why a device is held.
LEMMA HeldSame ==
  ASSUME NicTyped, NicControl, StoppedFirst, NEW v \in VM, NEW a \in Held(v)
  PROVE  /\ start.vm = v => a \in start.args /\ a \in ArgsOf(v) /\ v \in up
         /\ \/ v \in up /\ a \in ArgsOf(v)
            \/ v \notin up /\ \E n \in Listed(v) : a = <<n, row[n].dev>>
            \/ v \notin up /\ \E c \in stop[v].todo : a = <<c.nic, c.row.dev>>
<1>1. start.vm = v => v \in up
  BY NicConstants DEF NicControl, StartIdle
<1>2. start.vm = v => ArgsOf(v) = start.args
  BY <1>1, NicConstants DEF NicControl, StartIdle, ArgsOf
<1>3. a \in ArgsOf(v) \/ (\E n \in Listed(v) : a = <<n, row[n].dev>>)
        \/ \E c \in stop[v].todo : a = <<c.nic, c.row.dev>>
  BY DEF Held
<1>. QED
  BY <1>1, <1>2, <1>3, HeldFacts

\* DevicesHeld looks at the rows of VMs that are up, or that NetStop is about to list, and
\* at the taps on the host.
LEMMA HeldKept ==
  ASSUME NicTyped, NicControl, CopiesAsRead, DevicesHeld, PlumbedKept,
         UNCHANGED <<up, bhyve, start>>, \A t \in Tap : t \in host' <=> t \in host,
         \A v \in VM : /\ stop'[v].todo = stop[v].todo
                       /\ stop'[v].pc = "list" <=> stop[v].pc = "list"
                       /\ stop[v].pc = "idle" => stop'[v].pc = "idle"
  PROVE  /\ \A v \in VM : Held(v)' = Held(v)
         /\ DevicesHeld'
<1>1. \A v \in VM : ArgsOf(v)' = ArgsOf(v) /\ Listed(v)' = Listed(v)
  BY DEF ArgsOf, Listed, PlumbedKept, Plumbed
<1>2. ASSUME NEW v \in VM PROVE Held(v)' = Held(v)
  <2>1. \A n \in Listed(v) : row'[n] = row[n]
    BY DEF Listed, PlumbedKept, Plumbed
  <2>2. {<<n, row[n].dev>> : n \in Listed(v)}' = {<<n, row[n].dev>> : n \in Listed(v)}
    BY <1>1, <2>1
  <2>. QED
    BY <1>1, <2>2 DEF Held
<1>3. ASSUME NEW c \in start.todo PROVE c.seen = row'[c.nic]
  <2>1. c.nic \in Nic /\ c.seen.vm = start.vm /\ c.seen = row[c.nic]
    BY DEF NicTyped, Copy, CopiesAsRead, AsRead, DevicesHeld, StartCurrent
  <2>2. start.vm \in up
    BY DEF NicControl, StartIdle
  <2>. QED
    BY <2>1, <2>2 DEF PlumbedKept, Plumbed
<1>4. StartCurrent'
  BY <1>3 DEF StartCurrent
<1>5. BuiltExist'
  <2>1. \A a \in start.args : a[2] \in Tap
    BY DEF NicTyped
  <2>. QED
    BY <2>1 DEF DevicesHeld, BuiltExist, IsBuilt, IsNext
<1>6. ArgsForAll'
  <2>1. \A v \in up, n \in Nic : row'[n].vm = v => row[n].vm = v
    BY DEF PlumbedKept, Plumbed
  <2>. QED
    BY <1>1, <2>1 DEF DevicesHeld, ArgsForAll, NicTyped
<1>7. HeldExist' /\ HeldApart'
  BY <1>2 DEF DevicesHeld, HeldExist, HeldApart
<1>8. StoppedFirst'
  BY DEF DevicesHeld, StoppedFirst, NicTyped
<1>. QED
  BY <1>2, <1>4, <1>5, <1>6, <1>7, <1>8 DEF DevicesHeld

\* Start begins: the VM has no devices yet.
LEMMA HeldStart ==
  ASSUME NicTyped, NicControl, DevicesHeld, "restarted" \notin mishap', NEW v \in VM, NicStart(v)
  PROVE  /\ \A u \in VM : Held(u)' = Held(u)
         /\ DevicesHeld'
<1>1. start = StartIdle /\ start.vm = None /\ start.args = {} /\ stop[v].pc = "idle"
      /\ start'.vm = v /\ start'.pc = "args" /\ start'.todo = NicsOf(v) /\ start'.args = {}
      /\ up' = up \cup {v} /\ UNCHANGED <<row, host, bhyve, stop>>
  BY DEF NicStart, NicControl, StartIdle
<1>2. \A u \in VM : ArgsOf(u)' = ArgsOf(u) /\ Listed(u)' = Listed(u)
  BY <1>1 DEF ArgsOf, Listed
<1>3. \A u \in VM : Held(u)' = Held(u)
  BY <1>1, <1>2 DEF Held
<1>4. StoppedFirst' /\ BuiltExist' /\ HeldApart'
  BY <1>1, <1>3 DEF DevicesHeld, StoppedFirst, BuiltExist, HeldApart
<1>5. StartCurrent'
  BY <1>1 DEF StartCurrent, NicsOf, CopyOf
<1>6. HeldExist'
  BY <1>1, <1>3, NicConstants DEF DevicesHeld, HeldExist
<1>7. ArgsForAll'
  <2>1. ASSUME NEW u \in up', NEW n \in Nic, row[n].vm = u
        PROVE  \/ \E a \in ArgsOf(u)' : a[1] = n
               \/ u = v /\ \E c \in NicsOf(v) : c.nic = n
    <3>1. CASE u \in up
      <4>1. start.vm # u
        BY <1>1, <3>1, NicConstants DEF NicTyped
      <4>2. u \in VM /\ \E a \in ArgsOf(u) : a[1] = n
        BY <2>1, <3>1, <4>1 DEF DevicesHeld, ArgsForAll, NicTyped
      <4>. QED
        BY <1>2, <4>2
    <3>2. CASE u = v
      <4>1. CopyOf(n) \in NicsOf(v) /\ CopyOf(n).nic = n
        BY <2>1, <3>2 DEF NicsOf, CopyOf
      <4>. QED
        BY <3>2, <4>1
    <3>. QED
      BY <1>1, <3>1, <3>2
  <2>. QED
    BY <1>1, <2>1 DEF ArgsForAll
<1>. QED
  BY <1>3, <1>4, <1>5, <1>6, <1>7 DEF DevicesHeld

\* Done: what its bhyve had, NetStop finds in the rows.
LEMMA HeldDone ==
  ASSUME NicTyped, NicControl, DevicesNamed, DevicesHeld, NEW v \in VM, NicDone(v)
  PROVE  /\ \A u \in VM : Held(u)' = Held(u)
         /\ DevicesHeld'
<1>1. v \in up /\ start.vm # v /\ stop[v].pc = "idle" /\ stop[v].todo = {}
      /\ up' = up \ {v} /\ UNCHANGED <<row, host, start>>
      /\ bhyve' = [bhyve EXCEPT ![v] = {}] /\ stop' = [stop EXCEPT ![v].pc = "list"]
  BY DEF NicDone, NicControl
<1>2. ArgsOf(v)' = {} /\ stop'[v].pc = "list" /\ stop'[v].todo = {}
  BY <1>1 DEF ArgsOf, NicTyped
<1>3. Held(v)' = {<<n, row[n].dev>> : n \in {m \in Nic : row[m].vm = v}}
  BY <1>1, <1>2 DEF Held, Listed
<1>4. Held(v) = ArgsOf(v)
  BY <1>1, HeldFacts DEF DevicesHeld
<1>5. ASSUME NEW a \in ArgsOf(v) PROVE a \in Held(v)'
  BY <1>3, <1>5, ArgsFacts DEF DevicesNamed
<1>6. ASSUME NEW n \in Nic, row[n].vm = v PROVE <<n, row[n].dev>> \in ArgsOf(v)
  <2>1. PICK a \in ArgsOf(v) : a[1] = n
    BY <1>1, <1>6 DEF DevicesHeld, ArgsForAll
  <2>2. a = <<n, row[n].dev>>
    BY <2>1, ArgsFacts DEF DevicesNamed
  <2>. QED
    BY <2>2
<1>7. Held(v)' = Held(v)
  BY <1>3, <1>4, <1>5, <1>6
<1>8. ASSUME NEW u \in VM, u # v PROVE Held(u)' = Held(u) /\ ArgsOf(u)' = ArgsOf(u)
  <2>1. bhyve'[u] = bhyve[u] /\ stop'[u] = stop[u]
    BY <1>1, <1>8 DEF NicTyped
  <2>2. ArgsOf(u)' = ArgsOf(u) /\ Listed(u)' = Listed(u)
    BY <1>1, <2>1 DEF ArgsOf, Listed
  <2>. QED
    BY <1>1, <2>1, <2>2 DEF Held
<1>9. StoppedFirst'
  BY <1>1 DEF DevicesHeld, StoppedFirst, NicTyped
<1>10. StartCurrent' /\ BuiltExist'
  BY <1>1 DEF DevicesHeld, StartCurrent, BuiltExist, IsBuilt, IsNext
<1>11. HeldExist' /\ HeldApart'
  BY <1>1, <1>7, <1>8 DEF DevicesHeld, HeldExist, HeldApart
<1>12. ArgsForAll'
  BY <1>1, <1>8 DEF DevicesHeld, ArgsForAll, NicTyped
<1>. QED
  BY <1>7, <1>8, <1>9, <1>10, <1>11, <1>12 DEF DevicesHeld

\* NetStop reads the rows: copies take their place.
LEMMA HeldNetStop ==
  ASSUME NicTyped, NicControl, DevicesHeld, NEW v \in VM, NetStop(v)
  PROVE  /\ \A u \in VM : Held(u)' = Held(u)
         /\ DevicesHeld'
<1>1. stop[v].pc = "list" /\ stop[v].todo = {} /\ v \notin up
      /\ UNCHANGED <<up, row, host, bhyve, start>>
      /\ stop' = [stop EXCEPT ![v] = IF NicsOf(v) = {} THEN StopIdle
                                     ELSE [pc |-> "leave", todo |-> NicsOf(v)]]
  BY DEF NetStop, Stopping, NicControl, DevicesHeld, StoppedFirst
<1>2. stop'[v].pc # "list" /\ stop'[v].todo = NicsOf(v)
  BY <1>1 DEF NicTyped, StopIdle
<1>3. \A u \in VM : ArgsOf(u)' = ArgsOf(u)
  BY <1>1 DEF ArgsOf
<1>4. Held(v)' = Held(v)
  <2>1. Listed(v) = {n \in Nic : row[n].vm = v} /\ Listed(v)' = {}
    BY <1>1, <1>2 DEF Listed
  <2>2. {<<c.nic, c.row.dev>> : c \in NicsOf(v)} = {<<n, row[n].dev>> : n \in {m \in Nic : row[m].vm = v}}
    <3>1. \A n \in Nic : CopyOf(n).nic = n /\ CopyOf(n).row = row[n]
      BY DEF CopyOf
    <3>. QED
      BY <3>1 DEF NicsOf
  <2>. QED
    BY <1>1, <1>2, <1>3, <2>1, <2>2 DEF Held
<1>5. ASSUME NEW u \in VM, u # v PROVE Held(u)' = Held(u)
  <2>1. stop'[u] = stop[u]
    BY <1>1, <1>5 DEF NicTyped
  <2>2. Listed(u)' = Listed(u)
    BY <1>1, <2>1 DEF Listed
  <2>. QED
    BY <1>1, <1>3, <2>1, <2>2 DEF Held
<1>6. StoppedFirst'
  BY <1>1 DEF DevicesHeld, StoppedFirst, NicTyped
<1>7. StartCurrent' /\ BuiltExist' /\ ArgsForAll'
  BY <1>1, <1>3 DEF DevicesHeld, StartCurrent, BuiltExist, IsBuilt, IsNext, ArgsForAll, NicTyped
<1>8. HeldExist' /\ HeldApart'
  BY <1>1, <1>4, <1>5 DEF DevicesHeld, HeldExist, HeldApart
<1>. QED
  BY <1>4, <1>5, <1>6, <1>7, <1>8 DEF DevicesHeld

\* Disconnect destroys no tap.
LEMMA HeldDisconnect ==
  ASSUME NicTyped, NicControl, CopiesAsRead, DevicesHeld, "stale" \notin mishap',
         NEW v \in VM, NEW c \in stop[v].todo, Disconnect(v, c)
  PROVE  /\ PlumbedKept
         /\ \A u \in VM : Held(u)' = Held(u)
         /\ DevicesHeld'
<1>1. v \notin up
  BY HeldFacts DEF DevicesHeld
<1>2. PlumbedKept
  BY <1>1, DisconnectKeeps
<1>3. UNCHANGED <<up, bhyve, start>> /\ stop' = [stop EXCEPT ![v].pc = "demolish"]
      /\ stop[v].pc = "leave"
  BY DEF Disconnect
<1>4. \A t \in Tap : t \in host' <=> t \in host
  <2>1. c.row.epair \in Epair \cup {None} /\ c.row.bridge \in Bridge \cup {None}
    BY DEF NicTyped, Copy, Row
  <2>2. \A t \in Tap : t \notin Inst(c.row)
    BY <2>1, DeviceKinds, NicConstants DEF Inst
  <2>. QED
    BY <2>2 DEF Disconnect
<1>5. \A u \in VM : /\ stop'[u].todo = stop[u].todo
                    /\ stop'[u].pc = "list" <=> stop[u].pc = "list"
                    /\ stop[u].pc = "idle" => stop'[u].pc = "idle"
  BY <1>3 DEF NicTyped
<1>. QED
  BY <1>2, <1>3, <1>4, <1>5, HeldKept

\* Demolish destroys a device that belongs to nobody else.
LEMMA HeldDemolish ==
  ASSUME NicTyped, NicControl, CopiesAsRead, DevicesHeld,
         NEW v \in VM, NEW c \in stop[v].todo, Demolish(v, c)
  PROVE  /\ v \notin up /\ c.row.dev \in Tap /\ <<c.nic, c.row.dev>> \in Held(v)
         /\ Held(v)' = Held(v) \ {<<c.nic, c.row.dev>>}
         /\ \A u \in VM \ {v} : Held(u)' = Held(u)
         /\ DevicesHeld'
<1>. DEFINE t == c.row.dev
            h == <<c.nic, t>>
<1>1. v \notin up /\ start.vm # v /\ ArgsOf(v) = {} /\ Listed(v) = {} /\ stop[v].pc = "demolish"
  BY NicConstants, HeldFacts DEF DevicesHeld, Demolish, Listed, NicControl, StartIdle
<1>2. Held(v) = {<<d.nic, d.row.dev>> : d \in stop[v].todo}
  BY <1>1 DEF Held
<1>3. h \in Held(v) /\ t \in host \cap Tap
  <2>1. h \in Held(v) /\ h[2] = t
    BY <1>2
  <2>2. h[2] \in host \cap Tap
    BY <1>1, <2>1 DEF DevicesHeld, HeldExist
  <2>. QED
    BY <2>1, <2>2
<1>4. UNCHANGED <<up, row, bhyve, start>> /\ host' = host \ {t}
      /\ stop' = [stop EXCEPT ![v] = IF stop[v].todo \ {c} = {} THEN StopIdle
                                     ELSE [pc |-> "leave", todo |-> stop[v].todo \ {c}]]
  BY DEF Demolish, Stopping
<1>5. stop'[v].pc # "list" /\ stop'[v].todo = stop[v].todo \ {c}
  BY <1>4 DEF NicTyped, StopIdle
<1>6. \A u \in VM : ArgsOf(u)' = ArgsOf(u)
  BY <1>4 DEF ArgsOf
<1>7. Held(v)' = Held(v) \ {h}
  <2>1. Held(v)' = {<<d.nic, d.row.dev>> : d \in stop[v].todo \ {c}}
    BY <1>1, <1>5, <1>6 DEF Held, Listed
  <2>2. \A d \in stop[v].todo \ {c} : d.nic # c.nic
    BY DEF CopiesAsRead, AsRead
  <2>. QED
    BY <1>2, <2>1, <2>2
<1>8. ASSUME NEW u \in VM, u # v PROVE Held(u)' = Held(u)
  <2>1. stop'[u] = stop[u]
    BY <1>4, <1>8 DEF NicTyped
  <2>2. Listed(u)' = Listed(u)
    BY <1>4, <2>1 DEF Listed
  <2>3. {<<n, row[n].dev>> : n \in Listed(u)}' = {<<n, row[n].dev>> : n \in Listed(u)}
    BY <1>4, <2>2
  <2>4. ArgsOf(u)' = ArgsOf(u)
    BY <1>6
  <2>. HIDE DEF t, h
  <2>. QED
    BY <2>1, <2>3, <2>4 DEF Held
<1>. HIDE DEF t, h
<1>h. h[2] = t
  BY DEF h
<1>9. ASSUME NEW u \in VM, NEW a \in Held(u)' PROVE a \in Held(u) /\ a[2] # t
  <2>1. a \in Held(u)
    BY <1>7, <1>8, <1>9
  <2>2. ~(u = v /\ a = h)
    BY <1>7, <1>9
  <2>. QED
    BY <1>3, <1>h, <2>1, <2>2 DEF DevicesHeld, HeldApart
<1>10. StoppedFirst'
  BY <1>1, <1>4 DEF DevicesHeld, StoppedFirst, NicTyped
<1>11. StartCurrent' /\ ArgsForAll'
  BY <1>4, <1>6 DEF DevicesHeld, StartCurrent, ArgsForAll, NicTyped
<1>12. BuiltExist'
  <2>1. ASSUME NEW a \in start.args PROVE a[2] # t
    <3>1. start.vm \in VM /\ a \in ArgsOf(start.vm)
      BY DEF NicControl, StartIdle, NicTyped, ArgsOf
    <3>2. a \in Held(start.vm)
      BY <3>1 DEF Held
    <3>. QED
      BY <1>1, <1>3, <1>h, <3>1, <3>2 DEF DevicesHeld, HeldApart
  <2>. QED
    BY <1>4, <2>1 DEF DevicesHeld, BuiltExist, IsBuilt, IsNext
<1>13. HeldExist' /\ HeldApart'
  BY <1>4, <1>9 DEF DevicesHeld, HeldExist, HeldApart
<1>. QED
  BY <1>1, <1>3, <1>7, <1>8, <1>10, <1>11, <1>12, <1>13 DEF DevicesHeld, t, h

\* getTapDev: the device is neither on the host nor in a row of a VM that is up, so
\* nobody holds it.
LEMMA HeldPick ==
  ASSUME NicTyped, NicControl, CopiesAsRead, DevicesNamed, DevicesHeld, "stale" \notin mishap',
         NEW c \in start.todo, NEW t \in Tap, PickDevice(c, t)
  PROVE  /\ start.vm \in VM /\ start.vm \in up
         /\ \A u \in VM \ {start.vm} : Held(u)' = Held(u) /\ Listed(u)' = Listed(u)
         /\ \A u \in VM : Held(u) \subseteq Held(u)'
         /\ \A n \in Nic : row[n].vm # start.vm => row'[n] = row[n]
         /\ \A n \in Nic : row'[n].vm = row[n].vm
         /\ DevicesHeld'
<1>1. /\ start.vm \in VM /\ start.vm \in up /\ start.pc = "args"
      /\ UNCHANGED <<up, host, bhyve, stop>> /\ start'.vm = start.vm /\ start'.pc = "args"
      /\ t \notin host
  BY DEF PickDevice, NicControl, NicTyped, IsFree
<1>2. c.nic \in Nic /\ c.row \in Row /\ row \in [Nic -> Row]
  BY DEF NicTyped, Copy
<1>3. /\ start'.args = start.args \cup {<<c.nic, t>>} /\ start'.todo = start.todo \ {c}
      /\ row[c.nic] = c.row /\ c.row.vm = start.vm
      /\ row' = [row EXCEPT ![c.nic] = [c.row EXCEPT !.dev = t]] /\ row'[c.nic].vm = start.vm
      /\ \A v \in VM : \A a \in ArgsOf(v) : a[1] # c.nic /\ a[2] # t
      /\ \A v \in VM : ArgsOf(v)' = ArgsOf(v) \cup IF v = start.vm THEN {<<c.nic, t>>} ELSE {}
  BY NamedPick
<1>4. \A n \in Nic : n # c.nic => row'[n] = row[n]
  BY <1>2, <1>3
<1>5. ASSUME NEW u \in VM, u # start.vm PROVE Held(u)' = Held(u) /\ Listed(u)' = Listed(u)
  <2>1. Listed(u)' = Listed(u) /\ \A n \in Listed(u) : row'[n] = row[n]
    BY <1>1, <1>2, <1>3, <1>4, <1>5 DEF Listed
  <2>2. {<<n, row[n].dev>> : n \in Listed(u)}' = {<<n, row[n].dev>> : n \in Listed(u)}
    BY <2>1
  <2>. QED
    BY <1>1, <1>3, <1>5, <2>1, <2>2 DEF Held
<1>6. ASSUME NEW u \in VM, u = start.vm PROVE Held(u) = ArgsOf(u)
  BY <1>1, <1>6, HeldFacts DEF DevicesHeld
<1>7. ASSUME NEW u \in VM, u = start.vm PROVE Held(u)' = Held(u) \cup {<<c.nic, t>>}
  <2>1. Listed(u)' = {} /\ stop'[u].todo = {}
    <3>1. stop[u].pc = "idle" /\ stop[u].todo = {}
      BY <1>1, <1>7 DEF DevicesHeld, StoppedFirst, NicControl
    <3>. QED
      BY <1>1, <3>1 DEF Listed
  <2>2. Held(u)' = ArgsOf(u)'
    BY <2>1 DEF Held
  <2>. QED
    BY <1>3, <1>6, <1>7, <2>2
<1>8. ASSUME NEW u \in VM, NEW a \in Held(u) PROVE a[2] # t
  <2>1. CASE u = start.vm
    BY <1>3, <1>6, <2>1
  <2>2. CASE u # start.vm
    BY <1>1, <2>2 DEF DevicesHeld, HeldExist
  <2>. QED
    BY <2>1, <2>2
<1>9. HeldExist'
  BY <1>1, <1>5 DEF DevicesHeld, HeldExist
<1>10. HeldApart'
  <2>1. ASSUME NEW u \in VM, NEW a \in Held(u)'
        PROVE  a \in Held(u) \/ (u = start.vm /\ a = <<c.nic, t>>)
    <3>1. CASE u = start.vm
      BY <1>7, <2>1, <3>1
    <3>2. CASE u # start.vm
      BY <1>5, <2>1, <3>2
    <3>. QED
      BY <3>1, <3>2
  <2>2. ASSUME NEW u \in VM, NEW v \in VM, NEW a \in Held(u)', NEW b \in Held(v)', a[2] = b[2]
        PROVE  u = v /\ a = b
    <3>1. CASE a \in Held(u) /\ b \in Held(v)
      BY <2>2, <3>1 DEF DevicesHeld, HeldApart
    <3>2. CASE a \notin Held(u) \/ b \notin Held(v)
      BY <1>8, <2>1, <2>2, <3>2
    <3>. QED
      BY <3>1, <3>2
  <2>. QED
    BY <2>2 DEF HeldApart
<1>11. BuiltExist'
  BY <1>1, <1>3 DEF DevicesHeld, BuiltExist, IsBuilt
<1>12. StartCurrent'
  <2>1. \A d \in start.todo \ {c} : d.nic # c.nic /\ d.nic \in Nic
    BY DEF CopiesAsRead, AsRead, NicTyped, Copy
  <2>. QED
    BY <1>3, <1>4, <2>1 DEF DevicesHeld, StartCurrent
<1>13. \A n \in Nic : row'[n].vm = row[n].vm
  BY <1>3, <1>4
<1>14. ArgsForAll'
  <2>1. ASSUME NEW v \in up, NEW n \in Nic, row[n].vm = v
        PROVE  \/ \E a \in ArgsOf(v)' : a[1] = n
               \/ start.vm = v /\ \E d \in start.todo \ {c} : d.nic = n
    <3>1. v \in VM /\ ArgsOf(v) \subseteq ArgsOf(v)'
      BY <1>3 DEF NicTyped
    <3>2. CASE n = c.nic
      <4>1. v = start.vm
        BY <1>3, <2>1, <3>2
      <4>2. <<c.nic, t>> \in ArgsOf(v)' /\ <<c.nic, t>>[1] = n
        BY <1>3, <3>1, <3>2, <4>1
      <4>. QED
        BY <4>2
    <3>3. CASE n # c.nic
      BY <2>1, <3>1, <3>3 DEF DevicesHeld, ArgsForAll
    <3>. QED
      BY <3>2, <3>3
  <2>. QED
    BY <1>1, <1>3, <1>13, <2>1 DEF ArgsForAll
<1>15. StoppedFirst'
  BY <1>1 DEF DevicesHeld, StoppedFirst
<1>16. \A n \in Nic : row[n].vm # start.vm => row'[n] = row[n]
  BY <1>3, <1>4
<1>17. ASSUME NEW u \in VM PROVE Held(u) \subseteq Held(u)'
  BY <1>5, <1>7
<1>. QED
  BY <1>1, <1>5, <1>9, <1>10, <1>11, <1>12, <1>13, <1>14, <1>15, <1>16, <1>17 DEF DevicesHeld

\* netStart begins: no device of the VM is built.
LEMMA HeldNetStart ==
  ASSUME NicTyped, NicControl, DevicesNamed, DevicesHeld, NetStart
  PROVE  /\ \A u \in VM : Held(u)' = Held(u)
         /\ DevicesHeld'
<1>1. /\ start.pc = "args" /\ start.todo = {} /\ start.vm \in up /\ start.vm \in VM
      /\ start'.vm = start.vm /\ start'.pc = "build" /\ start'.todo = NicsOf(start.vm)
      /\ start'.args = start.args /\ UNCHANGED <<up, row, host, bhyve, stop>>
  BY DEF NetStart, NicControl, NicTyped
<1>2. \A u \in VM : ArgsOf(u)' = ArgsOf(u) /\ Listed(u)' = Listed(u)
  BY <1>1 DEF ArgsOf, Listed
<1>3. \A u \in VM : Held(u)' = Held(u)
  BY <1>1, <1>2 DEF Held
<1>4. StoppedFirst' /\ HeldApart' /\ HeldExist'
  BY <1>1, <1>3 DEF DevicesHeld, StoppedFirst, HeldApart, HeldExist
<1>5. StartCurrent'
  BY <1>1 DEF StartCurrent, NicsOf, CopyOf
<1>6. ArgsForAll'
  BY <1>1, <1>2 DEF DevicesHeld, ArgsForAll, NicTyped
<1>7. ASSUME NEW a \in start.args PROVE a[2] \notin host /\ ~IsBuilt(a[1])'
  <2>1. a[1] \in Nic /\ row[a[1]].vm = start.vm
    BY <1>1, ArgsFacts DEF DevicesNamed, ArgsOf
  <2>2. CopyOf(a[1]) \in start'.todo /\ CopyOf(a[1]).nic = a[1]
    BY <1>1, <2>1 DEF NicsOf, CopyOf
  <2>. QED
    BY <1>1, <2>2 DEF DevicesHeld, BuiltExist, IsBuilt
<1>8. BuiltExist'
  BY <1>1, <1>7 DEF BuiltExist
<1>. QED
  BY <1>3, <1>4, <1>5, <1>6, <1>8 DEF DevicesHeld

\* The copies netStart works on are up to date, and name the devices of the arguments.
LEMMA CopyIsArg ==
  ASSUME NicTyped, NicControl, CopiesAsRead, DevicesNamed, DevicesHeld,
         NEW c \in start.todo, start.pc \in {"build", "connect"}
  PROVE  /\ c.nic \in Nic /\ c.row \in Row /\ c.row = c.seen /\ c.row = row[c.nic] /\ c.row.vm = start.vm
         /\ <<c.nic, c.row.dev>> \in start.args /\ c.row.dev \in Tap
         /\ start.vm \in VM /\ start.vm \in up
<1>1. c.nic \in Nic /\ c.row = row[c.nic] /\ c.row.vm = start.vm /\ c.row \in Row /\ c.row = c.seen
  <2>1. c \in Copy
    BY DEF NicTyped
  <2>2. c.row = c.seen /\ c.seen.vm = start.vm
    BY DEF CopiesAsRead, AsRead
  <2>3. c.seen = row[c.nic]
    BY DEF DevicesHeld, StartCurrent
  <2>. QED
    BY <2>1, <2>2, <2>3 DEF Copy
<1>2. start.vm \in up /\ start.vm \in VM
  BY DEF NicControl, NicTyped
<1>3. PICK a \in ArgsOf(start.vm) : a[1] = c.nic
  <2>1. \A v \in up, n \in Nic : row[n].vm = v => \E a \in ArgsOf(v) : a[1] = n
    BY DEF DevicesHeld, ArgsForAll
  <2>2. row[c.nic].vm = start.vm
    BY <1>1
  <2>. QED
    BY <1>1, <1>2, <2>1, <2>2
<1>4. a = <<c.nic, c.row.dev>> /\ a \in start.args /\ c.row.dev \in Tap
  <2>1. a = <<a[1], a[2]>> /\ a[2] \in Tap /\ a \in start.args
    BY <1>2, ArgsFacts
  <2>2. row[a[1]].dev = a[2]
    BY <1>2 DEF DevicesNamed
  <2>3. a[2] = c.row.dev
    BY <1>1, <1>3, <2>2
  <2>. QED
    BY <1>3, <2>1, <2>3
<1>. QED
  BY <1>1, <1>2, <1>4

\* There is one next copy, and one copy of a NIC.
LEMMA NextCopy ==
  ASSUME CopiesAsRead, NicTyped, NEW c \in start.todo, IsNext(c, start.todo), NEW d \in start.todo
  PROVE  (IsNext(d, start.todo) => d = c) /\ (d.nic = c.nic => d = c)
<1>1. d.nic = c.nic => d = c
  BY DEF CopiesAsRead, AsRead
<1>2. c.nic \in Nat /\ d.nic \in Nat
  BY NicConstants DEF NicTyped, Copy
<1>3. IsNext(d, start.todo) => d.nic = c.nic
  BY <1>2 DEF IsNext
<1>. QED
  BY <1>1, <1>3

\* Build makes the device: it is not on the host.
LEMMA HeldBuild ==
  ASSUME NicTyped, NicControl, CopiesAsRead, DevicesNamed, DevicesHeld,
         NEW c \in start.todo, Build(c)
  PROVE  /\ c.row.dev \in Tap \ host
         /\ \A u \in VM : Held(u)' = Held(u) /\ ArgsOf(u)' = ArgsOf(u)
         /\ DevicesHeld'
<1>. DEFINE t == c.row.dev
<1>1. start.pc = "build" /\ IsNext(c, start.todo) /\ UNCHANGED <<up, row, bhyve, stop>>
  BY DEF Build
<1>2. <<c.nic, t>> \in start.args /\ t \in Tap /\ start.vm \in VM /\ start.vm \in up
  BY <1>1, CopyIsArg
<1>3. t \notin host
  <2>1. ~IsBuilt(c.nic)
    BY <1>1 DEF IsBuilt
  <2>2. <<c.nic, t>>[1] = c.nic /\ <<c.nic, t>>[2] = t
    OBVIOUS
  <2>. QED
    BY <1>2, <2>1, <2>2 DEF DevicesHeld, BuiltExist
<1>4. /\ start'.vm = start.vm /\ start'.args = start.args
      /\ \/ start'.pc = "connect" /\ start'.todo = start.todo
         \/ start'.pc = "build" /\ start'.todo = start.todo \ {c}
      /\ host' = host \cup {t}
  BY <1>1, <1>2 DEF Build, NicTyped
<1>5. \A u \in VM : ArgsOf(u)' = ArgsOf(u) /\ Listed(u)' = Listed(u)
  BY <1>1, <1>4 DEF ArgsOf, Listed
<1>6. \A u \in VM : Held(u)' = Held(u)
  BY <1>1, <1>5 DEF Held
<1>7. StoppedFirst' /\ HeldApart' /\ HeldExist'
  BY <1>1, <1>4, <1>6 DEF DevicesHeld, StoppedFirst, HeldApart, HeldExist
<1>8. StartCurrent'
  BY <1>1, <1>4 DEF DevicesHeld, StartCurrent
<1>9. ArgsForAll'
  BY <1>1, <1>4, <1>5 DEF DevicesHeld, ArgsForAll, NicTyped
<1>10. ASSUME NEW a \in start.args PROVE a[2] \in host' <=> IsBuilt(a[1])'
  <2>1. a[2] \in host <=> \A d \in start.todo : d.nic # a[1]
    BY <1>1 DEF DevicesHeld, BuiltExist, IsBuilt
  <2>2. a[2] = t => a[1] = c.nic
    <3>1. a \in ArgsOf(start.vm) /\ <<c.nic, t>> \in ArgsOf(start.vm)
      BY <1>2 DEF ArgsOf
    <3>. QED
      BY <1>2, <3>1 DEF DevicesNamed
  <2>3. a[1] = c.nic => a[2] = t
    <3>1. a \in ArgsOf(start.vm)
      BY DEF ArgsOf
    <3>. QED
      BY <1>1, <1>2, <3>1, CopyIsArg DEF DevicesNamed
  <2>4. IsBuilt(a[1])' <=> (\A d \in start.todo : d.nic = a[1] => d = c)
    <3>1. CASE start'.pc = "connect" /\ start'.todo = start.todo
      <4>1. IsBuilt(a[1])' <=> \A d \in start.todo : d.nic = a[1] => IsNext(d, start.todo)
        BY <3>1 DEF IsBuilt, IsNext
      <4>. QED
        BY <1>1, <4>1, NextCopy
    <3>2. CASE start'.pc = "build" /\ start'.todo = start.todo \ {c}
      BY <3>2 DEF IsBuilt
    <3>. QED
      BY <1>4, <3>1, <3>2
  <2>5. (\A d \in start.todo : d.nic = a[1] => d = c)
          <=> a[1] = c.nic \/ (\A d \in start.todo : d.nic # a[1])
    BY <1>1, NextCopy
  <2>. QED
    BY <1>4, <2>1, <2>2, <2>3, <2>4, <2>5
<1>11. BuiltExist'
  BY <1>4, <1>10 DEF BuiltExist
<1>. QED
  BY <1>2, <1>3, <1>5, <1>6, <1>7, <1>8, <1>9, <1>11 DEF DevicesHeld

\* The end of the connection of one NIC, whether it worked or not: what it wrote to the row
\* is not the device, what it built is not a tap.
LEMMA HeldConnected ==
  ASSUME NicTyped, NicControl, CopiesAsRead, DevicesNamed, DevicesHeld,
         NEW c \in start.todo, start.pc = "connect", IsNext(c, start.todo), Connected(c),
         \A n \in Nic : n # c.nic => row'[n] = row[n],
         row'[c.nic].vm = c.row.vm, row'[c.nic].dev = c.row.dev,
         \A t \in Tap : t \in host' <=> t \in host
  PROVE  /\ \A u \in VM : Held(u)' = Held(u) /\ Listed(u)' = Listed(u)
         /\ DevicesHeld'
<1>1. /\ c.nic \in Nic /\ c.row = row[c.nic] /\ c.row.vm = start.vm
      /\ start.vm \in VM /\ start.vm \in up
  BY CopyIsArg
<1>2. /\ start'.vm = start.vm /\ start'.args = start.args /\ start'.pc = "build"
      /\ start'.todo = start.todo \ {c} /\ UNCHANGED <<up, bhyve, stop>>
  BY DEF Connected, NicTyped
<1>3. \A n \in Nic : row'[n].vm = row[n].vm /\ row'[n].dev = row[n].dev
  BY <1>1
<1>4. \A u \in VM : ArgsOf(u)' = ArgsOf(u) /\ Listed(u)' = Listed(u)
  BY <1>2, <1>3 DEF ArgsOf, Listed
<1>5. ASSUME NEW u \in VM PROVE Held(u)' = Held(u)
  <2>1. \A n \in Listed(u) : row'[n].dev = row[n].dev
    BY <1>3 DEF Listed
  <2>2. {<<n, row[n].dev>> : n \in Listed(u)}' = {<<n, row[n].dev>> : n \in Listed(u)}
    BY <1>4, <2>1
  <2>. QED
    BY <1>2, <1>4, <2>2 DEF Held
<1>6. StoppedFirst' /\ HeldApart' /\ HeldExist'
  BY <1>2, <1>5 DEF DevicesHeld, StoppedFirst, HeldApart, HeldExist
<1>7. StartCurrent'
  <2>1. \A d \in start.todo \ {c} : d.nic # c.nic /\ d.nic \in Nic
    BY DEF CopiesAsRead, AsRead, NicTyped, Copy
  <2>. QED
    BY <1>2, <2>1 DEF DevicesHeld, StartCurrent
<1>8. ArgsForAll'
  BY <1>2, <1>3, <1>4 DEF DevicesHeld, ArgsForAll, NicTyped
<1>9. ASSUME NEW n PROVE IsBuilt(n)' <=> IsBuilt(n)
  BY <1>2, NextCopy DEF IsBuilt
<1>10. BuiltExist'
  <2>1. \A a \in start.args : a[2] \in Tap
    BY DEF NicTyped
  <2>. QED
    BY <1>2, <1>9, <2>1 DEF DevicesHeld, BuiltExist
<1>. QED
  BY <1>4, <1>5, <1>6, <1>7, <1>8, <1>10 DEF DevicesHeld

\* bhyve gets the devices when all are built.
LEMMA HeldLaunch ==
  ASSUME NicTyped, NicControl, DevicesNamed, DevicesHeld, Launch
  PROVE  /\ \A u \in VM : Held(u)' = Held(u) /\ Listed(u)' = Listed(u)
         /\ DevicesHeld'
<1>1. /\ start.pc = "build" /\ start.todo = {} /\ start.vm \in up /\ start.vm \in VM
      /\ start' = StartIdle /\ UNCHANGED <<up, row, host, stop>>
      /\ bhyve' = [bhyve EXCEPT ![start.vm] = start.args]
  BY DEF Launch, NicControl, NicTyped
<1>2. start'.vm = None /\ start'.todo = {} /\ start'.args = {} /\ start'.pc = "idle"
  BY <1>1 DEF StartIdle
<1>3. \A u \in VM : ArgsOf(u)' = ArgsOf(u) /\ Listed(u)' = Listed(u)
  BY <1>1, NamedLaunch DEF Listed
<1>4. \A u \in VM : Held(u)' = Held(u)
  BY <1>1, <1>3 DEF Held
<1>5. StoppedFirst' /\ HeldApart' /\ StartCurrent' /\ BuiltExist'
  BY <1>1, <1>2, <1>4 DEF DevicesHeld, StoppedFirst, HeldApart, StartCurrent, BuiltExist
<1>6. ArgsForAll'
  BY <1>1, <1>3 DEF DevicesHeld, ArgsForAll, NicTyped
<1>7. ASSUME NEW u \in VM, NEW a \in Held(u) PROVE a[2] \in host \cap Tap
  <2>1. CASE u = start.vm
    <3>1. a \in start.args /\ a[2] \in Tap /\ a[1] \in Nic
      BY <1>7, <2>1, HeldSame, ArgsFacts DEF DevicesHeld
    <3>2. IsBuilt(a[1])
      BY <1>1 DEF IsBuilt
    <3>. QED
      BY <3>1, <3>2 DEF DevicesHeld, BuiltExist
  <2>. QED
    BY <1>7, <2>1 DEF DevicesHeld, HeldExist
<1>8. HeldExist'
  BY <1>1, <1>4, <1>7 DEF HeldExist
<1>. QED
  BY <1>3, <1>4, <1>5, <1>6, <1>8 DEF DevicesHeld

\* DevicesHeld is kept while at most commands fail.
LEMMA HeldStep ==
  ASSUME NicTyped, NicControl, CopiesAsRead, DevicesNamed, DevicesHeld, [NicNext]_nicVars, Quiet'
  PROVE  DevicesHeld'
<1>0. /\ mishap' \cap {"stale", "rewired", "stolen", "window"} = {}
      /\ "restarted" \notin mishap' /\ "stale" \notin mishap'
  BY DEF Quiet
<1>1. CASE UNCHANGED nicVars
  BY <1>1, HeldKept DEF nicVars, PlumbedKept
<1>2. ASSUME NEW v \in VM, NicStart(v) \/ NicDone(v) \/ NetStop(v) PROVE DevicesHeld'
  BY <1>0, <1>2, HeldStart, HeldDone, HeldNetStop
<1>3. ASSUME NEW v \in VM, NEW c \in stop[v].todo, Disconnect(v, c) \/ Demolish(v, c) PROVE DevicesHeld'
  BY <1>0, <1>3, HeldDisconnect, HeldDemolish
<1>4. ASSUME NEW c \in start.todo, NEW t \in Tap, PickDevice(c, t) PROVE DevicesHeld'
  BY <1>0, <1>4, HeldPick
<1>5. ASSUME NEW c \in start.todo, Build(c) \/ BuildFails(c) PROVE DevicesHeld'
  BY <1>5, HeldBuild DEF BuildFails, Quiet
<1>6. ASSUME NEW c \in start.todo,
             \/ JoinDevice(c) \/ ConnectFails(c)
             \/ \E e \in Epair, b \in Bridge : JoinLimited(c, e, b)
      PROVE  DevicesHeld'
  <2>1. start.pc = "connect" /\ IsNext(c, start.todo) /\ Connected(c)
    BY <1>6 DEF JoinDevice, ConnectFails, JoinLimited
  <2>2. c \in Copy /\ c.nic \in Nic /\ c.row \in Row /\ c.row = c.seen /\ c.row = row[c.nic]
        /\ row \in [Nic -> Row]
    BY <2>1, CopyIsArg DEF NicTyped
  <2>3. /\ \A n \in Nic : n # c.nic => row'[n] = row[n]
        /\ row'[c.nic].vm = c.row.vm /\ row'[c.nic].dev = c.row.dev
        /\ \A t \in Tap : t \in host' <=> t \in host
    <3>1. CASE JoinDevice(c)
      BY <2>2, <3>1 DEF JoinDevice
    <3>2. CASE ConnectFails(c)
      BY <2>2, <3>2, ConnectFailsSaves, DeviceKinds
    <3>3. ASSUME NEW e \in Epair, NEW b \in Bridge, JoinLimited(c, e, b)
          PROVE  /\ \A n \in Nic : n # c.nic => row'[n] = row[n]
                 /\ row'[c.nic].vm = c.row.vm /\ row'[c.nic].dev = c.row.dev
                 /\ \A t \in Tap : t \in host' <=> t \in host
      <4>1. row' = [row EXCEPT ![c.nic] = IF IsNic(c.nic) THEN [c.row EXCEPT !.epair = e, !.bridge = b]
                                                         ELSE @]
        BY <2>2, <3>3, JoinLimitedSaves
      <4>2. [c.row EXCEPT !.epair = e, !.bridge = b].vm = c.row.vm
            /\ [c.row EXCEPT !.epair = e, !.bridge = b].dev = c.row.dev
        BY <2>2 DEF Row
      <4>3. \A t \in Tap : t \in host' <=> t \in host
        BY <3>3, DeviceKinds DEF JoinLimited
      <4>. QED
        BY <2>2, <4>1, <4>2, <4>3
    <3>. QED
      BY <1>6, <3>1, <3>2, <3>3
  <2>. QED
    BY <2>1, <2>3, HeldConnected
<1>7. CASE NetStart \/ Launch
  BY <1>7, HeldNetStart, HeldLaunch
<1>8. ASSUME NEW o \in Call, CallStep(o) PROVE DevicesHeld'
  BY <1>0, <1>8, CallsKeep, CallFrame, HeldKept
<1>9. ASSUME NEW n \in Nic, NEW r \in NewNics, AddVMNic(n, r) PROVE DevicesHeld'
  BY <1>9, AddKeeps, HeldKept DEF AddVMNic
<1>. QED
  BY <1>1, <1>2, <1>3, <1>4, <1>5, <1>6, <1>7, <1>8, <1>9 DEF NicNext, NicStep, CallStep

-----------------------------------------------------------------------------
\* A NIC that is connected, or that NetStop is about to disconnect, has its device.
LEMMA WireFacts ==
  ASSUME NicTyped, NicControl, CopiesAsRead, DevicesNamed, DevicesHeld,
         NEW v \in VM, NEW w \in Wires(v)
  PROVE  /\ w = <<w[1], w[2]>> /\ w[1] \in Nic /\ w[2] \in Row /\ w[2].on
         /\ w[2].dev \in host \cap Tap
         /\ <<w[1], w[2].dev>> \in Held(v)
<1>1. CASE \E n \in Nic : IsWired(v, n) /\ w = <<n, row[n]>>
  <2>1. PICK n \in Nic : IsWired(v, n) /\ w = <<n, row[n]>>
    BY <1>1
  <2>2. v \in up /\ row[n].vm = v /\ row[n] \in Row
        /\ (start.vm = v => start.pc \in {"build", "connect"} /\ \A c \in start.todo : c.nic # n)
    BY <2>1 DEF IsWired, NicTyped
  <2>3. PICK a \in ArgsOf(v) : a[1] = n
    BY <2>1, <2>2 DEF DevicesHeld, ArgsForAll
  <2>4. a = <<n, row[n].dev>> /\ a[2] = row[n].dev /\ a[2] \in Tap
    BY <2>3, ArgsFacts DEF DevicesNamed
  <2>5. a \in Held(v)
    BY DEF Held
  <2>6. a[2] \in host
    <3>1. CASE start.vm = v
      <4>1. a \in start.args /\ IsBuilt(a[1])
        BY <2>2, <2>3, <3>1, ArgsFacts DEF IsBuilt
      <4>. QED
        BY <4>1 DEF DevicesHeld, BuiltExist
    <3>2. CASE start.vm # v
      BY <2>5, <3>2 DEF DevicesHeld, HeldExist
    <3>. QED
      BY <3>1, <3>2
  <2>. QED
    BY <2>1, <2>2, <2>4, <2>5, <2>6 DEF Wires
<1>2. CASE \E n \in Listed(v) : w = <<n, row[n]>>
  <2>1. PICK n \in Listed(v) : w = <<n, row[n]>>
    BY <1>2
  <2>2. <<n, row[n].dev>> \in Held(v) /\ n \in Nic /\ row[n] \in Row
    BY DEF Held, Listed, NicTyped
  <2>3. start.vm # v
    BY HeldFacts, NicConstants DEF DevicesHeld, NicControl, StartIdle
  <2>4. <<n, row[n].dev>>[2] \in host \cap Tap
    BY <2>2, <2>3 DEF DevicesHeld, HeldExist
  <2>. QED
    BY <2>1, <2>2, <2>4 DEF Wires
<1>3. CASE \E c \in Leaving(v) : w = <<c.nic, c.row>>
  <2>1. PICK c \in Leaving(v) : w = <<c.nic, c.row>>
    BY <1>3
  <2>2. <<c.nic, c.row.dev>> \in Held(v) /\ c.nic \in Nic /\ c.row \in Row
    BY DEF Held, Leaving, NicTyped, Copy
  <2>3. start.vm # v
    BY HeldFacts, NicConstants DEF DevicesHeld, NicControl, StartIdle, Leaving
  <2>4. <<c.nic, c.row.dev>>[2] \in host \cap Tap
    BY <2>2, <2>3 DEF DevicesHeld, HeldExist
  <2>. QED
    BY <2>1, <2>2, <2>4 DEF Wires
<1>. QED
  BY <1>1, <1>2, <1>3 DEF Wires, WiredNics

\* Connections are not disturbed when others are taken down.
LEMMA StillReachable ==
  ASSUME NEW r \in Row, Reachable(r), r.dev # None,
         r.limited => r.epair # None /\ r.bridge # None,
         NEW S, Lan \notin S, r.dev \notin S, r.limited => Inst(r) \cap S = {},
         NEW m, Member(r) # m,
         \A l \in link : l[1] \notin S /\ l[2] \notin S /\ l # <<Lan, m>> => l \in link'
  PROVE  Reachable(r)'
<1>1. <<Lan, Member(r)>> \in link'
  <2>1. Member(r) \notin S
    BY DEF Member, Inst
  <2>. QED
    BY <2>1 DEF Reachable
<1>2. r.limited => <<r.bridge, r.dev>> \in link' /\ <<r.bridge, r.epair>> \in link'
  <2>1. r.limited => r.bridge \notin S /\ r.epair \notin S /\ r.bridge # Lan
    BY NicConstants DEF Inst, Row
  <2>. QED
    BY <2>1 DEF Reachable
<1>. QED
  BY <1>1, <1>2 DEF Reachable

\* New members of bridges disturb nobody.
LEMMA MoreLinks ==
  ASSUME NEW r, Reachable(r), link \subseteq link'
  PROVE  Reachable(r)'
  BY DEF Reachable

\* The connections of a VM stay the same when its rows and its NetStop do.
LEMMA WiresSame ==
  ASSUME NEW v, WiredNics(v)' = WiredNics(v), \A n \in WiredNics(v) : row'[n] = row[n],
         Leaving(v)' = Leaving(v)
  PROVE  Wires(v)' = Wires(v)
<1>1. {<<n, row[n]>> : n \in WiredNics(v)}' = {<<n, row[n]>> : n \in WiredNics(v)}
  OBVIOUS
<1>2. {<<c.nic, c.row>> : c \in Leaving(v)}' = {<<c.nic, c.row>> : c \in Leaving(v)}
  OBVIOUS
<1>. QED
  BY <1>1, <1>2 DEF Wires

\* Steps that change no connection.
LEMMA WiresKept ==
  ASSUME WiresHeld, \A v \in VM : Wires(v)' = Wires(v) /\ Held(v) \subseteq Held(v)',
         host \subseteq host', link \subseteq link', LimitNamed', ConnectsOn',
         \A d \in host' \ host : \E v \in VM : \E a \in Held(v)' : a[2] = d
  PROVE  WiresHeld'
<1>1. WiresWhole'
  BY MoreLinks DEF WiresHeld, WiresWhole
<1>2. WiresApart'
  BY DEF WiresHeld, WiresApart
<1>3. HostNeeded'
  <2>1. ASSUME NEW d \in host
        PROVE  \E v \in VM : (\E a \in Held(v)' : a[2] = d) \/ (\E w \in Wires(v)' : d \in Inst(w[2]))
    BY DEF WiresHeld, HostNeeded
  <2>. QED
    BY <2>1 DEF HostNeeded
<1>. QED
  BY <1>1, <1>2, <1>3 DEF WiresHeld

-----------------------------------------------------------------------------
LimitOf(r) == Inst(r) # {} => r.limited

\* Only a NIC with a limit names an epair and a bridge: an RPC that would change that
\* rewires it.
LEMMA LimitCall ==
  ASSUME NicTyped, CopiesAsRead, LimitNamed, NEW o \in Call, CallStep(o),
         mishap' \cap {"stale", "rewired", "stolen", "window"} = {}
  PROVE  LimitNamed'
<1>0. row \in [Nic -> Row] /\ \A n \in Nic : LimitOf(row[n])
  BY DEF NicTyped, LimitNamed, LimitOf
<1>a. \A r \in Row : \A v : LimitOf(r) => LimitOf([r EXCEPT !.vm = v])
  BY DEF LimitOf, Inst, Row
<1>1. \A n \in Nic : LimitOf(row'[n])
  <2>1. ASSUME NEW m \in Nic, NEW r, row' \in {row, [row EXCEPT ![m] = r]}, LimitOf(r)
        PROVE  \A n \in Nic : LimitOf(row'[n])
    BY <1>0, <2>1
  <2>2. ASSUME NEW c \in call[o].todo, SaveNic(o, c) PROVE \A n \in Nic : LimitOf(row'[n])
    <3>1. c \in Copy /\ row[c.nic] = c.seen /\ c.nic \in Nic /\ c.seen \in Row
      BY <2>2, SaveNicSaves DEF Copy
    <3>2. row' \in {row, [row EXCEPT ![c.nic] = c.row]}
          /\ (Inst(row[c.nic]) # {} => c.row.limited = row[c.nic].limited)
      BY <1>0, <2>2, SaveNicSaves
    <3>3. c.row = [c.seen EXCEPT !.on = c.row.on, !.limited = c.row.limited]
      BY <2>2 DEF SaveNic, CopiesAsRead
    <3>. DEFINE on == c.row.on
                limited == c.row.limited
    <3>4. c.row = [c.seen EXCEPT !.on = on, !.limited = limited]
      BY <3>3
    <3>. HIDE DEF on, limited
    <3>5. [c.seen EXCEPT !.on = on, !.limited = limited].epair = c.seen.epair
          /\ [c.seen EXCEPT !.on = on, !.limited = limited].bridge = c.seen.bridge
      BY <3>1 DEF Row
    <3>6. Inst(c.row) = Inst(row[c.nic])
      BY <3>1, <3>4, <3>5 DEF Inst
    <3>7. LimitOf(c.row)
      BY <1>0, <3>1, <3>2, <3>6 DEF LimitOf
    <3>. QED
      BY <2>1, <3>1, <3>2, <3>7
  <2>3. ASSUME NEW c \in call[o].todo, RemoveNic(o, c) PROVE \A n \in Nic : LimitOf(row'[n])
    <3>1. c \in Copy /\ row[c.nic] = c.seen
          /\ row' = [row EXCEPT ![c.nic] = IF IsNic(c.nic) THEN [c.row EXCEPT !.vm = None] ELSE @]
      BY <2>3, RemoveNicSaves
    <3>2. c.nic \in Nic /\ c.row \in Row
      BY <3>1 DEF Copy
    <3>3. c.row = c.seen
      BY <2>3 DEF RemoveNic, CopiesAsRead
    <3>4. LimitOf([c.row EXCEPT !.vm = None])
      BY <1>0, <1>a, <3>1, <3>2, <3>3
    <3>5. row' \in {row, [row EXCEPT ![c.nic] = [c.row EXCEPT !.vm = None]]}
      BY <1>0, <3>1
    <3>. QED
      BY <2>1, <3>2, <3>4, <3>5
  <2>4. ASSUME NEW c \in call[o].todo, DeleteNic(o, c) PROVE \A n \in Nic : LimitOf(row'[n])
    <3>. DEFINE r == [row[c.nic] EXCEPT !.vm = "removed"]
    <3>1. c.nic \in Nic /\ row' = [row EXCEPT ![c.nic] = r]
      BY <2>4 DEF DeleteNic, NicTyped, Copy
    <3>2. LimitOf(r)
      BY <1>0, <1>a, <3>1
    <3>. HIDE DEF r
    <3>. QED
      BY <1>0, <3>1, <3>2
  <2>5. ASSUME NEW c \in call[o].todo, NEW m \in Nic, CreateClone(o, c, m)
        PROVE  \A n \in Nic : LimitOf(row'[n])
    <3>1. c.row \in Row /\ LimitOf(c.row)
      BY <2>5 DEF NicTyped, Copy, CreateClone, LimitNamed, LimitOf
    <3>2. LimitOf([c.row EXCEPT !.vm = None])
      BY <1>a, <3>1
    <3>3. row' \in {row, [row EXCEPT ![m] = [c.row EXCEPT !.vm = None]]}
      BY <1>0, <2>5 DEF CreateClone
    <3>. QED
      BY <2>1, <3>2, <3>3
  <2>6. ASSUME NEW n \in Nic, AttachNic(o, n) PROVE \A m \in Nic : LimitOf(row'[m])
    <3>. DEFINE r == [row[n] EXCEPT !.vm = call[o].vm]
    <3>1. row' = [row EXCEPT ![n] = r]
      BY <2>6, AttachNicSaves
    <3>2. LimitOf(r)
      BY <1>0, <1>a
    <3>. HIDE DEF r
    <3>. QED
      BY <1>0, <3>1, <3>2
  <2>7. CASE UNCHANGED row
    BY <1>0, <2>7
  <2>. QED
    BY <2>2, <2>3, <2>4, <2>5, <2>6, <2>7
       DEF CallStep, ReadNic, SetNics, CloneNic, ValidateNics, SetNicsReturns, RemoveVMNic
<1>2. ASSUME NEW p \in Call, NEW c \in call'[p].todo, call'[p].pc = "clone" PROVE LimitOf(c.row)
  <2>0. call \in [Call -> [pc : {"idle", "update", "remove", "attach", "clone", "delete"},
                           vm : VM \cup {None}, todo : SUBSET Copy, nics : SUBSET Nic]]
    BY DEF NicTyped
  <2>1. CASE call'[p] = call[p]
    BY <1>2, <2>1 DEF LimitNamed, LimitOf
  <2>2. CASE call'[p] # call[p]
    <3>1. p = o /\ \E x : Calling(o, x)
      BY <2>0, <2>2 DEF Calling, CallStep, ReadNic, SetNics, SaveNic, RemoveNic, DeleteNic, CreateClone,
                        CloneNic, ValidateNics, SetNicsReturns, AttachNic, RemoveVMNic
    <3>2. PICK x : Calling(o, x)
      BY <3>1
    <3>3. x = call'[o] /\ x.pc = "clone" /\ c \in x.todo
      BY <1>2, <2>0, <3>1, <3>2 DEF Calling
    <3>4. \A y : Calling(o, y) => y = x
      BY <2>0, <3>3 DEF Calling
    <3>5. PICK n \in Nic, m \in Nic : CloneNic(o, n, m)
      <4>1. ASSUME NEW n \in Nic, NEW on \in BOOLEAN, NEW limited \in BOOLEAN,
                   ReadNic(o, n, on, limited)
            PROVE  x.pc = "update"
        <5>1. \A T : [call[o] EXCEPT !.pc = "update", !.todo = T].pc = "update"
          BY <2>0
        <5>. QED
          BY <3>4, <4>1, <5>1 DEF ReadNic
      <4>2. ASSUME NEW n \in Nic, RemoveVMNic(o, n) PROVE x.pc = "delete"
        <5>1. \A T : [call[o] EXCEPT !.pc = "delete", !.todo = T].pc = "delete"
          BY <2>0
        <5>. QED
          BY <3>4, <4>2, <5>1 DEF RemoveVMNic
      <4>3. ASSUME NEW d \in call[o].todo, RemoveNic(o, d) PROVE x.pc = "remove"
        <5>1. \A T : [call[o] EXCEPT !.todo = T].pc = call[o].pc
          BY <2>0
        <5>. QED
          BY <3>4, <4>3, <5>1 DEF RemoveNic
      <4>4. ASSUME NEW n \in Nic, AttachNic(o, n) PROVE x.pc = "attach"
        <5>1. \A T : [call[o] EXCEPT !.nics = T].pc = call[o].pc
          BY <2>0
        <5>. QED
          BY <3>4, <4>4, <5>1 DEF AttachNic
      <4>5. ASSUME ValidateNics(o) \/ SetNicsReturns(o) PROVE x.pc \in {"attach", "idle"}
        <5>1. [call[o] EXCEPT !.pc = "attach"].pc = "attach" /\ CallIdle.pc = "idle"
          BY <2>0 DEF CallIdle
        <5>2. Calling(o, CallIdle) \/ Calling(o, [call[o] EXCEPT !.pc = "attach"])
          BY <4>5 DEF ValidateNics, SetNicsReturns
        <5>. QED
          BY <3>4, <5>1, <5>2
      <4>6. ASSUME NEW d \in call[o].todo, SaveNic(o, d) \/ DeleteNic(o, d) PROVE x.pc = "idle"
        BY <3>4, <4>6 DEF SaveNic, DeleteNic, CallIdle
      <4>7. ASSUME NEW d \in call[o].todo, NEW m \in Nic, CreateClone(o, d, m) PROVE x.pc = "idle"
        BY <3>4, <4>7 DEF CreateClone, CallIdle
      <4>8. ASSUME NEW v \in VM, NEW S \in SUBSET Nic, SetNics(o, v, S) PROVE x.pc = "remove"
        BY <3>4, <4>8 DEF SetNics
      <4>. QED
        BY <3>3, <4>1, <4>2, <4>3, <4>4, <4>5, <4>6, <4>7, <4>8 DEF CallStep
    <3>6. x = [call[o] EXCEPT !.pc = "clone", !.todo = {CopyOf(n)}, !.nics = {m}]
      BY <3>4, <3>5 DEF CloneNic
    <3>7. x.todo = {CopyOf(n)}
      BY <2>0, <3>6
    <3>. QED
      BY <1>0, <3>3, <3>7 DEF CopyOf
  <2>. QED
    BY <2>1, <2>2
<1>. QED
  BY <1>1, <1>2 DEF LimitNamed, LimitOf

\* A new row names no epair and no bridge.
LEMMA LimitAdd ==
  ASSUME NicTyped, LimitNamed, NEW n \in Nic, NEW r \in NewNics, AddVMNic(n, r)
  PROVE  LimitNamed'
<1>1. Inst(r) = {}
  <2>1. r.epair = None /\ r.bridge = None
    BY NicConstants
  <2>. QED
    BY <2>1 DEF Inst
<1>2. row' = [row EXCEPT ![n] = r] /\ row \in [Nic -> Row] /\ call' = call
  BY DEF AddVMNic, NicTyped
<1>3. ASSUME NEW m \in Nic, Inst(row'[m]) # {} PROVE row'[m].limited
  BY <1>1, <1>2, <1>3 DEF LimitNamed
<1>. QED
  BY <1>2, <1>3 DEF LimitNamed

\* Steps that change no row, and those that change one.
LEMMA LimitSame ==
  ASSUME LimitNamed, UNCHANGED <<row, call>>
  PROVE  LimitNamed'
  BY DEF LimitNamed

LEMMA LimitEdit ==
  ASSUME NicTyped, LimitNamed, NEW n \in Nic, NEW r, LimitOf(r), UNCHANGED call,
         \A m \in Nic : m # n => row'[m] = row[m], row'[n] \in {row[n], r}
  PROVE  LimitNamed'
<1>1. ASSUME NEW m \in Nic, Inst(row'[m]) # {} PROVE row'[m].limited
  BY <1>1 DEF LimitNamed, LimitOf
<1>. QED
  BY <1>1 DEF LimitNamed

\* While nothing has happened that weakens the guarantees, RPCs change no connection.
LEMMA WiresIdle ==
  ASSUME NicTyped, NicControl, CopiesAsRead, DevicesHeld, WiresHeld, PlumbedKept,
         UNCHANGED <<up, host, link, bhyve, start, stop>>, LimitNamed'
  PROVE  WiresHeld'
<1>1. ASSUME NEW v \in VM PROVE Wires(v)' = Wires(v)
  <2>1. Listed(v)' = Listed(v) /\ \A n \in Listed(v) : row'[n] = row[n]
    BY DEF Listed, PlumbedKept, Plumbed
  <2>2. \A n \in Nic : (IsWired(v, n)' <=> IsWired(v, n)) /\ (IsWired(v, n) => row'[n] = row[n])
    BY DEF IsWired, PlumbedKept, Plumbed
  <2>3. WiredNics(v)' = WiredNics(v) /\ \A n \in WiredNics(v) : row'[n] = row[n]
    BY <2>1, <2>2 DEF WiredNics
  <2>4. Leaving(v)' = Leaving(v)
    BY DEF Leaving
  <2>. QED
    BY <2>3, <2>4, WiresSame
<1>2. \A v \in VM : Held(v)' = Held(v)
  BY HeldKept
<1>3. ConnectsOn'
  BY DEF WiresHeld, ConnectsOn
<1>. QED
  BY <1>1, <1>2, <1>3, WiresKept

\* Start, Done and NetStop begin: the same connections for other reasons.
LEMMA WiresStart ==
  ASSUME NicTyped, NicControl, CopiesAsRead, DevicesNamed, DevicesHeld, WiresHeld,
         "restarted" \notin mishap', NEW v \in VM, NicStart(v)
  PROVE  WiresHeld'
<1>1. /\ start = StartIdle /\ start.vm = None /\ v \notin up
      /\ start'.vm = v /\ start'.pc = "args" /\ up' = up \cup {v}
      /\ UNCHANGED <<row, host, link, stop, call>>
  BY DEF NicStart, NicControl, StartIdle
<1>2. ASSUME NEW u \in VM PROVE Wires(u)' = Wires(u)
  <2>1. u # None
    BY NicConstants
  <2>2. \A n \in Nic : IsWired(u, n)' <=> IsWired(u, n)
    BY <1>1, <2>1 DEF IsWired
  <2>3. Listed(u)' = Listed(u) /\ Leaving(u)' = Leaving(u)
    BY <1>1 DEF Listed, Leaving
  <2>. QED
    BY <1>1, <2>2, <2>3, WiresSame DEF WiredNics
<1>3. \A u \in VM : Held(u)' = Held(u)
  BY HeldStart
<1>4. ConnectsOn' /\ LimitNamed'
  BY <1>1, LimitSame DEF WiresHeld, ConnectsOn
<1>. QED
  BY <1>1, <1>2, <1>3, <1>4, WiresKept

LEMMA WiresDone ==
  ASSUME NicTyped, NicControl, CopiesAsRead, DevicesNamed, DevicesHeld, WiresHeld,
         NEW v \in VM, NicDone(v)
  PROVE  WiresHeld'
<1>1. /\ v \in up /\ start.vm # v /\ stop[v].pc = "idle" /\ stop[v].todo = {}
      /\ up' = up \ {v} /\ UNCHANGED <<row, host, link, start, call>>
      /\ stop' = [stop EXCEPT ![v].pc = "list"]
  BY DEF NicDone, NicControl
<1>2. /\ stop'[v].pc = "list" /\ stop'[v].todo = {}
      /\ \A u \in VM \ {v} : stop'[u] = stop[u]
  BY <1>1 DEF NicTyped
<1>3. ASSUME NEW u \in VM PROVE Wires(u)' = Wires(u)
  <2>1. CASE u = v
    <3>1. \A n \in Nic : ~IsWired(v, n)' /\ (IsWired(v, n) <=> row[n].vm = v)
      BY <1>1 DEF IsWired
    <3>2. \A n \in Nic : n \notin Listed(v) /\ (n \in Listed(v)' <=> row[n].vm = v)
      BY <1>1, <1>2 DEF Listed
    <3>3. \A n : n \in WiredNics(v)' <=> n \in WiredNics(v)
      BY <3>1, <3>2 DEF WiredNics, Listed
    <3>4. WiredNics(v)' = WiredNics(v)
      BY <3>3
    <3>5. Leaving(v)' = Leaving(v)
      BY <1>1, <1>2 DEF Leaving
    <3>. QED
      BY <1>1, <2>1, <3>4, <3>5, WiresSame
  <2>2. CASE u # v
    <3>1. \A n \in Nic : IsWired(u, n)' <=> IsWired(u, n)
      BY <1>1, <2>2 DEF IsWired
    <3>2. Listed(u)' = Listed(u) /\ Leaving(u)' = Leaving(u)
      BY <1>1, <1>2, <2>2 DEF Listed, Leaving
    <3>. QED
      BY <1>1, <3>1, <3>2, WiresSame DEF WiredNics
  <2>. QED
    BY <2>1, <2>2
<1>4. \A u \in VM : Held(u)' = Held(u)
  BY HeldDone
<1>5. ConnectsOn' /\ LimitNamed'
  BY <1>1, LimitSame DEF WiresHeld, ConnectsOn
<1>. QED
  BY <1>1, <1>3, <1>4, <1>5, WiresKept

LEMMA WiresNetStop ==
  ASSUME NicTyped, NicControl, CopiesAsRead, DevicesNamed, DevicesHeld, WiresHeld,
         NEW v \in VM, NetStop(v)
  PROVE  WiresHeld'
<1>1. /\ stop[v].pc = "list" /\ stop[v].todo = {} /\ v \notin up
      /\ UNCHANGED <<up, row, host, link, bhyve, start, call>>
      /\ stop' = [stop EXCEPT ![v] = IF NicsOf(v) = {} THEN StopIdle
                                     ELSE [pc |-> "leave", todo |-> NicsOf(v)]]
  BY DEF NetStop, Stopping, NicControl, DevicesHeld, StoppedFirst
<1>2. stop'[v].pc \in {"idle", "leave"} /\ stop'[v].todo = NicsOf(v)
      /\ \A u \in VM \ {v} : stop'[u] = stop[u]
  BY <1>1 DEF StopIdle, NicTyped
<1>3. ASSUME NEW u \in VM PROVE Wires(u)' = Wires(u)
  <2>1. CASE u = v
    <3>1. \A n \in Nic : ~IsWired(v, n)' /\ ~IsWired(v, n)
      BY <1>1 DEF IsWired
    <3>2. Listed(v)' = {} /\ Listed(v) = {n \in Nic : row[n].vm = v}
      BY <1>1, <1>2 DEF Listed
    <3>3. WiredNics(v)' = {} /\ WiredNics(v) = {n \in Nic : row[n].vm = v}
      BY <3>1, <3>2 DEF WiredNics
    <3>4. Leaving(v)' = NicsOf(v) /\ Leaving(v) = {}
      BY <1>1, <1>2 DEF Leaving
    <3>5. {<<n, row[n]>> : n \in WiredNics(v)} = {<<c.nic, c.row>> : c \in NicsOf(v)}
      <4>1. NicsOf(v) = {CopyOf(n) : n \in WiredNics(v)}
        BY <3>3 DEF NicsOf
      <4>2. \A n : CopyOf(n).nic = n /\ CopyOf(n).row = row[n]
        BY DEF CopyOf
      <4>. QED
        BY <4>1, <4>2
    <3>6. {<<n, row'[n]>> : n \in WiredNics(v)'} = {} /\ {<<c.nic, c.row>> : c \in Leaving(v)} = {}
      BY <3>3, <3>4
    <3>7. {<<c.nic, c.row>> : c \in Leaving(v)'} = {<<c.nic, c.row>> : c \in NicsOf(v)}
      BY <3>4
    <3>. QED
      BY <2>1, <3>5, <3>6, <3>7 DEF Wires
  <2>2. CASE u # v
    <3>1. \A n \in Nic : IsWired(u, n)' <=> IsWired(u, n)
      BY <1>1 DEF IsWired
    <3>2. Listed(u)' = Listed(u) /\ Leaving(u)' = Leaving(u)
      BY <1>1, <1>2, <2>2 DEF Listed, Leaving
    <3>. QED
      BY <1>1, <3>1, <3>2, WiresSame DEF WiredNics
  <2>. QED
    BY <2>1, <2>2
<1>4. \A u \in VM : Held(u)' = Held(u)
  BY HeldNetStop
<1>5. ConnectsOn' /\ LimitNamed'
  BY <1>1, LimitSame DEF WiresHeld, ConnectsOn
<1>. QED
  BY <1>1, <1>3, <1>4, <1>5, WiresKept

LEMMA WiresNetStart ==
  ASSUME NicTyped, NicControl, CopiesAsRead, DevicesNamed, DevicesHeld, WiresHeld, NetStart
  PROVE  WiresHeld'
<1>1. /\ start.pc = "args" /\ start'.vm = start.vm /\ start'.pc = "build"
      /\ start'.todo = NicsOf(start.vm) /\ UNCHANGED <<up, row, host, link, stop, call>>
  BY DEF NetStart, NicTyped
<1>2. ASSUME NEW u \in VM PROVE Wires(u)' = Wires(u)
  <2>1. \A n \in Nic : IsWired(u, n)' <=> IsWired(u, n)
    <3>1. CASE u = start.vm
      <4>1. ASSUME NEW n \in Nic, row[n].vm = u PROVE \E c \in start'.todo : c.nic = n
        <5>1. CopyOf(n) \in start'.todo
          BY <1>1, <3>1, <4>1 DEF NicsOf
        <5>. QED
          BY <5>1 DEF CopyOf
      <4>. QED
        BY <1>1, <3>1, <4>1 DEF IsWired
    <3>2. CASE u # start.vm
      BY <1>1, <3>2 DEF IsWired
    <3>. QED
      BY <3>1, <3>2
  <2>2. Listed(u)' = Listed(u) /\ Leaving(u)' = Leaving(u)
    BY <1>1 DEF Listed, Leaving
  <2>. QED
    BY <1>1, <2>1, <2>2, WiresSame DEF WiredNics
<1>3. \A u \in VM : Held(u)' = Held(u)
  BY HeldNetStart
<1>4. ConnectsOn' /\ LimitNamed'
  BY <1>1, LimitSame DEF WiresHeld, ConnectsOn
<1>. QED
  BY <1>1, <1>2, <1>3, <1>4, WiresKept

LEMMA WiresLaunch ==
  ASSUME NicTyped, NicControl, CopiesAsRead, DevicesNamed, DevicesHeld, WiresHeld, Launch
  PROVE  WiresHeld'
<1>1. /\ start.pc = "build" /\ start.todo = {}
      /\ start'.vm = None /\ start'.pc = "idle" /\ UNCHANGED <<up, row, host, link, stop, call>>
  BY DEF Launch, StartIdle
<1>2. ASSUME NEW u \in VM PROVE Wires(u)' = Wires(u)
  <2>1. u # None
    BY NicConstants
  <2>2. \A n \in Nic : IsWired(u, n)' <=> IsWired(u, n)
    BY <1>1, <2>1 DEF IsWired
  <2>3. Listed(u)' = Listed(u) /\ Leaving(u)' = Leaving(u)
    BY <1>1 DEF Listed, Leaving
  <2>. QED
    BY <1>1, <2>2, <2>3, WiresSame DEF WiredNics
<1>3. \A u \in VM : Held(u)' = Held(u)
  BY HeldLaunch
<1>4. ConnectsOn' /\ LimitNamed'
  BY <1>1, LimitSame DEF WiresHeld, ConnectsOn
<1>. QED
  BY <1>1, <1>2, <1>3, <1>4, WiresKept

\* A new device in a row of the VM that is started, which is not connected yet.
LEMMA WiresPick ==
  ASSUME NicTyped, NicControl, CopiesAsRead, DevicesNamed, DevicesHeld, WiresHeld,
         "stale" \notin mishap', NEW c \in start.todo, NEW t \in Tap, PickDevice(c, t)
  PROVE  WiresHeld'
<1>1. /\ start.pc = "args" /\ start'.pc = "args" /\ start'.vm = start.vm
      /\ UNCHANGED <<up, host, link, stop, call>>
  BY DEF PickDevice, NicTyped
<1>2. ASSUME NEW u \in VM PROVE Wires(u)' = Wires(u)
  <2>1. CASE u = start.vm
    <3>1. \A n \in Nic : ~IsWired(u, n)' /\ ~IsWired(u, n)
      BY <1>1, <2>1 DEF IsWired
    <3>2. stop[u].pc = "idle"
      BY <2>1, HeldPick DEF DevicesHeld, StoppedFirst
    <3>3. WiredNics(u)' = {} /\ WiredNics(u) = {}
      BY <1>1, <3>1, <3>2 DEF WiredNics, Listed
    <3>4. Leaving(u)' = Leaving(u)
      BY <1>1 DEF Leaving
    <3>. QED
      BY <3>3, <3>4, WiresSame
  <2>2. CASE u # start.vm
    <3>1. Listed(u)' = Listed(u)
      BY <2>2, HeldPick
    <3>2. \A n \in Nic : IsWired(u, n)' <=> IsWired(u, n)
      BY <1>1, <2>2, HeldPick DEF IsWired
    <3>3. WiredNics(u)' = WiredNics(u)
      BY <3>1, <3>2 DEF WiredNics
    <3>4. \A n \in WiredNics(u) : row'[n] = row[n]
      BY <2>2, HeldPick DEF WiredNics, IsWired, Listed
    <3>5. Leaving(u)' = Leaving(u)
      BY <1>1 DEF Leaving
    <3>. QED
      BY <3>3, <3>4, <3>5, WiresSame
  <2>. QED
    BY <2>1, <2>2
<1>3. LimitNamed'
  <2>1. c.nic \in Nic /\ c.row \in Row /\ row \in [Nic -> Row]
    BY DEF NicTyped, Copy
  <2>2. row[c.nic] = c.row /\ row' = [row EXCEPT ![c.nic] = [c.row EXCEPT !.dev = t]]
    BY NamedPick
  <2>. DEFINE r == [c.row EXCEPT !.dev = t]
  <2>3. LimitOf(c.row)
    BY <2>1, <2>2 DEF WiresHeld, LimitNamed, LimitOf
  <2>4. LimitOf(r)
    BY <2>1, <2>3 DEF LimitOf, Inst, Row
  <2>5. row' = [row EXCEPT ![c.nic] = r]
    BY <2>2
  <2>. HIDE DEF r
  <2>. QED
    BY <1>1, <2>1, <2>4, <2>5, LimitEdit DEF WiresHeld
<1>4. \A u \in VM : Held(u) \subseteq Held(u)'
  BY HeldPick
<1>5. ConnectsOn'
  BY <1>1 DEF ConnectsOn
<1>. QED
  BY <1>1, <1>2, <1>3, <1>4, <1>5, WiresKept

\* A device that is not connected to anything yet. If its NIC has no switch it never will be.
LEMMA WiresBuild ==
  ASSUME NicTyped, NicControl, CopiesAsRead, DevicesNamed, DevicesHeld, WiresHeld,
         NEW c \in start.todo, Build(c)
  PROVE  WiresHeld'
<1>1. start.pc = "build" /\ IsNext(c, start.todo) /\ UNCHANGED <<up, row, link, bhyve, stop, call>>
  BY DEF Build
<1>2. /\ <<c.nic, c.row.dev>> \in start.args /\ c.row.dev \in Tap \ host
      /\ start.vm \in VM /\ start.vm \in up /\ c.nic \in Nic /\ c.row = row[c.nic]
  BY <1>1, CopyIsArg, HeldBuild
<1>3. /\ start'.vm = start.vm /\ host' = host \cup {c.row.dev}
      /\ \/ c.row.on /\ start'.pc = "connect" /\ start'.todo = start.todo
         \/ ~c.row.on /\ start'.pc = "build" /\ start'.todo = start.todo \ {c}
  BY <1>1, <1>2 DEF Build, NicTyped
<1>4. ASSUME NEW u \in VM PROVE Wires(u)' = Wires(u)
  <2>1. \A n \in Nic : n # c.nic \/ c.row.on => (IsWired(u, n)' <=> IsWired(u, n))
    BY <1>1, <1>3 DEF IsWired
  <2>2. Listed(u)' = Listed(u) /\ Leaving(u)' = Leaving(u)
    BY <1>1 DEF Listed, Leaving
  <2>3. \A n \in Nic : row[n].on => (n \in WiredNics(u)' <=> n \in WiredNics(u))
    BY <1>2, <2>1, <2>2 DEF WiredNics
  <2>4. \A n \in WiredNics(u) \cup WiredNics(u)' : n \in Nic
    BY DEF WiredNics, Listed
  <2>5. {w \in {<<n, row[n]>> : n \in WiredNics(u)'} : w[2].on}
          = {w \in {<<n, row[n]>> : n \in WiredNics(u)} : w[2].on}
    BY <2>3, <2>4
  <2>. QED
    BY <1>1, <2>2, <2>5 DEF Wires
<1>5. \A u \in VM : Held(u)' = Held(u)
  BY HeldBuild
<1>6. ASSUME NEW u \in VM, u = start.vm PROVE <<c.nic, c.row.dev>> \in Held(u)'
  BY <1>2, <1>5, <1>6 DEF Held, ArgsOf
<1>7. ConnectsOn'
  BY <1>1, <1>3, NextCopy DEF ConnectsOn
<1>8. LimitNamed'
  BY <1>1, LimitSame DEF WiresHeld
<1>9. \A d \in host' \ host : \E v \in VM : \E a \in Held(v)' : a[2] = d
  <2>1. <<c.nic, c.row.dev>>[2] = c.row.dev
    OBVIOUS
  <2>2. ASSUME NEW u \in VM, u = start.vm PROVE \E a \in Held(u)' : a[2] = c.row.dev
    BY <1>6, <2>1, <2>2
  <2>. QED
    BY <1>2, <1>3, <2>2
<1>. QED
  BY <1>1, <1>3, <1>4, <1>5, <1>7, <1>8, <1>9, WiresKept

\* The end of a connection: one more NIC of the VM is connected.
LEMMA WiresConnected ==
  ASSUME NicTyped, NicControl, CopiesAsRead, DevicesNamed, DevicesHeld,
         NEW c \in start.todo, start.pc = "connect", IsNext(c, start.todo), Connected(c),
         \A n \in Nic : n # c.nic => row'[n] = row[n],
         row'[c.nic].vm = c.row.vm, row'[c.nic].dev = c.row.dev, row'[c.nic].on,
         \A t \in Tap : t \in host' <=> t \in host,
         NEW u \in VM
  PROVE  Wires(u)' = Wires(u) \cup IF u = start.vm THEN {<<c.nic, row'[c.nic]>>} ELSE {}
<1>1. /\ c.nic \in Nic /\ c.row = row[c.nic] /\ c.row.vm = start.vm
      /\ start.vm \in VM /\ start.vm \in up
  BY CopyIsArg
<1>2. /\ start'.vm = start.vm /\ start'.pc = "build"
      /\ start'.todo = start.todo \ {c} /\ UNCHANGED <<up, bhyve, stop>>
  BY DEF Connected, NicTyped
<1>3. Listed(u)' = Listed(u) /\ Leaving(u)' = Leaving(u)
  BY <1>2, HeldConnected DEF Leaving
<1>4. \A n \in Nic : n # c.nic => (IsWired(u, n)' <=> IsWired(u, n))
  BY <1>2 DEF IsWired
<1>5. ~IsWired(u, c.nic) /\ (IsWired(u, c.nic)' <=> u = start.vm)
  <2>1. \A d \in start.todo \ {c} : d.nic # c.nic
    BY NextCopy
  <2>. QED
    BY <1>1, <1>2, <2>1 DEF IsWired
<1>6. c.nic \notin Listed(u)
  BY <1>1 DEF Listed, DevicesHeld, StoppedFirst
<1>7. WiredNics(u)' = WiredNics(u) \cup IF u = start.vm THEN {c.nic} ELSE {}
  BY <1>1, <1>3, <1>4, <1>5 DEF WiredNics
<1>8. c.nic \notin WiredNics(u)
  BY <1>5, <1>6 DEF WiredNics
<1>9. \A n \in WiredNics(u) : n \in Nic /\ row'[n] = row[n]
  BY <1>8 DEF WiredNics, Listed
<1>10. {<<n, row[n]>> : n \in WiredNics(u)}'
         = {<<n, row[n]>> : n \in WiredNics(u)} \cup IF u = start.vm THEN {<<c.nic, row'[c.nic]>>} ELSE {}
  <2>1. CASE u = start.vm
    <3>1. \A n : n \in WiredNics(u)' <=> n \in WiredNics(u) \/ n = c.nic
      BY <1>7, <2>1
    <3>2. \A w : w \in {<<n, row[n]>> : n \in WiredNics(u)}'
                 <=> w \in {<<n, row[n]>> : n \in WiredNics(u)} \/ w = <<c.nic, row'[c.nic]>>
      BY <1>9, <3>1
    <3>. QED
      BY <2>1, <3>2
  <2>2. CASE u # start.vm
    <3>1. WiredNics(u)' = WiredNics(u)
      BY <1>7, <2>2
    <3>. QED
      BY <1>9, <2>2, <3>1
  <2>. QED
    BY <2>1, <2>2
<1>11. <<c.nic, row'[c.nic]>>[2].on
  OBVIOUS
<1>. QED
  BY <1>3, <1>10, <1>11 DEF Wires

\* netStart is at the next NIC.
LEMMA ConnectsOnAfter ==
  ASSUME NEW c, Connected(c), NicTyped
  PROVE  ConnectsOn'
<1>1. start'.pc = "build"
  BY DEF Connected, NicTyped
<1>. QED
  BY <1>1 DEF ConnectsOn

\* A device joins the switch.
LEMMA WiresJoin ==
  ASSUME NicTyped, NicControl, CopiesAsRead, DevicesNamed, DevicesHeld, WiresHeld,
         NEW c \in start.todo, JoinDevice(c)
  PROVE  WiresHeld'
<1>1. /\ start.pc = "connect" /\ IsNext(c, start.todo) /\ Connected(c) /\ ~c.row.limited
      /\ link' = link \cup {<<Lan, c.row.dev>>} /\ UNCHANGED <<row, host, mishap, call>>
  BY DEF JoinDevice, Connected
<1>2. c.nic \in Nic /\ c.row = row[c.nic] /\ c.row.on
  BY <1>1, CopyIsArg DEF WiresHeld, ConnectsOn
<1>. DEFINE new == <<c.nic, c.row>>
<1>3. \A u \in VM : Wires(u)' = Wires(u) \cup IF u = start.vm THEN {new} ELSE {}
  BY <1>1, <1>2, WiresConnected
<1>4. new[2] = c.row
  OBVIOUS
<1>5. Inst(new[2]) = {} /\ ~new[2].limited
  BY <1>1, <1>2, <1>4 DEF WiresHeld, LimitNamed
<1>6. Reachable(new[2])'
  BY <1>1, <1>4 DEF Reachable, Member
<1>7. \A u \in VM : Held(u)' = Held(u)
  BY <1>1, <1>2, HeldConnected
<1>. HIDE DEF new
<1>8. ASSUME NEW u \in VM, NEW w \in Wires(u)'
      PROVE  w \in Wires(u) \/ w = new
  BY <1>3, <1>8
<1>9. WiresWhole'
  <2>1. ASSUME NEW u \in VM, NEW w \in Wires(u) PROVE Reachable(w[2])'
    BY <1>1, <2>1, MoreLinks DEF WiresHeld, WiresWhole
  <2>2. ASSUME NEW u \in VM, NEW w \in Wires(u)
        PROVE  /\ w[2].limited => w[2].epair # None /\ w[2].bridge # None
               /\ Inst(w[2]) # {} => w[2].limited
               /\ Inst(w[2]) \subseteq host'
    BY <1>1, <2>2 DEF WiresHeld, WiresWhole
  <2>3. ASSUME NEW u \in VM, NEW w \in Wires(u)'
        PROVE  /\ Reachable(w[2])'
               /\ w[2].limited => w[2].epair # None /\ w[2].bridge # None
               /\ Inst(w[2]) # {} => w[2].limited
               /\ Inst(w[2]) \subseteq host'
    <3>1. CASE w \in Wires(u)
      BY <2>1, <2>2, <3>1
    <3>2. CASE w = new
      BY <1>5, <1>6, <3>2
    <3>. QED
      BY <1>8, <2>3, <3>1, <3>2
  <2>. QED
    BY <2>3 DEF WiresWhole
<1>10. WiresApart'
  BY <1>5, <1>8 DEF WiresHeld, WiresApart
<1>11. HostNeeded'
  BY <1>1, <1>3, <1>7 DEF WiresHeld, HostNeeded
<1>12. LimitNamed' /\ ConnectsOn'
  BY <1>1, LimitSame, ConnectsOnAfter DEF WiresHeld
<1>. QED
  BY <1>9, <1>10, <1>11, <1>12 DEF WiresHeld

\* A new epair and a new bridge for a NIC with a limit: no other NIC has one of them.
LEMMA WiresJoinLimited ==
  ASSUME NicTyped, NicControl, CopiesAsRead, DevicesNamed, DevicesHeld, WiresHeld,
         NEW c \in start.todo, NEW e \in Epair, NEW b \in Bridge, JoinLimited(c, e, b)
  PROVE  WiresHeld'
<1>. DEFINE r == [c.row EXCEPT !.epair = e, !.bridge = b]
            new == <<c.nic, r>>
<1>1. /\ start.pc = "connect" /\ IsNext(c, start.todo) /\ Connected(c) /\ c.row.limited
      /\ e \notin host /\ b \notin host /\ host' = host \cup {e, b}
      /\ link' = link \cup {<<b, e>>, <<b, c.row.dev>>, <<Lan, e>>} /\ UNCHANGED call
  BY DEF JoinLimited, Connected, IsFree
<1>2. /\ c.nic \in Nic /\ c.row = row[c.nic] /\ c.row.on /\ c.row \in Row /\ c \in Copy
      /\ c.row.vm = start.vm /\ start.vm \in VM
  BY <1>1, CopyIsArg DEF WiresHeld, ConnectsOn, NicTyped
<1>3. /\ r.vm = c.row.vm /\ r.dev = c.row.dev /\ r.on = c.row.on /\ r.limited = c.row.limited
      /\ r.epair = e /\ r.bridge = b /\ r \in Row
  BY <1>2 DEF Row
<1>4. row' = [row EXCEPT ![c.nic] = r] /\ row \in [Nic -> Row]
  <2>1. IsNic(c.nic)
    BY <1>2, NicConstants DEF IsNic
  <2>2. row' = [row EXCEPT ![c.nic] = IF IsNic(c.nic) THEN [c.row EXCEPT !.epair = e, !.bridge = b] ELSE @]
    BY <1>2, JoinLimitedSaves
  <2>. QED
    BY <2>1, <2>2 DEF NicTyped, r
<1>5. new = <<c.nic, r>> /\ new[2] = r
  OBVIOUS
<1>. HIDE DEF r, new
<1>6. row'[c.nic] = r /\ \A n \in Nic : n # c.nic => row'[n] = row[n]
  BY <1>2, <1>4
<1>7. \A t \in Tap : t \in host' <=> t \in host
  BY <1>1, DeviceKinds
<1>8. \A u \in VM : Wires(u)' = Wires(u) \cup IF u = start.vm THEN {new} ELSE {}
  BY <1>1, <1>2, <1>3, <1>5, <1>6, <1>7, WiresConnected
<1>9. \A u \in VM : Held(u)' = Held(u)
  BY <1>1, <1>3, <1>6, <1>7, HeldConnected
<1>10. e # None /\ b # None
  BY NicConstants
<1>11. Inst(new[2]) = {e, b} /\ new[2].limited
  BY <1>1, <1>3, <1>5, <1>10 DEF Inst
<1>12. Reachable(new[2])'
  BY <1>1, <1>3, <1>5 DEF Reachable, Member
<1>13. ASSUME NEW u \in VM, NEW w \in Wires(u)'
       PROVE  w \in Wires(u) \/ (w = new /\ u = start.vm)
  BY <1>8, <1>13
<1>14. ASSUME NEW u \in VM, NEW w \in Wires(u)
       PROVE  Inst(w[2]) \cap {e, b} = {} /\ Inst(w[2]) \subseteq host
  BY <1>1, <1>14 DEF WiresHeld, WiresWhole
<1>15. WiresWhole'
  <2>1. ASSUME NEW u \in VM, NEW w \in Wires(u) PROVE Reachable(w[2])'
    BY <1>1, <2>1, MoreLinks DEF WiresHeld, WiresWhole
  <2>2. ASSUME NEW u \in VM, NEW w \in Wires(u)
        PROVE  /\ w[2].limited => w[2].epair # None /\ w[2].bridge # None
               /\ Inst(w[2]) # {} => w[2].limited
               /\ Inst(w[2]) \subseteq host'
    BY <1>1, <2>2 DEF WiresHeld, WiresWhole
  <2>3. new[2].epair # None /\ new[2].bridge # None /\ Inst(new[2]) \subseteq host'
    BY <1>1, <1>3, <1>5, <1>10, <1>11
  <2>. QED
    BY <1>11, <1>12, <1>13, <2>1, <2>2, <2>3 DEF WiresWhole
<1>16. WiresApart'
  <2>1. ASSUME NEW u \in VM, NEW v \in VM, NEW w \in Wires(u)', NEW x \in Wires(v)',
               Inst(w[2]) \cap Inst(x[2]) # {}
        PROVE  u = v /\ w = x
    <3>1. w \in Wires(u) \/ (w = new /\ u = start.vm)
      BY <1>13
    <3>2. x \in Wires(v) \/ (x = new /\ v = start.vm)
      BY <1>13
    <3>. QED
      BY <1>11, <1>14, <2>1, <3>1, <3>2 DEF WiresHeld, WiresApart
  <2>. QED
    BY <2>1 DEF WiresApart
<1>17. HostNeeded'
  <2>1. ASSUME NEW d \in host
        PROVE  \E v \in VM : (\E a \in Held(v)' : a[2] = d) \/ (\E w \in Wires(v)' : d \in Inst(w[2]))
    BY <1>8, <1>9 DEF WiresHeld, HostNeeded
  <2>2. \A v \in VM : v = start.vm => new \in Wires(v)'
    BY <1>8
  <2>3. \E v \in VM : new \in Wires(v)'
    BY <1>2, <2>2
  <2>. QED
    BY <1>1, <1>11, <2>1, <2>3 DEF HostNeeded
<1>18. LimitNamed'
  <2>1. LimitOf(r)
    BY <1>1, <1>3 DEF LimitOf
  <2>. QED
    BY <1>1, <1>2, <1>6, <2>1, LimitEdit DEF WiresHeld
<1>. QED
  BY <1>1, <1>15, <1>16, <1>17, <1>18, ConnectsOnAfter DEF WiresHeld

\* Two connections have nothing in common but the switch.
LEMMA WiresDiffer ==
  ASSUME NicTyped, NicControl, CopiesAsRead, DevicesNamed, DevicesHeld, WiresHeld,
         NEW u \in VM, NEW v \in VM, NEW w \in Wires(u), NEW c \in stop[v].todo,
         ~(u = v /\ w[1] = c.nic)
  PROVE  /\ w[2].dev # c.row.dev /\ w[2].dev \in Tap /\ w[2] \in Row
         /\ w[2].limited => w[2].epair # None /\ w[2].epair \in Epair
         /\ <<c.nic, c.row>> \in Wires(v) =>
              /\ Inst(w[2]) \cap Inst(c.row) = {}
              /\ Member(w[2]) # Member(c.row)
<1>1. w = <<w[1], w[2]>> /\ w[2].dev \in host \cap Tap /\ <<w[1], w[2].dev>> \in Held(u) /\ w[2] \in Row
  BY WireFacts
<1>2. <<c.nic, c.row.dev>> \in Held(v)
  BY DEF Held
<1>3. <<w[1], w[2].dev>>[2] = w[2].dev /\ <<c.nic, c.row.dev>>[2] = c.row.dev
      /\ <<w[1], w[2].dev>>[1] = w[1] /\ <<c.nic, c.row.dev>>[1] = c.nic
  OBVIOUS
<1>4. w[2].dev # c.row.dev
  BY <1>1, <1>2, <1>3 DEF DevicesHeld, HeldApart
<1>5. w[2].limited => w[2].epair # None /\ w[2].epair \in Epair
  BY <1>1 DEF WiresHeld, WiresWhole, Row
<1>6. ASSUME <<c.nic, c.row>> \in Wires(v)
      PROVE  Inst(w[2]) \cap Inst(c.row) = {} /\ Member(w[2]) # Member(c.row)
  <2>. DEFINE x == <<c.nic, c.row>>
  <2>1. x[1] = c.nic /\ x[2] = c.row /\ x \in Wires(v)
    BY <1>6
  <2>. HIDE DEF x
  <2>2. Inst(w[2]) \cap Inst(c.row) = {}
    BY <2>1 DEF WiresHeld, WiresApart
  <2>3. c.row.dev \in Tap /\ c.row \in Row
    BY <2>1, WireFacts
  <2>4. c.row.limited => c.row.epair # None /\ c.row.epair \in Epair
    BY <2>1, <2>3 DEF WiresHeld, WiresWhole, Row
  <2>5. Member(w[2]) # Member(c.row)
    <3>1. CASE w[2].limited /\ c.row.limited
      BY <1>5, <2>2, <2>4, <3>1 DEF Inst, Member
    <3>2. CASE ~(w[2].limited /\ c.row.limited)
      BY <1>1, <1>4, <1>5, <2>3, <2>4, <3>2, DeviceKinds DEF Member
    <3>. QED
      BY <3>1, <3>2
  <2>. QED
    BY <2>2, <2>5
<1>. QED
  BY <1>1, <1>4, <1>5, <1>6

\* There is one next copy of a NetStop, and one copy of a NIC.
LEMMA NextLeaving ==
  ASSUME NicTyped, CopiesAsRead, NEW v \in VM, NEW c \in stop[v].todo, IsNext(c, stop[v].todo),
         NEW d \in stop[v].todo
  PROVE  (IsNext(d, stop[v].todo) => d = c) /\ (d.nic = c.nic => d = c)
<1>1. d.nic = c.nic => d = c
  BY DEF CopiesAsRead, AsRead
<1>2. c.nic \in Nat /\ d.nic \in Nat
  <2>1. c \in Copy /\ d \in Copy
    BY DEF NicTyped
  <2>. QED
    BY <2>1, NicConstants DEF Copy
<1>3. IsNext(d, stop[v].todo) => d.nic = c.nic
  BY <1>2 DEF IsNext
<1>. QED
  BY <1>1, <1>3

\* What a NetStop that is under way has yet to disconnect.
LEMMA WiresOfStopped ==
  ASSUME NicTyped, NicControl, DevicesHeld, NEW v \in VM, stop[v].pc \in {"leave", "demolish"}
  PROVE  /\ v \notin up /\ WiredNics(v) = {}
         /\ \A w : w \in Wires(v) <=> w[2].on /\ \E d \in Leaving(v) : w = <<d.nic, d.row>>
<1>1. v \notin up
  BY DEF DevicesHeld, StoppedFirst
<1>2. WiredNics(v) = {}
  BY <1>1 DEF WiredNics, IsWired, Listed
<1>. QED
  BY <1>1, <1>2 DEF Wires

\* The device that is destroyed is held by this NIC only, so no connection has it.
LEMMA WiresDemolish ==
  ASSUME NicTyped, NicControl, CopiesAsRead, DevicesNamed, DevicesHeld, WiresHeld,
         NEW v \in VM, NEW c \in stop[v].todo, Demolish(v, c)
  PROVE  WiresHeld'
<1>1. /\ stop[v].pc = "demolish" /\ IsNext(c, stop[v].todo)
      /\ host' = host \ {c.row.dev} /\ link' = Without(link, {c.row.dev})
      /\ UNCHANGED <<up, row, start, call>>
  BY DEF Demolish
<1>2. /\ stop'[v].todo = stop[v].todo \ {c} /\ stop'[v].pc \in {"leave", "idle"}
      /\ \A u \in VM \ {v} : stop'[u] = stop[u]
  BY DEF Demolish, Stopping, StopIdle, NicTyped
<1>3. Leaving(v) = stop[v].todo \ {c} /\ Leaving(v)' = stop[v].todo \ {c}
  BY <1>1, <1>2, NextLeaving DEF Leaving
<1>4. ASSUME NEW u \in VM PROVE Wires(u)' = Wires(u)
  <2>1. Listed(u)' = Listed(u)
    BY <1>1, <1>2 DEF Listed
  <2>2. \A n \in Nic : IsWired(u, n)' <=> IsWired(u, n)
    BY <1>1 DEF IsWired
  <2>3. Leaving(u)' = Leaving(u)
    BY <1>2, <1>3 DEF Leaving
  <2>. QED
    BY <1>1, <2>1, <2>2, <2>3, WiresSame DEF WiredNics
<1>5. ASSUME NEW u \in VM, NEW w \in Wires(u) PROVE ~(u = v /\ w[1] = c.nic)
  <2>1. CASE u = v
    <3>1. PICK d \in Leaving(v) : w = <<d.nic, d.row>>
      BY <1>1, <1>5, <2>1, WiresOfStopped
    <3>. QED
      BY <1>1, <1>3, <3>1, NextLeaving
  <2>. QED
    BY <2>1
<1>6. c.row.dev \in Tap
  BY HeldDemolish
<1>7. ASSUME NEW u \in VM, NEW w \in Wires(u)
      PROVE  /\ Reachable(w[2])'
             /\ w[2].limited => w[2].epair # None /\ w[2].bridge # None
             /\ Inst(w[2]) # {} => w[2].limited
             /\ Inst(w[2]) \subseteq host'
  <2>1. /\ w[2].dev # c.row.dev /\ w[2].dev \in Tap /\ w[2] \in Row
        /\ w[2].limited => w[2].epair # None /\ w[2].epair \in Epair
    <3>1. ~(u = v /\ w[1] = c.nic)
      BY <1>5
    <3>. QED
      BY <3>1, WiresDiffer
  <2>2. /\ Reachable(w[2])
        /\ w[2].limited => w[2].epair # None /\ w[2].bridge # None
        /\ Inst(w[2]) # {} => w[2].limited
        /\ Inst(w[2]) \subseteq host
    BY DEF WiresHeld, WiresWhole
  <2>3. Inst(w[2]) \subseteq Epair \cup Bridge
    BY <2>1 DEF Inst, Row
  <2>4. c.row.dev \notin Inst(w[2]) /\ Lan # c.row.dev /\ w[2].dev # None
    BY <1>6, <2>1, <2>3, DeviceKinds, NicConstants
  <2>5. Member(w[2]) # c.row.dev
    BY <1>6, <2>1, DeviceKinds DEF Member
  <2>6. Reachable(w[2])'
    <3>. DEFINE S == {c.row.dev}
    <3>1. Lan \notin S /\ w[2].dev \notin S /\ (w[2].limited => Inst(w[2]) \cap S = {})
      BY <2>1, <2>4
    <3>2. \A l \in link : l[1] \notin S /\ l[2] \notin S => l \in link'
      BY <1>1 DEF Without
    <3>. HIDE DEF S
    <3>. QED
      BY <2>1, <2>2, <2>4, <2>5, <3>1, <3>2, StillReachable
  <2>. QED
    BY <1>1, <2>2, <2>4, <2>6
<1>8. WiresWhole' /\ WiresApart'
  BY <1>4, <1>7, SMTT(30) DEF WiresHeld, WiresWhole, WiresApart
<1>9. HostNeeded'
  <2>1. ASSUME NEW d \in host'
        PROVE  \E u \in VM : (\E a \in Held(u)' : a[2] = d) \/ (\E w \in Wires(u)' : d \in Inst(w[2]))
    <3>1. d \in host /\ d # c.row.dev
      BY <1>1
    <3>2. PICK u \in VM : (\E a \in Held(u) : a[2] = d) \/ (\E w \in Wires(u) : d \in Inst(w[2]))
      BY <3>1 DEF WiresHeld, HostNeeded
    <3>3. ASSUME NEW a \in Held(u), a[2] = d PROVE a \in Held(u)'
      <4>1. CASE u = v
        <5>1. Held(v)' = Held(v) \ {<<c.nic, c.row.dev>>}
          BY HeldDemolish
        <5>2. a # <<c.nic, c.row.dev>>
          BY <3>1, <3>3
        <5>. QED
          BY <3>3, <4>1, <5>1, <5>2
      <4>2. CASE u # v
        <5>1. Held(u)' = Held(u)
          BY <4>2, HeldDemolish
        <5>. QED
          BY <3>3, <5>1
      <4>. QED
        BY <4>1, <4>2
    <3>. QED
      BY <1>4, <3>2, <3>3
  <2>. QED
    BY <2>1 DEF HostNeeded
<1>10. ConnectsOn' /\ LimitNamed'
  BY <1>1, LimitSame DEF WiresHeld, ConnectsOn
<1>. QED
  BY <1>8, <1>9, <1>10 DEF WiresHeld

\* NetStop disconnects one NIC: what it destroys belongs to no other.
LEMMA WiresDisconnect ==
  ASSUME NicTyped, NicControl, CopiesAsRead, DevicesNamed, DevicesHeld, WiresHeld,
         "stale" \notin mishap', NEW v \in VM, NEW c \in stop[v].todo, Disconnect(v, c)
  PROVE  WiresHeld'
<1>. DEFINE gone == <<c.nic, c.row>>
            inst == Inst(c.row)
<1>1. /\ stop[v].pc = "leave" /\ IsNext(c, stop[v].todo)
      /\ stop' = [stop EXCEPT ![v].pc = "demolish"]
      /\ UNCHANGED <<up, start, call>>
  BY DEF Disconnect
<1>2. /\ stop'[v].todo = stop[v].todo /\ stop'[v].pc = "demolish"
      /\ \A u \in VM \ {v} : stop'[u] = stop[u]
  BY <1>1 DEF NicTyped
<1>3. Leaving(v) = stop[v].todo /\ Leaving(v)' = stop[v].todo \ {c}
  <2>1. Leaving(v) = stop[v].todo
    BY <1>1 DEF Leaving
  <2>2. \A d \in stop[v].todo : IsNext(d, stop[v].todo) <=> d = c
    BY <1>1, NextLeaving
  <2>. QED
    BY <1>2, <2>1, <2>2 DEF Leaving
<1>4. PlumbedKept /\ \A u \in VM : Held(u)' = Held(u)
  BY HeldDisconnect
<1>5. v \notin up /\ WiredNics(v) = {}
      /\ \A w : w \in Wires(v) <=> w[2].on /\ \E d \in Leaving(v) : w = <<d.nic, d.row>>
  BY <1>1, WiresOfStopped
<1>g. gone[1] = c.nic /\ gone[2] = c.row
  OBVIOUS
<1>6. gone \in Wires(v) <=> c.row.on
  BY <1>3, <1>5
<1>. HIDE DEF gone
<1>7. ASSUME NEW u \in VM PROVE Wires(u)' = IF u = v THEN Wires(u) \ {gone} ELSE Wires(u)
  <2>1. Listed(u)' = Listed(u) /\ \A n \in Listed(u) : row'[n] = row[n]
    BY <1>1, <1>2, <1>4 DEF Listed, PlumbedKept, Plumbed
  <2>2. \A n \in Nic : (IsWired(u, n)' <=> IsWired(u, n)) /\ (IsWired(u, n) => row'[n] = row[n])
    BY <1>1, <1>4 DEF IsWired, PlumbedKept, Plumbed
  <2>3. WiredNics(u)' = WiredNics(u) /\ \A n \in WiredNics(u) : row'[n] = row[n]
    BY <2>1, <2>2 DEF WiredNics
  <2>4. CASE u # v
    <3>1. Leaving(u)' = Leaving(u)
      BY <1>2, <2>4 DEF Leaving
    <3>. QED
      BY <2>3, <2>4, <3>1, WiresSame
  <2>5. CASE u = v
    <3>1. WiredNics(v)' = {}
      BY <1>5, <2>3, <2>5
    <3>2. \A w : w \in Wires(v)' <=> w[2].on /\ \E d \in stop[v].todo \ {c} : w = <<d.nic, d.row>>
      BY <1>3, <3>1 DEF Wires
    <3>3. \A d \in stop[v].todo : <<d.nic, d.row>> = gone <=> d = c
      BY <1>1, <1>g, NextLeaving DEF gone
    <3>4. \A w : w \in Wires(v)' <=> w \in Wires(v) /\ w # gone
      BY <1>3, <1>5, <3>2, <3>3
    <3>. QED
      BY <2>5, <3>4
  <2>. QED
    BY <2>4, <2>5
<1>8. ConnectsOn'
  BY <1>1 DEF WiresHeld, ConnectsOn
<1>9. LimitNamed'
  <2>1. c.nic \in Nic /\ c.row \in Row
    BY DEF NicTyped, Copy
  <2>. DEFINE r == [c.row EXCEPT !.epair = None, !.bridge = None]
  <2>2. LimitOf(r)
    BY <2>1 DEF LimitOf, Inst, Row
  <2>3. row'[c.nic] \in {row[c.nic], r} /\ \A m \in Nic : m # c.nic => row'[m] = row[m]
    <3>1. c \in Copy
      BY DEF NicTyped
    <3>. QED
      BY <3>1, DisconnectSaves
  <2>. HIDE DEF r
  <2>. QED
    BY <1>1, <2>1, <2>2, <2>3, LimitEdit DEF WiresHeld
<1>10. CASE ~c.row.on
  <2>1. UNCHANGED <<host, link>>
    BY <1>10 DEF Disconnect
  <2>2. \A u \in VM : Wires(u)' = Wires(u)
    BY <1>6, <1>7, <1>10
  <2>. QED
    BY <1>4, <1>8, <1>9, <2>1, <2>2, WiresKept
<1>11. CASE c.row.on
  <2>1. gone \in Wires(v) /\ <<c.nic, c.row>> \in Wires(v)
    BY <1>6, <1>11 DEF gone
  <2>2. c.row \in Row /\ c.row.dev \in Tap /\ (c.row.limited => c.row.epair # None)
    BY <1>g, <2>1, WireFacts DEF WiresHeld, WiresWhole
  <2>3. Member(c.row) # None
    BY <2>2, NicConstants DEF Member
  <2>4. host' = host \ inst /\ link' = {l \in Without(link, inst) : l # <<Lan, Member(c.row)>>}
    BY <1>11, <2>3 DEF Disconnect
  <2>5. inst \subseteq Epair \cup Bridge
    BY <2>2 DEF Inst, Row
  <2>6. ASSUME NEW u \in VM, NEW w \in Wires(u)' PROVE w \in Wires(u) /\ ~(u = v /\ w[1] = c.nic)
    <3>1. w \in Wires(u) /\ (u = v => w # gone)
      BY <1>7, <2>6
    <3>2. CASE u = v
      <4>1. PICK d \in stop[v].todo : w = <<d.nic, d.row>>
        BY <1>3, <1>5, <3>1, <3>2
      <4>2. d # c
        BY <3>1, <3>2, <4>1 DEF gone
      <4>. QED
        BY <1>1, <3>1, <4>1, <4>2, NextLeaving
    <3>. QED
      BY <3>1, <3>2
  <2>. HIDE DEF inst
  <2>7. ASSUME NEW u \in VM, NEW w \in Wires(u)'
        PROVE  /\ Reachable(w[2])'
               /\ w[2].limited => w[2].epair # None /\ w[2].bridge # None
               /\ Inst(w[2]) # {} => w[2].limited
               /\ Inst(w[2]) \subseteq host'
    <3>1. w \in Wires(u) /\ ~(u = v /\ w[1] = c.nic)
      BY <2>6
    <3>2. /\ w[2].dev \in Tap /\ w[2] \in Row
          /\ Inst(w[2]) \cap inst = {} /\ Member(w[2]) # Member(c.row)
      BY <2>1, <3>1, WiresDiffer DEF inst
    <3>3. /\ Reachable(w[2])
          /\ w[2].limited => w[2].epair # None /\ w[2].bridge # None
          /\ Inst(w[2]) # {} => w[2].limited
          /\ Inst(w[2]) \subseteq host
      BY <3>1 DEF WiresHeld, WiresWhole
    <3>4. Lan \notin inst /\ w[2].dev \notin inst /\ w[2].dev # None
      BY <2>5, <3>2, DeviceKinds, NicConstants
    <3>5. \A l \in link : l[1] \notin inst /\ l[2] \notin inst /\ l # <<Lan, Member(c.row)>> => l \in link'
      BY <2>4 DEF Without
    <3>6. Reachable(w[2])'
      BY <3>2, <3>3, <3>4, <3>5, StillReachable
    <3>. QED
      BY <2>4, <3>2, <3>3, <3>6
  <2>8. WiresWhole' /\ WiresApart'
    BY <2>6, <2>7 DEF WiresHeld, WiresWhole, WiresApart
  <2>9. HostNeeded'
    <3>1. ASSUME NEW d \in host'
          PROVE  \E u \in VM : (\E a \in Held(u)' : a[2] = d) \/ (\E w \in Wires(u)' : d \in Inst(w[2]))
      <4>1. d \in host /\ d \notin inst
        BY <2>4
      <4>2. PICK u \in VM : (\E a \in Held(u) : a[2] = d) \/ (\E w \in Wires(u) : d \in Inst(w[2]))
        BY <4>1 DEF WiresHeld, HostNeeded
      <4>3. ASSUME NEW w \in Wires(u), d \in Inst(w[2]) PROVE w \in Wires(u)'
        BY <1>7, <1>g, <4>1, <4>3 DEF inst
      <4>. QED
        BY <1>4, <4>2, <4>3
    <3>. QED
      BY <3>1 DEF HostNeeded
  <2>. QED
    BY <1>8, <1>9, <2>8, <2>9 DEF WiresHeld
<1>. QED
  BY <1>10, <1>11

\* WiresHeld is kept while nothing happens that weakens the guarantees.
LEMMA WiresStep ==
  ASSUME NicTyped, NicControl, CopiesAsRead, DevicesNamed, DevicesHeld, WiresHeld,
         [NicNext]_nicVars, Clean'
  PROVE  WiresHeld'
<1>0. /\ mishap' \cap {"stale", "rewired", "stolen", "window"} = {}
      /\ "restarted" \notin mishap' /\ "stale" \notin mishap' /\ mishap' = {}
  BY DEF Clean
<1>1. CASE UNCHANGED nicVars
  BY <1>1, WiresIdle, LimitSame DEF nicVars, PlumbedKept, WiresHeld
<1>2. ASSUME NEW v \in VM, NicStart(v) \/ NicDone(v) \/ NetStop(v) PROVE WiresHeld'
  BY <1>0, <1>2, WiresStart, WiresDone, WiresNetStop
<1>3. ASSUME NEW v \in VM, NEW c \in stop[v].todo, Disconnect(v, c) \/ Demolish(v, c) PROVE WiresHeld'
  BY <1>0, <1>3, WiresDisconnect, WiresDemolish
<1>4. ASSUME NEW c \in start.todo, NEW t \in Tap, PickDevice(c, t) PROVE WiresHeld'
  BY <1>0, <1>4, WiresPick
<1>5. ASSUME NEW c \in start.todo, Build(c) \/ BuildFails(c) \/ JoinDevice(c) PROVE WiresHeld'
  BY <1>0, <1>5, WiresBuild, WiresJoin DEF BuildFails
<1>6. ASSUME NEW c \in start.todo, ConnectFails(c) PROVE WiresHeld'
  <2>1. c \in Copy
    BY DEF NicTyped
  <2>. QED
    BY <1>0, <1>6, <2>1, ConnectFailsSaves
<1>7. ASSUME NEW c \in start.todo, NEW e \in Epair, NEW b \in Bridge, JoinLimited(c, e, b) PROVE WiresHeld'
  BY <1>7, WiresJoinLimited
<1>8. CASE NetStart \/ Launch
  BY <1>8, WiresNetStart, WiresLaunch
<1>9. ASSUME NEW o \in Call, CallStep(o) PROVE WiresHeld'
  BY <1>0, <1>9, CallsKeep, CallFrame, LimitCall, WiresIdle DEF WiresHeld
<1>10. ASSUME NEW n \in Nic, NEW r \in NewNics, AddVMNic(n, r) PROVE WiresHeld'
  <2>1. PlumbedKept /\ LimitNamed'
    BY <1>10, AddKeeps, LimitAdd DEF WiresHeld
  <2>2. UNCHANGED <<up, host, link, bhyve, start, stop>>
    BY <1>10 DEF AddVMNic
  <2>. QED
    BY <2>1, <2>2, WiresIdle
<1>. QED
  BY <1>1, <1>2, <1>3, <1>4, <1>5, <1>6, <1>7, <1>8, <1>9, <1>10 DEF NicNext, NicStep, CallStep

-----------------------------------------------------------------------------
\* The invariant holds initially and every step keeps it.
LEMMA NicInitially ==
  ASSUME NicInit
  PROVE  NicInv
<1>1. /\ up = {} /\ host = {} /\ link = {} /\ bhyve = [v \in VM |-> {}]
      /\ start = StartIdle /\ stop = [v \in VM |-> StopIdle] /\ call = [o \in Call |-> CallIdle]
      /\ calls = 0 /\ mishap = {}
  BY DEF NicInit, NicIdle
<1>2. /\ start.vm = None /\ start.pc = "idle" /\ start.todo = {} /\ start.args = {}
      /\ \A v \in VM : stop[v].pc = "idle" /\ stop[v].todo = {} /\ bhyve[v] = {}
      /\ \A o \in Call : call[o].pc = "idle" /\ call[o].todo = {} /\ call[o].vm = None
  BY <1>1 DEF StartIdle, StopIdle, CallIdle
<1>3. row \in [Nic -> Row] /\ \A n \in Nic : Inst(row[n]) # {} => row[n].limited
  BY NicConstants DEF NicInit, Inst
<1>4. NicTyped
  <2>1. start \in [vm : VM \cup {None}, pc : {"idle", "args", "build", "connect"},
                   todo : SUBSET Copy, args : SUBSET (Nic \X Tap)]
    BY <1>1 DEF StartIdle
  <2>2. stop \in [VM -> [pc : {"idle", "list", "leave", "demolish"}, todo : SUBSET Copy]]
    BY <1>1 DEF StopIdle
  <2>3. call \in [Call -> [pc : {"idle", "update", "remove", "attach", "clone", "delete"},
                           vm : VM \cup {None}, todo : SUBSET Copy, nics : SUBSET Nic]]
    BY <1>1 DEF CallIdle
  <2>4. calls \in 0 .. MaxCalls
    BY <1>1, NicConstants
  <2>. QED
    BY <1>1, <1>3, <2>1, <2>2, <2>3, <2>4 DEF NicTyped
<1>5. NicControl
  BY <1>1, <1>2 DEF NicControl
<1>6. CopiesAsRead
  BY <1>2 DEF CopiesAsRead, AsRead
<1>7. \A v \in VM : ArgsOf(v) = {} /\ Listed(v) = {} /\ Held(v) = {}
  BY <1>2 DEF ArgsOf, Listed, Held
<1>8. DevicesNamed
  BY <1>2, <1>7 DEF DevicesNamed
<1>9. DevicesHeld
  BY <1>1, <1>2, <1>7 DEF DevicesHeld, StoppedFirst, ArgsForAll, StartCurrent, BuiltExist, HeldExist, HeldApart
<1>10. \A v \in VM : Wires(v) = {}
  <2>1. \A v \in VM : WiredNics(v) = {} /\ Leaving(v) = {}
    BY <1>1, <1>2, <1>7 DEF WiredNics, IsWired, Leaving
  <2>. QED
    BY <2>1 DEF Wires
<1>11. WiresHeld
  BY <1>1, <1>2, <1>3, <1>10
     DEF WiresHeld, LimitNamed, ConnectsOn, WiresWhole, WiresApart, HostNeeded
<1>. QED
  BY <1>4, <1>5, <1>6, <1>8, <1>9, <1>11 DEF NicInv

LEMMA NicPreserved ==
  ASSUME NicInv, [NicNext]_nicVars
  PROVE  NicInv'
<1>1. NicTyped' /\ NicControl' /\ CopiesAsRead'
  BY TypedStep, ControlStep, CopiesStep DEF NicInv
<1>2. mishap \subseteq mishap'
  BY MishapGrows DEF NicInv
<1>3. (Current' => Current) /\ (Quiet' => Quiet /\ Current) /\ (Clean' => Clean /\ Quiet /\ Current)
  BY <1>2 DEF Current, Quiet, Clean
<1>4. Current' => DevicesNamed'
  BY <1>3, NamedStep DEF NicInv
<1>5. Quiet' => DevicesHeld'
  BY <1>3, HeldStep DEF NicInv
<1>6. Clean' => WiresHeld'
  BY <1>3, WiresStep DEF NicInv
<1>. QED
  BY <1>1, <1>4, <1>5, <1>6 DEF NicInv

\* The invariant: rows, copies of rows, devices and connections agree as far as the mishaps
\* of the run let them.
THEOREM NicInductive == NicSpec => []NicInv
<1>1. NicInit => NicInv
  BY NicInitially
<1>2. NicInv /\ [NicNext]_nicVars => NicInv'
  BY NicPreserved
<1>. QED
  BY <1>1, <1>2, PTL DEF NicSpec

\* Every variable of NicPlumbing keeps its type (NicTypeOK), for any tables.
THEOREM NicsTypeCorrect == NicSpec => []NicTypeOK
<1>1. NicInv => NicTypeOK
  BY DEF NicInv, NicTyped, NicTypeOK
<1>. QED
  BY <1>1, NicInductive, PTL

\* Two running VMs never have the same tap device (NoSharedTap): whatever getTapDev does
\* not find on the host it finds in the rows, and the other way round.
THEOREM TapsUnshared == NicSpec => []NoSharedTap
<1>1. NicInv => NoSharedTap
  <2>. SUFFICES ASSUME NicInv, ~Parted, NEW u \in VM, NEW v \in VM, u # v,
                       NEW a \in bhyve[u], NEW b \in bhyve[v], a[2] = b[2]
                PROVE  FALSE
    BY DEF NoSharedTap
  <2>1. DevicesNamed
    BY NotParted DEF NicInv
  <2>2. a \in ArgsOf(u) /\ b \in ArgsOf(v)
    BY DEF ArgsOf
  <2>3. a = b
    BY <2>1, <2>2 DEF DevicesNamed
  <2>4. row[a[1]].vm = u /\ row[b[1]].vm = v
    BY <2>1, <2>2 DEF DevicesNamed
  <2>. QED
    BY <2>3, <2>4
<1>. QED
  BY <1>1, NicInductive, PTL

\* The rows of a running VM name the devices of its bhyve, and the devices exist and are
\* connected (RunningPlumbed): no NetStop, Start or RPC for another VM takes them down.
THEOREM RunningIsPlumbed == NicSpec => []RunningPlumbed
<1>1. NicInv => RunningPlumbed
  <2>. SUFFICES ASSUME NicInv, NEW v \in VM, NEW a \in bhyve[v]
                PROVE  /\ ~Parted => row[a[1]].dev = a[2]
                       /\ mishap \subseteq {"failed", "lost"} => a[2] \in host
                       /\ mishap = {} /\ row[a[1]].on => Reachable(row[a[1]])
    BY DEF RunningPlumbed
  <2>1. NicTyped /\ NicControl /\ a \in ArgsOf(v) /\ a \in Held(v)
    BY DEF NicInv, ArgsOf, Held
  <2>2. start.vm # v
    BY <2>1, NicConstants DEF NicControl, StartIdle
  <2>3. v \in up /\ a[1] \in Nic
    BY <2>1, ArgsFacts
  <2>4. ASSUME Current PROVE row[a[1]].dev = a[2] /\ row[a[1]].vm = v
    BY <2>1, <2>4 DEF NicInv, DevicesNamed
  <2>5. ASSUME Quiet PROVE a[2] \in host
    BY <2>1, <2>2, <2>5 DEF NicInv, DevicesHeld, HeldExist
  <2>6. ASSUME Clean, row[a[1]].on PROVE Reachable(row[a[1]])
    <3>. DEFINE w == <<a[1], row[a[1]]>>
    <3>1. row[a[1]].vm = v /\ WiresHeld
      BY <2>4, <2>6 DEF Clean, Current, NicInv
    <3>2. IsWired(v, a[1])
      BY <2>2, <2>3, <3>1 DEF IsWired
    <3>3. w \in Wires(v) /\ w[2] = row[a[1]]
      BY <2>3, <2>6, <3>2 DEF Wires, WiredNics
    <3>. HIDE DEF w
    <3>. QED
      BY <3>1, <3>3 DEF WiresHeld, WiresWhole
  <2>. QED
    BY <2>4, <2>5, <2>6, NotParted DEF Quiet, Clean
<1>. QED
  BY <1>1, NicInductive, PTL

\* When all VMs have stopped nothing is left on the host (StoppedClean), unless a command
\* failed.
THEOREM NothingLeft == NicSpec => []StoppedClean
<1>1. NicInv => StoppedClean
  <2>. SUFFICES ASSUME NicInv, mishap = {}, up = {}, \A v \in VM : stop[v].pc = "idle", NEW d \in host
                PROVE  FALSE
    BY DEF StoppedClean
  <2>1. NicTyped /\ NicControl /\ HostNeeded
    BY DEF NicInv, Clean, WiresHeld
  <2>2. PICK v \in VM : (\E a \in Held(v) : a[2] = d) \/ (\E w \in Wires(v) : d \in Inst(w[2]))
    BY <2>1 DEF HostNeeded
  <2>3. stop[v].todo = {} /\ Listed(v) = {} /\ ArgsOf(v) = {}
    BY <2>1, ArgsFacts DEF NicControl, Listed
  <2>4. Held(v) = {}
    BY <2>3 DEF Held
  <2>5. Wires(v) = {}
    BY <2>3 DEF Wires, WiredNics, IsWired, Leaving
  <2>. QED
    BY <2>2, <2>4, <2>5
<1>. QED
  BY <1>1, NicInductive, PTL
===========================================================================
