---------------------------- MODULE Host_proofs ----------------------------
(***************************************************************************)
(* Proofs about PciSlots, for every LastSlot and MaxSlot, ListenPorts, for *)
(* every set of VMs and every range of ports, VMConfig, for every set of   *)
(* fields, requests, attachments and calls, and IsoStore, for every set of *)
(* ISOs, names, VMs and RPCs; and about the run they share with Migration, *)
(* NicPlumbing, Switches and ComPort.                                      *)
(***************************************************************************)
EXTENDS MCHost, Migration_proofs, NicPlumbing_proofs, Switches_proofs, ComPort_proofs,
        FiniteSetTheorems, SequenceTheorems, WellFoundedInduction, TLAPS

(***************************************************************************)
(* The slots of the devices.                                               *)
(***************************************************************************)

Device == [slot : Nat, kind : Kind]
Devices == Seq(Device)

Distinct(s) == \A i, j \in 1 .. Len(s) : i < j => s[i].slot # s[j].slot
Below(s, n) == \A i \in 1 .. Len(s) : s[i].slot < n
From(s, n) == \A i \in 1 .. Len(s) : n <= s[i].slot
CDsBelow(s) == \A i \in 1 .. Len(s) : s[i].kind = "cd" => s[i].slot < LastSlot

\* Until the LPC bridge all slots differ, and all are below the next one, except that
\* getNetArgs may give its slots back.
Stacked ==
  /\ building # "done" => Distinct(device)
  /\ building \notin {"net", "done"} => Below(device, slot)

\* What getNetArgs has collected lies between its original slot and the next one.
Collected ==
  /\ building \in {"hostbridge", "fbuf", "tablet"} => netArgs = << >>
  /\ building = "net" =>
       /\ firstNet <= slot
       /\ Below(device, firstNet)
       /\ Distinct(netArgs) /\ Below(netArgs, slot) /\ From(netArgs, firstNet)
       /\ \A i \in 1 .. Len(netArgs) : netArgs[i].kind = "net"

\* The limit of getCDArg is what is left below the bridge.
Counted == building = "cd" => slot + maxSata + 1 = LastSlot + devCount

PciInv == PciTypeOK /\ Stacked /\ Collected /\ Counted /\ CDsBelow(device) /\ SlotsApart

\* The elements of a sequence over any set, and of one with another element.
LEMMA SeqAppended ==
  ASSUME NEW T, NEW s \in Seq(T), NEW d \in T
  PROVE  /\ Append(s, d) \in Seq(T)
         /\ Len(Append(s, d)) = Len(s) + 1
         /\ Len(s) \in Nat
         /\ \A i \in 1 .. Len(s) : s[i] \in T /\ Append(s, d)[i] = s[i]
         /\ Append(s, d)[Len(s) + 1] = d
OBVIOUS

\* The same of devices.
LEMMA Appended ==
  ASSUME NEW s \in Devices, NEW d \in Device
  PROVE  /\ Append(s, d) \in Devices
         /\ Len(Append(s, d)) = Len(s) + 1
         /\ Len(s) \in Nat
         /\ \A i \in 1 .. Len(s) : s[i] \in Device /\ Append(s, d)[i] = s[i]
         /\ Append(s, d)[Len(s) + 1] = d
BY SeqAppended DEF Devices

\* The elements of a sequence of devices are devices.
LEMMA Element ==
  ASSUME NEW s \in Devices, NEW i \in 1 .. Len(s)
  PROVE  s[i] \in Device /\ s[i].slot \in Nat
<1>1. \A T : s \in Seq(T) => s[i] \in T
  OBVIOUS
<1>2. s[i] \in Device
  BY <1>1 DEF Devices
<1> QED BY <1>2 DEF Device

\* A device at a slot above all others leaves the slots distinct.
LEMMA AppendedAbove ==
  ASSUME NEW s \in Devices, NEW d \in Device, NEW n \in Nat,
         Distinct(s), Below(s, n), d.slot = n
  PROVE  Distinct(Append(s, d)) /\ Below(Append(s, d), n + 1)
<1> DEFINE t == Append(s, d)
<1>1. /\ Len(t) = Len(s) + 1 /\ Len(s) \in Nat /\ t[Len(s) + 1] = d
      /\ \A i \in 1 .. Len(s) : s[i] \in Device /\ t[i] = s[i]
  BY Appended
<1> HIDE DEF t
<1>2. Distinct(t)
  <2> SUFFICES ASSUME NEW i \in 1 .. Len(t), NEW j \in 1 .. Len(t), i < j
               PROVE  t[i].slot # t[j].slot
    BY DEF Distinct
  <2>1. CASE j = Len(s) + 1
    <3>1. i \in 1 .. Len(s) BY <1>1, <2>1
    <3> QED BY <1>1, <2>1, <3>1 DEF Below
  <2>2. CASE j # Len(s) + 1
    <3>1. i \in 1 .. Len(s) /\ j \in 1 .. Len(s) BY <1>1, <2>2
    <3> QED BY <1>1, <3>1 DEF Distinct
  <2> QED BY <2>1, <2>2
<1>3. Below(t, n + 1)
  <2> SUFFICES ASSUME NEW i \in 1 .. Len(t) PROVE t[i].slot < n + 1
    BY DEF Below
  <2>1. CASE i = Len(s) + 1 BY <1>1, <2>1
  <2>2. CASE i # Len(s) + 1
    <3>1. i \in 1 .. Len(s) BY <1>1, <2>2
    <3>2. s[i].slot < n /\ s[i].slot \in Nat BY <3>1, Element DEF Below
    <3> QED BY <1>1, <3>1, <3>2
  <2> QED BY <2>1, <2>2
<1> QED BY <1>2, <1>3 DEF t

\* A device that is no CD, or is one below the bridge, leaves the CDs below it.
LEMMA AppendedCD ==
  ASSUME NEW s \in Devices, NEW d \in Device, CDsBelow(s),
         d.kind = "cd" => d.slot < LastSlot
  PROVE  CDsBelow(Append(s, d))
<1> DEFINE t == Append(s, d)
<1>1. /\ Len(t) = Len(s) + 1 /\ Len(s) \in Nat /\ t[Len(s) + 1] = d
      /\ \A i \in 1 .. Len(s) : t[i] = s[i]
  BY Appended
<1> HIDE DEF t
<1> SUFFICES ASSUME NEW i \in 1 .. Len(t), t[i].kind = "cd" PROVE t[i].slot < LastSlot
  BY DEF CDsBelow, t
<1>2. CASE i = Len(s) + 1 BY <1>1, <1>2
<1>3. CASE i # Len(s) + 1
  <2>1. i \in 1 .. Len(s) BY <1>1, <1>3
  <2> QED BY <1>1, <2>1 DEF CDsBelow
<1> QED BY <1>2, <1>3

\* Two stacks of devices, the second above the first.
LEMMA Joined ==
  ASSUME NEW s \in Devices, NEW t \in Devices, NEW low \in Nat, NEW n \in Nat, low <= n,
         Distinct(s), Below(s, low), Distinct(t), Below(t, n), From(t, low), CDsBelow(s),
         \A i \in 1 .. Len(t) : t[i].kind = "net"
  PROVE  /\ s \o t \in Devices
         /\ Distinct(s \o t) /\ Below(s \o t, n) /\ CDsBelow(s \o t)
<1> DEFINE u == s \o t
<1>1. /\ u \in Devices /\ Len(u) = Len(s) + Len(t) /\ Len(s) \in Nat /\ Len(t) \in Nat
      /\ \A i \in 1 .. Len(s) : u[i] = s[i]
      /\ \A i \in Len(s) + 1 .. Len(s) + Len(t) : u[i] = t[i - Len(s)]
  BY DEF Devices
<1>2. /\ \A i \in 1 .. Len(s) : s[i].slot \in Nat
      /\ \A i \in 1 .. Len(t) : t[i].slot \in Nat
  BY Element
<1> HIDE DEF u
<1>3. \A i \in 1 .. Len(u) : i \in 1 .. Len(s) \/ i > Len(s)
  BY <1>1
<1>4. \A i \in 1 .. Len(u) : i > Len(s) => u[i] = t[i - Len(s)] /\ i - Len(s) \in 1 .. Len(t)
  BY <1>1
<1>5. Distinct(u)
  <2> SUFFICES ASSUME NEW i \in 1 .. Len(u), NEW j \in 1 .. Len(u), i < j
               PROVE  u[i].slot # u[j].slot
    BY DEF Distinct
  <2>1. CASE j \in 1 .. Len(s)
    <3>1. i \in 1 .. Len(s) BY <1>1, <2>1
    <3> QED BY <1>1, <2>1, <3>1 DEF Distinct
  <2>2. CASE j > Len(s) /\ i \in 1 .. Len(s)
    <3> DEFINE k == j - Len(s)
    <3>1. u[j] = t[k] /\ k \in 1 .. Len(t) BY <1>4, <2>2
    <3>2. u[i] = s[i] BY <1>1, <2>2
    <3> HIDE DEF k
    <3>3. low <= t[k].slot BY <3>1 DEF From
    <3>4. s[i].slot < low BY <2>2 DEF Below
    <3> QED BY <1>2, <2>2, <3>1, <3>2, <3>3, <3>4
  <2>3. CASE j > Len(s) /\ i > Len(s)
    <3> DEFINE k == i - Len(s)  l == j - Len(s)
    <3>1. u[i] = t[k] /\ k \in 1 .. Len(t) BY <1>4, <2>3
    <3>2. u[j] = t[l] /\ l \in 1 .. Len(t) BY <1>4, <2>3
    <3>3. k < l BY <1>1
    <3> HIDE DEF k, l
    <3> QED BY <3>1, <3>2, <3>3 DEF Distinct
  <2> QED BY <1>3, <2>1, <2>2, <2>3
<1>6. Below(u, n)
  <2> SUFFICES ASSUME NEW i \in 1 .. Len(u) PROVE u[i].slot < n
    BY DEF Below
  <2>1. CASE i \in 1 .. Len(s)
    <3>1. u[i] = s[i] /\ s[i].slot < low BY <1>1, <2>1 DEF Below
    <3> QED BY <1>2, <2>1, <3>1
  <2>2. CASE i > Len(s)
    <3> DEFINE k == i - Len(s)
    <3>1. u[i] = t[k] /\ k \in 1 .. Len(t) BY <1>4, <2>2
    <3> HIDE DEF k
    <3> QED BY <3>1 DEF Below
  <2> QED BY <1>3, <2>1, <2>2
<1>7. CDsBelow(u)
  <2> SUFFICES ASSUME NEW i \in 1 .. Len(u), u[i].kind = "cd" PROVE u[i].slot < LastSlot
    BY DEF CDsBelow
  <2>1. CASE i \in 1 .. Len(s) BY <1>1, <2>1 DEF CDsBelow
  <2>2. CASE i > Len(s)
    <3> DEFINE k == i - Len(s)
    <3>1. u[i] = t[k] /\ k \in 1 .. Len(t) BY <1>4, <2>2
    <3> HIDE DEF k
    <3> QED BY <3>1
  <2> QED BY <1>3, <2>1, <2>2
<1> QED BY <1>1, <1>5, <1>6, <1>7 DEF u

\* Slots that all differ are apart.
LEMMA DistinctApart == Distinct(device) => SlotsApart
BY DEF Distinct, SlotsApart

\* Slots below some number are below any greater one.
LEMMA Higher ==
  ASSUME NEW s \in Devices, NEW m \in Nat, NEW n \in Nat, m <= n, Below(s, m)
  PROVE  Below(s, n)
<1> SUFFICES ASSUME NEW i \in 1 .. Len(s) PROVE s[i].slot < n
  BY DEF Below
<1>1. s[i].slot \in Nat BY Element
<1> QED BY <1>1 DEF Below

\* getSlotArgs starts with no device.
LEMMA PciStarts == PciInit => PciInv
BY DEF PciInit, PciInv, PciTypeOK, Stacked, Collected, Counted, CDsBelow, SlotsApart,
       Distinct, Below, From, Kind

\* A function that adds at most one device.
LEMMA OneDeviceKeeps ==
  ASSUME PciInv, NEW kind \in Kind \ {"net", "cd", "lpc"}, NEW next, OneDevice(kind, next)
  PROVE  /\ device' \in Devices /\ slot' \in Nat /\ slot <= slot'
         /\ Distinct(device') /\ Below(device', slot') /\ CDsBelow(device')
<1>1. device \in Devices /\ slot \in Nat
  BY DEF PciInv, PciTypeOK, Devices, Device
<1>2. Distinct(device) /\ Below(device, slot) /\ CDsBelow(device)
  BY DEF PciInv, Stacked, OneDevice, Kind
<1>3. CASE device' = Append(device, Here(kind)) /\ slot' = slot + 1
  <2>1. Here(kind) \in Device /\ Here(kind).slot = slot
        /\ Here(kind).kind # "cd"
    BY <1>1 DEF Here, Device
  <2> HIDE DEF Here
  <2>2. /\ Append(device, Here(kind)) \in Devices
        /\ Distinct(Append(device, Here(kind))) /\ Below(Append(device, Here(kind)), slot + 1)
        /\ CDsBelow(Append(device, Here(kind)))
    BY <1>1, <1>2, <2>1, Appended, AppendedAbove, AppendedCD
  <2> QED BY <1>1, <1>3, <2>2
<1>4. CASE UNCHANGED <<device, slot>>
  BY <1>1, <1>2, <1>4
<1> QED BY <1>3, <1>4 DEF OneDevice

\* Every function keeps the invariant.
LEMMA PciStep == PciInv /\ [PciNext]_pciVars => PciInv'
<1> SUFFICES ASSUME PciInv, [PciNext]_pciVars PROVE PciInv'
  OBVIOUS
<1>0. /\ device \in Devices /\ netArgs \in Devices
      /\ slot \in Nat /\ firstNet \in Nat /\ devCount \in Nat /\ maxSata \in Int
  BY DEF PciInv, PciTypeOK, Devices, Device
<1>1. CASE getHostBridgeArg
  <2>1. /\ device' \in Devices /\ slot' \in Nat /\ slot <= slot'
        /\ Distinct(device') /\ Below(device', slot') /\ CDsBelow(device')
    BY <1>1, OneDeviceKeeps DEF getHostBridgeArg, Kind
  <2>2. SlotsApart' BY <2>1, DistinctApart DEF SlotsApart, Distinct
  <2>3. PciTypeOK' /\ Stacked' /\ Collected' /\ Counted'
    BY <1>1, <2>1
       DEF getHostBridgeArg, OneDevice, PciInv, PciTypeOK, Stacked, Collected, Counted, Devices,
           Device
  <2> QED BY <2>1, <2>2, <2>3 DEF PciInv
<1>2. CASE getVideoArg
  <2>1. /\ device' \in Devices /\ slot' \in Nat /\ slot <= slot'
        /\ Distinct(device') /\ Below(device', slot') /\ CDsBelow(device')
    BY <1>2, OneDeviceKeeps DEF getVideoArg, Kind
  <2>2. SlotsApart' BY <2>1 DEF SlotsApart, Distinct
  <2>3. PciTypeOK' /\ Stacked' /\ Collected' /\ Counted'
    BY <1>2, <2>1
       DEF getVideoArg, OneDevice, PciInv, PciTypeOK, Stacked, Collected, Counted, Devices, Device
  <2> QED BY <2>1, <2>2, <2>3 DEF PciInv
<1>3. CASE getTabletArg
  <2>1. /\ device' \in Devices /\ slot' \in Nat /\ slot <= slot'
        /\ Distinct(device') /\ Below(device', slot') /\ CDsBelow(device')
    BY <1>3, OneDeviceKeeps DEF getTabletArg, Kind
  <2>2. SlotsApart' BY <2>1 DEF SlotsApart, Distinct
  <2>3. netArgs' = << >> /\ firstNet' = slot' /\ building' = "net"
    BY <1>3 DEF getTabletArg, OneDevice, PciInv, Collected
  <2>4. Collected'
    BY <2>1, <2>3 DEF Collected, Distinct, Below, From
  <2>5. PciTypeOK' /\ Stacked' /\ Counted'
    BY <1>3, <2>1, <2>3
       DEF getTabletArg, OneDevice, PciInv, PciTypeOK, Stacked, Counted, Devices, Device
  <2> QED BY <2>1, <2>2, <2>4, <2>5 DEF PciInv
<1>4. CASE getSoundArg
  <2>1. /\ device' \in Devices /\ slot' \in Nat /\ slot <= slot'
        /\ Distinct(device') /\ Below(device', slot') /\ CDsBelow(device')
    BY <1>4, OneDeviceKeeps DEF getSoundArg, Kind
  <2>2. SlotsApart' BY <2>1 DEF SlotsApart, Distinct
  <2>3. PciTypeOK' /\ Stacked' /\ Collected' /\ Counted'
    BY <1>4, <2>1
       DEF getSoundArg, OneDevice, PciInv, PciTypeOK, Stacked, Collected, Counted, Devices, Device
  <2> QED BY <2>1, <2>2, <2>3 DEF PciInv
<1>5. CASE NetDevice
  <2>1. Here("net") \in Device /\ Here("net").slot = slot
        /\ Here("net").kind = "net"
    BY <1>0 DEF Here, Kind, Device
  <2> HIDE DEF Here
  <2>2. /\ firstNet <= slot /\ Below(device, firstNet) /\ Distinct(device)
        /\ Distinct(netArgs) /\ Below(netArgs, slot) /\ From(netArgs, firstNet)
        /\ \A i \in 1 .. Len(netArgs) : netArgs[i].kind = "net"
    BY <1>5 DEF NetDevice, PciInv, Collected, Stacked
  <2>3. Distinct(netArgs') /\ Below(netArgs', slot') /\ netArgs' \in Devices
    BY <1>0, <1>5, <2>1, <2>2, Appended, AppendedAbove DEF NetDevice
  <2>4. From(netArgs', firstNet') /\ \A i \in 1 .. Len(netArgs') : netArgs'[i].kind = "net"
    <3>1. /\ Len(netArgs') = Len(netArgs) + 1 /\ Len(netArgs) \in Nat
          /\ netArgs'[Len(netArgs) + 1] = Here("net")
          /\ \A i \in 1 .. Len(netArgs) : netArgs'[i] = netArgs[i]
      BY <1>0, <1>5, <2>1, Appended DEF NetDevice
    <3>2. firstNet' = firstNet BY <1>5 DEF NetDevice
    <3> SUFFICES ASSUME NEW i \in 1 .. Len(netArgs')
                 PROVE  firstNet <= netArgs'[i].slot /\ netArgs'[i].kind = "net"
      BY <3>2 DEF From
    <3>3. CASE i = Len(netArgs) + 1 BY <2>1, <2>2, <3>1, <3>3
    <3>4. CASE i # Len(netArgs) + 1
      <4>1. i \in 1 .. Len(netArgs) BY <3>1, <3>4
      <4> QED BY <2>2, <3>1, <4>1 DEF From
    <3> QED BY <3>3, <3>4
  <2>5. firstNet' <= slot' /\ Below(device', firstNet') /\ Distinct(device') /\ building' = "net"
    BY <1>0, <1>5, <2>2 DEF NetDevice
  <2>6. Collected' /\ Stacked' /\ Counted'
    BY <2>3, <2>4, <2>5 DEF Collected, Stacked, Counted
  <2>7. PciTypeOK'
    BY <1>0, <1>5, <2>3 DEF NetDevice, PciInv, PciTypeOK, Devices, Device
  <2>8. CDsBelow(device') /\ SlotsApart'
    BY <1>5 DEF NetDevice, PciInv, SlotsApart
  <2> QED BY <2>6, <2>7, <2>8 DEF PciInv
<1>6. CASE NetUnknownType \/ NetFails \/ NetArgs
  <2>1. PICK args \in Devices, next \in Nat :
          /\ NetReturns(args, next) /\ firstNet <= next
          /\ Distinct(args) /\ Below(args, next) /\ From(args, firstNet)
          /\ \A i \in 1 .. Len(args) : args[i].kind = "net"
    <3>1. CASE NetUnknownType
      <4> << >> \in Devices /\ firstNet \in Nat BY <1>0 DEF Devices
      <4> WITNESS << >> \in Devices
      <4> WITNESS firstNet \in Nat
      <4> QED BY <1>0, <3>1 DEF NetUnknownType, Distinct, Below, From
    <3>2. CASE NetFails
      <4> << >> \in Devices /\ slot \in Nat BY <1>0 DEF Devices
      <4> WITNESS << >> \in Devices
      <4> WITNESS slot \in Nat
      <4>1. firstNet <= slot BY <3>2 DEF NetFails, NetReturns, PciInv, Collected
      <4> QED BY <1>0, <3>2, <4>1 DEF NetFails, Distinct, Below, From
    <3>3. CASE NetArgs
      <4> netArgs \in Devices /\ slot \in Nat BY <1>0
      <4> WITNESS netArgs \in Devices
      <4> WITNESS slot \in Nat
      <4> QED BY <3>3 DEF NetArgs, NetReturns, PciInv, Collected
    <3> QED BY <1>6, <3>1, <3>2, <3>3
  <2>2. /\ building = "net" /\ building' = "disk" /\ device' = device \o args /\ slot' = next
        /\ maxSata' = LastSlot - next - 1 /\ UNCHANGED <<netArgs, firstNet, devCount>>
    BY <2>1 DEF NetReturns
  <2>3. Distinct(device) /\ Below(device, firstNet) /\ CDsBelow(device)
    BY <2>2 DEF PciInv, Stacked, Collected
  <2>4. device' \in Devices /\ Distinct(device') /\ Below(device', slot') /\ CDsBelow(device')
    BY <1>0, <2>1, <2>2, <2>3, Joined
  <2>5. SlotsApart' BY <2>4 DEF SlotsApart, Distinct
  <2>6. Stacked' /\ Collected' /\ Counted'
    BY <2>2, <2>4 DEF Stacked, Collected, Counted
  <2>7. PciTypeOK'
    BY <1>0, <2>1, <2>2, <2>4, LastSlotAssumption DEF PciTypeOK, Devices, Device
  <2> QED BY <2>4, <2>5, <2>6, <2>7 DEF PciInv
<1>7. CASE getDiskArg
  <2>1. PICK sata \in BOOLEAN : Disk(sata)
    BY <1>7 DEF getDiskArg
  <2>2. building = "disk" /\ building' = "disk" /\ UNCHANGED <<netArgs, firstNet, maxSata>>
    BY <2>1 DEF Disk
  <2>3. Distinct(device) /\ Below(device, slot) /\ CDsBelow(device)
    BY <2>2 DEF PciInv, Stacked
  <2>4. devCount' \in Nat BY <1>0, <2>1 DEF Disk
  <2>5. device' \in Devices /\ slot' \in Nat /\ Distinct(device') /\ Below(device', slot')
        /\ CDsBelow(device')
    <3>1. CASE device' = Append(device, Here("disk")) /\ slot' = slot + 1
      <4>1. Here("disk") \in Device /\ Here("disk").slot = slot
            /\ Here("disk").kind # "cd"
        BY <1>0 DEF Here, Kind, Device
      <4> HIDE DEF Here
      <4>2. /\ Append(device, Here("disk")) \in Devices
            /\ Distinct(Append(device, Here("disk")))
            /\ Below(Append(device, Here("disk")), slot + 1)
            /\ CDsBelow(Append(device, Here("disk")))
        BY <1>0, <2>3, <4>1, Appended, AppendedAbove, AppendedCD
      <4> QED BY <1>0, <3>1, <4>2
    <3>2. CASE UNCHANGED <<device, slot>>
      BY <1>0, <2>3, <3>2
    <3> QED BY <2>1, <3>1, <3>2 DEF Disk
  <2>6. SlotsApart' BY <2>5 DEF SlotsApart, Distinct
  <2>7. Stacked' /\ Collected' /\ Counted'
    BY <2>2, <2>5 DEF Stacked, Collected, Counted
  <2>8. PciTypeOK'
    BY <1>0, <2>2, <2>4, <2>5 DEF PciTypeOK, Devices, Device
  <2> QED BY <2>5, <2>6, <2>7, <2>8 DEF PciInv
<1>8. CASE DisksDone
  <2>1. PciTypeOK' /\ Stacked' /\ Collected' /\ Counted'
    BY <1>0, <1>8, LastSlotAssumption
    DEF DisksDone, PciInv, PciTypeOK, Stacked, Collected, Counted, Devices, Device
  <2>2. CDsBelow(device') /\ SlotsApart'
    BY <1>8 DEF DisksDone, PciInv, SlotsApart
  <2> QED BY <2>1, <2>2 DEF PciInv
<1>9. CASE getCDArg
  <2>1. /\ building = "cd" /\ building' = "cd" /\ devCount <= maxSata
        /\ device' = Append(device, Here("cd")) /\ slot' = slot + 1 /\ devCount' = devCount + 1
        /\ UNCHANGED <<netArgs, firstNet, maxSata>>
    BY <1>9 DEF getCDArg
  <2>2. /\ Distinct(device) /\ Below(device, slot) /\ CDsBelow(device)
        /\ slot + maxSata + 1 = LastSlot + devCount
    BY <2>1 DEF PciInv, Stacked, Counted
  <2>3. slot < LastSlot BY <1>0, <2>1, <2>2, LastSlotAssumption
  <2>4. Here("cd") \in Device /\ Here("cd").slot = slot
    BY <1>0 DEF Here, Kind, Device
  <2> HIDE DEF Here
  <2>5. device' \in Devices /\ Distinct(device') /\ Below(device', slot') /\ CDsBelow(device')
    BY <1>0, <2>1, <2>2, <2>3, <2>4, Appended, AppendedAbove, AppendedCD
  <2>6. SlotsApart' BY <2>5 DEF SlotsApart, Distinct
  <2>7. Counted' BY <1>0, <2>1, <2>2, LastSlotAssumption DEF Counted
  <2>8. Stacked' /\ Collected'
    BY <2>1, <2>5 DEF Stacked, Collected
  <2>9. PciTypeOK'
    BY <1>0, <2>1, <2>5 DEF PciTypeOK, Devices, Device
  <2> QED BY <2>5, <2>6, <2>7, <2>8, <2>9 DEF PciInv
<1>10. CASE CDsDone
  <2>1. PciTypeOK' /\ Stacked' /\ Collected' /\ Counted'
    BY <1>0, <1>10 DEF CDsDone, PciInv, PciTypeOK, Stacked, Collected, Counted, Devices, Device
  <2>2. CDsBelow(device') /\ SlotsApart'
    BY <1>10 DEF CDsDone, PciInv, SlotsApart
  <2> QED BY <2>1, <2>2 DEF PciInv
<1>11. CASE getLPCArg
  <2> DEFINE bridge == [slot |-> LastSlot, kind |-> "lpc"]
  <2>1. /\ building' = "done" /\ building = "lpc" /\ device' = Append(device, bridge)
        /\ UNCHANGED <<slot, netArgs, firstNet, devCount, maxSata>>
    BY <1>11 DEF getLPCArg
  <2>2. Distinct(device) /\ CDsBelow(device)
    BY <2>1 DEF PciInv, Stacked
  <2>3. bridge \in Device /\ bridge.kind = "lpc" /\ bridge.slot = LastSlot
    BY LastSlotAssumption DEF Kind, Device
  <2> HIDE DEF bridge
  <2>4. /\ device' \in Devices /\ Len(device') = Len(device) + 1 /\ Len(device) \in Nat
        /\ \A i \in 1 .. Len(device) : device'[i] = device[i] /\ device[i].slot \in Nat
        /\ device'[Len(device) + 1] = bridge
    BY <1>0, <2>1, <2>3, Appended, Element
  <2>5. CDsBelow(device')
    BY <1>0, <2>1, <2>2, <2>3, AppendedCD
  <2>6. SlotsApart'
    <3> SUFFICES ASSUME NEW i \in 1 .. Len(device'), NEW j \in 1 .. Len(device'), i < j,
                        device'[i].slot = device'[j].slot
                 PROVE  device'[j].kind = "lpc" /\ device'[i].kind # "cd"
      BY DEF SlotsApart
    <3>1. i \in 1 .. Len(device) BY <2>4
    <3>2. CASE j = Len(device) + 1
      <4>1. device[i].slot = LastSlot BY <2>3, <2>4, <3>1, <3>2
      <4>2. device[i].kind # "cd" BY <2>2, <3>1, <4>1, LastSlotAssumption DEF CDsBelow
      <4> QED BY <2>3, <2>4, <3>1, <3>2, <4>2
    <3>3. CASE j # Len(device) + 1
      <4>1. j \in 1 .. Len(device) BY <2>4, <3>3
      <4> QED BY <2>2, <2>4, <3>1, <4>1 DEF Distinct
    <3> QED BY <3>2, <3>3
  <2>7. Stacked' /\ Collected' /\ Counted'
    BY <2>1 DEF Stacked, Collected, Counted
  <2>8. PciTypeOK'
    BY <1>0, <2>1, <2>4 DEF PciTypeOK, Devices, Device
  <2> QED BY <2>5, <2>6, <2>7, <2>8 DEF PciInv
<1>12. CASE UNCHANGED pciVars
  BY <1>12 DEF pciVars, PciInv, PciTypeOK, Stacked, Collected, Counted, CDsBelow, SlotsApart,
               Distinct, Below, From
<1> QED
  BY <1>1, <1>2, <1>3, <1>4, <1>5, <1>6, <1>7, <1>8, <1>9, <1>10, <1>11, <1>12 DEF PciNext

\* Two devices of a VM never share a PCI slot but the last one, and never a CD the slot
\* of the LPC bridge: for any number of slots and of devices.
THEOREM DevicesApart == PciSpec => []SlotsApart
<1>1. PciInv => SlotsApart
  BY DEF PciInv
<1> QED BY <1>1, PciStarts, PciStep, PTL DEF PciSpec

\* The slots and counters are numbers and the devices known ones.
THEOREM SlotsTyped == PciSpec => []PciTypeOK
<1>1. PciInv => PciTypeOK
  BY DEF PciInv
<1> QED BY <1>1, PciStarts, PciStep, PTL DEF PciSpec

-----------------------------------------------------------------------------
(***************************************************************************)
(* VNC and debug ports.                                                    *)
(***************************************************************************)

Started == {v \in PortVM : portStatus[v] # "STOPPED"}

\* A stopped VM has no AUTO port, and the VM that Start chooses ports for is STARTING.
AutoHeld ==
  /\ vncAuto \subseteq Started /\ debugAuto \subseteq Started
  /\ starter # "none" => startLock \in Started

\* While Start chooses a port for a VM, the VM has no AUTO port of that kind yet.
Choosing ==
  /\ starter # "none" => startLock \in PortVM
  /\ starter = "video" => startLock \notin vncAuto
  /\ starter \in {"video", "debug"} => startLock \notin debugAuto

PortInv == PortTypeOK /\ AutoHeld /\ Choosing /\ AutoPortsApart

\* A set of numbers with an element has a least one.
LEMMA LeastNumber ==
  ASSUME NEW S, S \subseteq Nat, S # {}
  PROVE  Min(S) \in S /\ \A y \in S : Min(S) <= y
<1>1. PICK x \in S : \A y \in S : ~(<<y, x>> \in OpToRel(<, Nat))
  BY NatLessThanWellFounded, WFMin
<1>2. OpToRel(<, Nat) = {ss \in Nat \X Nat : ss[1] < ss[2]}
  BY DEF OpToRel
<1>3. \A y \in S : x <= y
  <2> SUFFICES ASSUME NEW y \in S, y < x PROVE FALSE
    OBVIOUS
  <2>1. <<y, x>> \in {ss \in Nat \X Nat : ss[1] < ss[2]}
    OBVIOUS
  <2> QED BY <1>1, <1>2, <2>1
<1> QED BY <1>3 DEF Min

\* GetFreeTCPPort returns a port that no VM has for the same purpose.
LEMMA FreePort ==
  ASSUME NEW first \in Port, NEW used, FreeAt(first, used) # {}
  PROVE  GetFreeTCPPort(first, used) \in Port \ used
<1> DEFINE d == Min(FreeAt(first, used))
<1>1. FreeAt(first, used) \subseteq Nat
  BY PortAssumption DEF FreeAt, Port
<1>2. d \in FreeAt(first, used)
  BY <1>1, LeastNumber
<1>3. d \in Nat /\ first \in Nat /\ (first + d) % (MaxPort + 1) \notin used
  BY <1>2, PortAssumption DEF FreeAt, Port
<1> HIDE DEF d
<1>4. (first + d) % (MaxPort + 1) \in Port
  BY <1>3, PortAssumption DEF Port
<1> QED BY <1>3, <1>4 DEF GetFreeTCPPort, d

\* Nobody has a port before the first Start.
LEMMA PortStarts == PortInit => PortInv
BY PortAssumption
DEF PortInit, PortIdle, PortInv, PortTypeOK, AutoHeld, Choosing, AutoPortsApart, Port, Started

\* The port chosen for one VM differs from those of all others that are not STOPPED.
LEMMA ChosenApart ==
  ASSUME NEW port \in [PortVM -> Port], NEW auto \in SUBSET Started, NEW v \in PortVM,
         NEW p \in Port \ {port[w] : w \in Started},
         \A w, x \in auto : w # x => port[w] # port[x]
  PROVE  LET new == [port EXCEPT ![v] = p]
         IN  \A w, x \in auto \cup {v} : w # x => new[w] # new[x]
BY DEF Started

\* Every step keeps the invariant.
LEMMA PortStep == PortInv /\ [PortNext]_portsVars => PortInv'
<1> SUFFICES ASSUME PortInv, [PortNext]_portsVars PROVE PortInv'
  OBVIOUS
<1> USE DEF PortTypeOK, AutoHeld, Choosing, Started, portsKept
<1>1. CASE \E v \in PortVM : StartPorts(v) \/ PortRunning(v) \/ Bind(v) \/ Unbind(v)
  <2>1. PICK v \in PortVM : StartPorts(v) \/ PortRunning(v) \/ Bind(v) \/ Unbind(v)
    BY <1>1
  <2>2. UNCHANGED <<vncPort, debugPort, vncAuto, debugAuto>>
    BY <2>1 DEF StartPorts, PortRunning, Bind, Unbind
  <2>3. AutoPortsApart' BY <2>2 DEF PortInv, AutoPortsApart
  <2>4. PortTypeOK' /\ AutoHeld' /\ Choosing'
    <3>1. CASE StartPorts(v) BY <2>2, <3>1, PortAssumption DEF PortInv, StartPorts
    <3>2. CASE PortRunning(v) BY <2>2, <3>2 DEF PortInv, PortRunning
    <3>3. CASE Bind(v) BY <2>2, <3>3 DEF PortInv, Bind
    <3>4. CASE Unbind(v) BY <2>2, <3>4 DEF PortInv, Unbind
    <3> QED BY <2>1, <3>1, <3>2, <3>3, <3>4
  <2> QED BY <2>3, <2>4 DEF PortInv
<1>2. CASE \E v \in PortVM : SetStopped(v)
  <2>1. PICK v \in PortVM : SetStopped(v)
    BY <1>2
  <2>2. PortTypeOK' /\ AutoHeld' /\ Choosing'
    BY <2>1, PortAssumption DEF PortInv, SetStopped, Port
  <2>3. AutoPortsApart'
    BY <2>1 DEF PortInv, SetStopped, AutoPortsApart
  <2> QED BY <2>2, <2>3 DEF PortInv
<1>3. CASE AutoVideo
  <2> DEFINE p == GetFreeTCPPort(FirstVNC, getUsedVncPorts)
  <2>1. /\ startLock \in PortVM /\ startLock \in Started \ debugAuto /\ starter' = "debug"
        /\ vncPort' = [vncPort EXCEPT ![startLock] = p] /\ vncAuto' = vncAuto \cup {startLock}
        /\ UNCHANGED <<portStatus, debugPort, debugAuto, portsKept>>
    BY <1>3 DEF PortInv, AutoVideo
  <2>2. p \in Port \ getUsedVncPorts
    BY <1>3, FreePort, PortAssumption DEF AutoVideo
  <2>3. p \in Port \ {vncPort[w] : w \in Started}
    BY <2>2 DEF getUsedVncPorts
  <2> HIDE DEF p
  <2>4. vncPort \in [PortVM -> Port] /\ vncAuto \in SUBSET Started
        /\ \A w, x \in vncAuto : w # x => vncPort[w] # vncPort[x]
    BY DEF PortInv, AutoPortsApart
  <2>5. \A w, x \in vncAuto' : w # x => vncPort'[w] # vncPort'[x]
    BY <2>1, <2>3, <2>4, ChosenApart
  <2>6. AutoPortsApart'
    BY <2>1, <2>5 DEF PortInv, AutoPortsApart
  <2>7. PortTypeOK' /\ AutoHeld' /\ Choosing'
    BY <2>1, <2>3 DEF PortInv
  <2> QED BY <2>6, <2>7 DEF PortInv
<1>4. CASE AutoDebug
  <2> DEFINE p == GetFreeTCPPort(FirstDebug, getUsedDebugPorts)
  <2>1. /\ startLock \in PortVM /\ startLock \in Started /\ starter' = "launch"
        /\ debugPort' = [debugPort EXCEPT ![startLock] = p]
        /\ debugAuto' = debugAuto \cup {startLock}
        /\ UNCHANGED <<portStatus, vncPort, vncAuto, portsKept>>
    BY <1>4 DEF PortInv, AutoDebug
  <2>2. p \in Port \ getUsedDebugPorts
    BY <1>4, FreePort, PortAssumption DEF AutoDebug
  <2>3. p \in Port \ {debugPort[w] : w \in Started}
    BY <2>2 DEF getUsedDebugPorts
  <2> HIDE DEF p
  <2>4. debugPort \in [PortVM -> Port] /\ debugAuto \in SUBSET Started
        /\ \A w, x \in debugAuto : w # x => debugPort[w] # debugPort[x]
    BY DEF PortInv, AutoPortsApart
  <2>5. \A w, x \in debugAuto' : w # x => debugPort'[w] # debugPort'[x]
    BY <2>1, <2>3, <2>4, ChosenApart
  <2>6. AutoPortsApart'
    BY <2>1, <2>5 DEF PortInv, AutoPortsApart
  <2>7. PortTypeOK' /\ AutoHeld' /\ Choosing'
    BY <2>1, <2>3 DEF PortInv
  <2> QED BY <2>6, <2>7 DEF PortInv
<1>5. CASE NoVideo \/ NoDebug \/ LaunchPorts \/ OtherProgram \/ UNCHANGED portsVars
  <2>1. UNCHANGED <<portStatus, vncPort, debugPort, vncAuto, debugAuto>>
    BY <1>5 DEF NoVideo, NoDebug, LaunchPorts, OtherProgram, portsVars
  <2>2. AutoPortsApart' BY <2>1 DEF PortInv, AutoPortsApart
  <2>3. PortTypeOK' /\ AutoHeld' /\ Choosing'
    <3>1. CASE NoVideo BY <2>1, <3>1 DEF PortInv, NoVideo
    <3>2. CASE NoDebug BY <2>1, <3>2 DEF PortInv, NoDebug
    <3>3. CASE LaunchPorts BY <2>1, <3>3 DEF PortInv, LaunchPorts
    <3>4. CASE OtherProgram BY <2>1, <3>4 DEF PortInv, OtherProgram
    <3>5. CASE UNCHANGED portsVars BY <2>1, <3>5 DEF PortInv, portsVars
    <3> QED BY <1>5, <3>1, <3>2, <3>3, <3>4, <3>5
  <2> QED BY <2>2, <2>3 DEF PortInv
<1>6. CASE FixedVideo
  <2>1. PICK p \in FixedPort : vncPort' = [vncPort EXCEPT ![startLock] = p]
    BY <1>6 DEF FixedVideo
  <2>2. startLock \notin vncAuto
    BY <1>6 DEF PortInv, FixedVideo
  <2>3. AutoPortsApart'
    BY <1>6, <2>1, <2>2 DEF PortInv, FixedVideo, AutoPortsApart
  <2>4. PortTypeOK' /\ AutoHeld' /\ Choosing'
    BY <1>6, <2>1, PortAssumption DEF PortInv, FixedVideo
  <2> QED BY <2>3, <2>4 DEF PortInv
<1>7. CASE FixedDebug
  <2>1. PICK p \in FixedPort : debugPort' = [debugPort EXCEPT ![startLock] = p]
    BY <1>7 DEF FixedDebug
  <2>2. startLock \notin debugAuto
    BY <1>7 DEF PortInv, FixedDebug
  <2>3. AutoPortsApart'
    BY <1>7, <2>1, <2>2 DEF PortInv, FixedDebug, AutoPortsApart
  <2>4. PortTypeOK' /\ AutoHeld' /\ Choosing'
    BY <1>7, <2>1, PortAssumption DEF PortInv, FixedDebug
  <2> QED BY <2>3, <2>4 DEF PortInv
<1> QED
  BY <1>1, <1>2, <1>3, <1>4, <1>5, <1>6, <1>7 DEF PortNext

\* Two VMs with AUTO ports have different ones, though neither bhyve has bound its port
\* when the other's is chosen: for any number of VMs, ports and other programs.
THEOREM AutoPorts == PortSpec => []AutoPortsApart
<1>1. PortInv => AutoPortsApart
  BY DEF PortInv
<1> QED BY <1>1, PortStarts, PortStep, PTL DEF PortSpec

\* Every port that is stored is one: GetFreeTCPPort never leaves the 16 bits.
THEOREM PortsTyped == PortSpec => []PortTypeOK
<1>1. PortInv => PortTypeOK
  BY DEF PortInv
<1> QED BY <1>1, PortStarts, PortStep, PTL DEF PortSpec

-----------------------------------------------------------------------------
(***************************************************************************)
(* The configuration of a VM, in memory and in the database.               *)
(***************************************************************************)

CallState == [pc : {"idle", "fields", "attach", "fill"} \cup SavePC, at : {0} \cup Position,
              req : Change \cup {NoRequest}, part : AttPart, list : Seq(Attachments)]
AttRow == (Nat \ {0}) \X Attachments

\* The type invariant, with the rows of attachments as finite sets of pairs.
CfgTyped ==
  /\ cfgMem \in [Touched -> Value] /\ cfgRow \in [Touched -> Value]
  /\ attached \in [AttPart -> Seq(Attachments)]
  /\ attRows \in [AttPart -> SUBSET AttRow]
  /\ \A p \in AttPart : IsFiniteSet(attRows[p])
  /\ cfgMu \in CfgCall \cup {NoOne} /\ starting \in BOOLEAN
  /\ cfgCall \in [CfgCall -> CallState]
  /\ cfgStale \subseteq Part

\* Where a call is that has yet to come to the first statement of Save about a part.
Before(p) ==
  {"fields", "attach", "fill", "configs"}
    \cup (IF p = "configs" THEN {} ELSE {"vms"})
    \cup (IF p \in AttPart THEN {"delete isos"} ELSE {})
    \cup (IF p = "disks" THEN {"insert isos", "delete disks"} ELSE {})
Coming(p) == \E c \in CfgCall : cfgCall[c].pc \in Before(p)
Inserting(p) == IF p = "isos" THEN "insert isos" ELSE "insert disks"

\* The rows say what is in memory, or somebody will write them, or a call has failed.
Columns(p) == IF p = "configs" THEN ConfigsColumn ELSE VMsColumn
ColumnsKept ==
  \A p \in {"configs", "vms"} :
    (\A f \in Columns(p) : cfgRow[f] = cfgMem[f]) \/ p \in cfgStale \/ Coming(p)
ListsKept ==
  \A p \in AttPart :
    \/ attached[p] = InOrder(attRows[p]) \/ p \in cfgStale \/ Coming(p)
    \/ \E c \in CfgCall : cfgCall[c].pc = Inserting(p)

\* Who is about to insert finds no rows, or those it would insert, or somebody will
\* delete them again.
InsertsFit ==
  \A c \in CfgCall, p \in AttPart : cfgCall[c].pc = Inserting(p) =>
    attRows[p] \in {{}, RowsOf(attached[p])} \/ p \in cfgStale \/ Coming(p)

CfgInv == CfgTyped /\ ColumnsKept /\ ListsKept /\ InsertsFit

-----------------------------------------------------------------------------
(* Lists and their rows.                                                   *)

\* The list of a set of rows, by position.
ByPosition(rows, list) ==
  list \in SetToSeqs(rows) /\ \A i, j \in DOMAIN list : i < j => list[i][1] <= list[j][1]

\* Rows can be put in the order of their positions, whatever positions they have: a set of
\* rows that could not would be a smallest one, and without its first row it is smaller.
LEMMA Orderable ==
  ASSUME NEW rows, IsFiniteSet(rows), \A r \in rows : r[1] \in Nat
  PROVE  \E list : ByPosition(rows, list)
<1>. DEFINE Unordered(n) == \E s \in SUBSET rows : Cardinality(s) = n /\ ~ \E list : ByPosition(s, list)
            Sizes == {n \in Nat : Unordered(n)}
<1>1. SUFFICES ASSUME Sizes # {} PROVE FALSE
  BY FS_CardinalityType
<1>2. PICK n \in Sizes : \A m \in Sizes : n <= m
  <2>. HIDE DEF Unordered
  <2>. QED
    BY <1>1, LeastNumber
<1>3. PICK s \in SUBSET rows : Cardinality(s) = n /\ ~ \E list : ByPosition(s, list)
  BY <1>2
<1>4. IsFiniteSet(s) /\ n \in Nat
  BY <1>2, FS_Subset
<1>5. s # {}
  <2>. SUFFICES ASSUME s = {} PROVE FALSE
    OBVIOUS
  <2>1. Cardinality(s) = 0
    BY FS_EmptySet
  <2>2. << >> \in SetToSeqs(s) /\ DOMAIN << >> = {}
    BY <2>1 DEF SetToSeqs
  <2>. QED
    BY <1>3, <2>2 DEF ByPosition
<1>6. PICK r \in s : \A x \in s : r[1] <= x[1]
  <2>. DEFINE P == {x[1] : x \in s}
  <2>1. P \subseteq Nat /\ P # {}
    BY <1>5
  <2>2. PICK m \in P : \A y \in P : m <= y
    <3>. HIDE DEF P
    <3>. QED
      BY <2>1, LeastNumber
  <2>. QED
    BY <2>2
<1>. DEFINE t == s \ {r}
<1>7. IsFiniteSet(t) /\ Cardinality(t) = n - 1 /\ n - 1 \in Nat
  <2>1. IsFiniteSet(t) /\ Cardinality(t) = Cardinality(s) - 1
    BY <1>4, <1>6, FS_RemoveElement
  <2>2. Cardinality(t) \in Nat
    BY <2>1, FS_CardinalityType
  <2>. QED
    BY <1>3, <2>1, <2>2
<1>8. PICK list : ByPosition(t, list)
  <2>1. n - 1 \notin Sizes
    <3>. HIDE DEF Sizes
    <3>. QED
      BY <1>2, <1>4
  <2>. QED
    BY <1>7, <2>1
<1>. DEFINE all == [i \in 1 .. n |-> IF i = 1 THEN r ELSE list[i - 1]]
<1>9. list \in [1 .. n - 1 -> t] /\ \A i, j \in 1 .. n - 1 : i # j => list[i] # list[j]
  <2>. HIDE DEF t
  <2>. QED
    BY <1>7, <1>8 DEF ByPosition, SetToSeqs
<1>10. all \in [1 .. n -> s]
  BY <1>4, <1>9
<1>11. \A i, j \in 1 .. n : i # j => all[i] # all[j]
  <2>. SUFFICES ASSUME NEW i \in 1 .. n, NEW j \in 1 .. n, i < j PROVE all[i] # all[j]
    BY <1>4
  <2>. QED
    BY <1>4, <1>9
<1>12. all \in SetToSeqs(s)
  <2>. HIDE DEF all
  <2>. QED
    BY <1>3, <1>10, <1>11 DEF SetToSeqs
<1>13. \A i, j \in 1 .. n : i < j => all[i][1] <= all[j][1]
  <2>. SUFFICES ASSUME NEW i \in 1 .. n, NEW j \in 1 .. n, i < j PROVE all[i][1] <= all[j][1]
    OBVIOUS
  <2>1. all[j] = list[j - 1] /\ j - 1 \in 1 .. n - 1
    BY <1>4
  <2>2. CASE i = 1
    BY <1>6, <1>9, <2>1, <2>2
  <2>3. CASE i # 1
    <3>1. all[i] = list[i - 1] /\ i - 1 \in 1 .. n - 1 /\ i - 1 < j - 1
      BY <1>4, <2>3
    <3>2. DOMAIN list = 1 .. n - 1
      BY <1>9
    <3>. QED
      BY <1>8, <2>1, <3>1, <3>2 DEF ByPosition
  <2>. QED
    BY <2>2, <2>3
<1>14. DOMAIN all = 1 .. n
  OBVIOUS
<1>. HIDE DEF all
<1>. QED
  BY <1>3, <1>12, <1>13, <1>14 DEF ByPosition

\* A set of rows is put in order as a list of their IDs.
LEMMA InOrderIs ==
  ASSUME NEW rows \in SUBSET AttRow, IsFiniteSet(rows)
  PROVE  \E list : /\ ByPosition(rows, list)
                   /\ InOrder(rows) = [i \in DOMAIN list |-> list[i][2]]
<1>1. \E list \in SetToSeqs(rows) : \A i, j \in DOMAIN list : i < j => list[i][1] <= list[j][1]
  BY Orderable DEF ByPosition, AttRow
<1>. DEFINE list == CHOOSE list \in SetToSeqs(rows) :
                      \A i, j \in DOMAIN list : i < j => list[i][1] <= list[j][1]
<1>2. /\ list \in SetToSeqs(rows)
      /\ \A i, j \in DOMAIN list : i < j => list[i][1] <= list[j][1]
  BY <1>1
<1>3. InOrder(rows) = [i \in DOMAIN list |-> list[i][2]]
  BY DEF InOrder
<1>. HIDE DEF list
<1>. QED
  BY <1>2, <1>3 DEF ByPosition

LEMMA InOrderTyped ==
  ASSUME NEW rows \in SUBSET AttRow, IsFiniteSet(rows)
  PROVE  InOrder(rows) \in Seq(Attachments)
<1>1. PICK list : /\ ByPosition(rows, list)
                  /\ InOrder(rows) = [i \in DOMAIN list |-> list[i][2]]
  BY InOrderIs
<1>2. Cardinality(rows) \in Nat
  BY FS_CardinalityType
<1>3. list \in [1 .. Cardinality(rows) -> rows]
  BY <1>1 DEF ByPosition, SetToSeqs
<1>4. \A i \in 1 .. Cardinality(rows) : list[i][2] \in Attachments
  BY <1>3 DEF AttRow
<1>. QED
  BY <1>1, <1>2, <1>3, <1>4

LEMMA FirstNumbers ==
  ASSUME NEW n \in Nat
  PROVE  IsFiniteSet(1 .. n) /\ Cardinality(1 .. n) = n
<1>1. IsFiniteSet(1 .. n) /\ Cardinality(1 .. n) = IF 1 > n THEN 0 ELSE n - 1 + 1
  BY FS_Interval
<1>. QED
  BY <1>1

\* The rows of a list: one for each position.
LEMMA RowsTyped ==
  ASSUME NEW list \in Seq(Attachments)
  PROVE  /\ RowsOf(list) \in SUBSET AttRow /\ IsFiniteSet(RowsOf(list))
         /\ Cardinality(RowsOf(list)) = Len(list)
<1>. DEFINE n == Len(list)
            f == [i \in 1 .. n |-> <<i, list[i]>>]
<1>1. n \in Nat /\ IsFiniteSet(1 .. n) /\ Cardinality(1 .. n) = n
  BY FirstNumbers
<1>2. f \in Surjection(1 .. n, RowsOf(list))
  BY DEF Surjection, RowsOf
<1>3. f \in Injection(1 .. n, RowsOf(list))
  BY DEF Injection, IsInjective, RowsOf
<1>4. RowsOf(list) \in SUBSET AttRow
  BY DEF RowsOf, AttRow
<1>5. IsFiniteSet(RowsOf(list)) /\ Cardinality(RowsOf(list)) = n
  BY <1>1, <1>2, <1>3, FS_Surjection
<1>. QED
  BY <1>4, <1>5

\* Loading the rows of a list gives the list.
LEMMA LoadsTheList ==
  ASSUME NEW list \in Seq(Attachments)
  PROVE  InOrder(RowsOf(list)) = list
<1>. DEFINE n == Len(list)
<1>1. RowsOf(list) \in SUBSET AttRow /\ IsFiniteSet(RowsOf(list)) /\ Cardinality(RowsOf(list)) = n
  BY RowsTyped
<1>2. PICK s : ByPosition(RowsOf(list), s) /\ InOrder(RowsOf(list)) = [i \in DOMAIN s |-> s[i][2]]
  BY <1>1, InOrderIs
<1>3. /\ n \in Nat /\ s \in [1 .. n -> RowsOf(list)]
      /\ \A i, j \in 1 .. n : i # j => s[i] # s[j]
      /\ \A i, j \in 1 .. n : i < j => s[i][1] <= s[j][1]
  BY <1>1, <1>2 DEF ByPosition, SetToSeqs
<1>4. \A i \in 1 .. n : s[i][1] \in 1 .. n /\ s[i] = <<s[i][1], list[s[i][1]]>>
  BY <1>3 DEF RowsOf
<1>5. \A i, j \in 1 .. n : i < j => s[i][1] < s[j][1]
  <2>. SUFFICES ASSUME NEW i \in 1 .. n, NEW j \in 1 .. n, i < j PROVE s[i][1] < s[j][1]
    OBVIOUS
  <2>1. s[i] # s[j] /\ s[i][1] <= s[j][1]
    BY <1>3
  <2>2. s[i][1] # s[j][1]
    BY <1>4, <2>1
  <2>. QED
    BY <1>3, <1>4, <2>1, <2>2
<1>6. \A k \in 1 .. n : \E i \in 1 .. n : s[i][1] = k
  <2>1. IsFiniteSet(1 .. n) /\ Cardinality(1 .. n) = n
    BY <1>3, FirstNumbers
  <2>2. s \in Injection(1 .. n, RowsOf(list))
    BY <1>3 DEF Injection, IsInjective
  <2>3. s \in Surjection(1 .. n, RowsOf(list))
    BY <1>1, <2>1, <2>2, FS_Injection
  <2>4. \A r \in RowsOf(list) : \E i \in 1 .. n : s[i] = r
    BY <2>3 DEF Surjection
  <2>. SUFFICES ASSUME NEW k \in 1 .. n PROVE \E i \in 1 .. n : s[i][1] = k
    OBVIOUS
  <2>5. PICK i \in 1 .. n : s[i] = <<k, list[k]>>
    BY <2>4 DEF RowsOf
  <2>. QED
    BY <2>5
<1>7. \A i \in 1 .. n : s[i][1] = i
  <2>. DEFINE Misplaced == {i \in 1 .. n : s[i][1] # i}
  <2>. SUFFICES ASSUME Misplaced # {} PROVE FALSE
    OBVIOUS
  <2>1. PICK i \in Misplaced : \A j \in Misplaced : i <= j
    <3>1. Misplaced \subseteq Nat
      BY <1>3
    <3>. HIDE DEF Misplaced
    <3>. QED
      BY <3>1, LeastNumber
  <2>2. i \in 1 .. n /\ s[i][1] # i /\ s[i][1] \in 1 .. n
    BY <1>4, <2>1
  <2>3. \A j \in 1 .. n : j < i => s[j][1] = j
    BY <2>1, <2>2
  <2>4. s[i][1] > i
    <3>. SUFFICES ASSUME s[i][1] < i PROVE FALSE
      BY <2>2
    <3>. DEFINE j == s[i][1]
    <3>1. s[j][1] = j /\ j \in 1 .. n /\ j < i
      BY <2>2, <2>3
    <3>. HIDE DEF j
    <3>2. s[j][1] < s[i][1]
      BY <1>5, <2>2, <3>1
    <3>. QED
      BY <3>1, <3>2 DEF j
  <2>5. PICK k \in 1 .. n : s[k][1] = i
    BY <1>6, <2>2
  <2>6. k > i
    BY <2>2, <2>3, <2>5
  <2>. QED
    BY <1>4, <1>5, <2>2, <2>4, <2>5, <2>6
<1>8. \A i \in 1 .. n : s[i][2] = list[i]
  BY <1>4, <1>7
<1>. QED
  BY <1>2, <1>3, <1>8

\* Leaving something out of a list gives a list, and leaving out nothing gives the same.
LEMMA LeftOutTyped ==
  ASSUME NEW list \in Seq(Attachments), NEW skipped
  PROVE  LeftOut(list, skipped) \in Seq(Attachments)
<1>. DEFINE rows == {<<i, list[i]>> : i \in DOMAIN list \ skipped}
<1>1. rows \subseteq RowsOf(list)
  BY DEF RowsOf
<1>2. rows \in SUBSET AttRow /\ IsFiniteSet(rows)
  <2>. HIDE DEF rows
  <2>. QED
    BY <1>1, RowsTyped, FS_Subset
<1>. HIDE DEF rows
<1>3. InOrder(rows) \in Seq(Attachments)
  BY <1>2, InOrderTyped
<1>. QED
  BY <1>3 DEF LeftOut, rows

LEMMA NothingLeftOut ==
  ASSUME NEW list \in Seq(Attachments)
  PROVE  LeftOut(list, {}) = list
<1>1. {<<i, list[i]>> : i \in DOMAIN list \ {}} = RowsOf(list)
  BY DEF RowsOf
<1>. QED
  BY <1>1, LoadsTheList DEF LeftOut

\* What CacheInit does to the list of a kind of attachments: a list that has lost something
\* is marked.
LEMMA LoadDoes ==
  ASSUME CfgTyped, CacheInit, NEW p \in AttPart
  PROVE  /\ attached'[p] \in Seq(Attachments)
         /\ \E skipped \in SUBSET DOMAIN InOrder(attRows[p]) :
              attached'[p] = LeftOut(InOrder(attRows[p]), skipped)
         /\ p \in cfgStale' \/ attached'[p] = InOrder(attRows[p])
<1>1. InOrder(attRows[p]) \in Seq(Attachments)
  BY InOrderTyped DEF CfgTyped
<1>2. PICK skipped \in SUBSET DOMAIN InOrder(attRows[p]) :
        /\ attached'[p] = LeftOut(InOrder(attRows[p]), skipped)
        /\ p \in cfgStale' \/ skipped = {}
  <2>. PICK isos \in SUBSET DOMAIN InOrder(attRows["isos"]),
            disks \in SUBSET DOMAIN InOrder(attRows["disks"]) :
         /\ attached' = [q \in AttPart |-> Loaded(attRows[q], IF q = "isos" THEN isos ELSE disks)]
         /\ cfgStale' = (IF isos = {} THEN {} ELSE {"isos"}) \cup (IF disks = {} THEN {} ELSE {"disks"})
    BY DEF CacheInit
  <2>1. CASE p = "isos"
    BY <2>1 DEF Loaded, AttPart
  <2>2. CASE p = "disks"
    BY <2>2 DEF Loaded, AttPart
  <2>. QED
    BY <2>1, <2>2 DEF AttPart
<1>3. attached'[p] \in Seq(Attachments)
  BY <1>1, <1>2, LeftOutTyped
<1>4. p \in cfgStale' \/ attached'[p] = InOrder(attRows[p])
  BY <1>1, <1>2, NothingLeftOut
<1>. QED
  BY <1>2, <1>3, <1>4

-----------------------------------------------------------------------------
(* Steps.                                                                  *)

\* The positions of a request are numbers.
LEMMA PositionTyped == Position \subseteq Nat
BY DEF Position

LEMMA FirstField == Min(Position) \in Position
BY CfgConstants, PositionTyped, LeastNumber

LEMMA NoCallTyped == CfgCallIdle \in CallState /\ NoRequest \in [Touched -> Value \cup {"keep", "bad"}]
BY DEF CfgCallIdle, CallState, AttPart, NoRequest

LEMMA CfgStarts == CfgInit => CfgInv
<1>. SUFFICES ASSUME CfgInit PROVE CfgInv
  OBVIOUS
<1>1. CfgTyped
  <2>1. cfgMem \in [Touched -> Value] /\ cfgRow \in [Touched -> Value]
    BY DEF CfgInit, CfgIdle, Value
  <2>2. attached \in [AttPart -> Seq(Attachments)]
    BY DEF CfgInit, CfgIdle
  <2>3. attRows \in [AttPart -> SUBSET AttRow] /\ \A p \in AttPart : IsFiniteSet(attRows[p])
    BY FS_EmptySet DEF CfgInit, CfgIdle
  <2>4. cfgCall \in [CfgCall -> CallState]
    BY NoCallTyped DEF CfgInit, CfgIdle
  <2>. QED
    BY <2>1, <2>2, <2>3, <2>4 DEF CfgInit, CfgIdle, CfgTyped
<1>2. \A p \in AttPart : attRows[p] = RowsOf(attached[p])
  <2>1. RowsOf(<< >>) = {}
    BY DEF RowsOf
  <2>. QED
    BY <2>1 DEF CfgInit, CfgIdle
<1>3. \A p \in AttPart : attached[p] = InOrder(attRows[p])
  BY <1>1, <1>2, LoadsTheList DEF CfgTyped
<1>4. ColumnsKept
  BY DEF CfgInit, CfgIdle, ColumnsKept, Columns, ConfigsColumn, VMsColumn
<1>. QED
  BY <1>1, <1>2, <1>3, <1>4 DEF CfgInv, ListsKept, InsertsFit

\* The two ways a call goes on: with the state it is left in, or to its end.
LEMMA GotoTyped ==
  ASSUME CfgTyped, NEW c \in CfgCall, NEW next \in {"fields", "attach", "fill"} \cup SavePC,
         CfgGoto(c, next)
  PROVE  /\ cfgCall' \in [CfgCall -> CallState]
         /\ \A d \in CfgCall : cfgCall'[d].pc = IF d = c THEN next ELSE cfgCall[d].pc
<1>1. [cfgCall[c] EXCEPT !.pc = next] \in CallState
  BY DEF CfgTyped, CallState
<1>. QED
  BY <1>1 DEF CfgTyped, CfgGoto, CallState

LEMMA ReturnTyped ==
  ASSUME CfgTyped, NEW c \in CfgCall, CfgReturn(c)
  PROVE  /\ cfgCall' \in [CfgCall -> CallState]
         /\ \A d \in CfgCall : cfgCall'[d].pc = IF d = c THEN "idle" ELSE cfgCall[d].pc
         /\ cfgMu' \in CfgCall \cup {NoOne} /\ starting' \in BOOLEAN
BY NoCallTyped DEF CfgTyped, CfgReturn, CallState, CfgCallIdle

\* Every step keeps the types.
LEMMA CfgTypedStep == CfgTyped /\ [CfgNext]_cfgVars => CfgTyped'
<1>. SUFFICES ASSUME CfgTyped, [CfgNext]_cfgVars PROVE CfgTyped'
  OBVIOUS
<1>1. CASE \E c \in CfgCall : UpdateVM(c) \/ StartSaves(c) \/ Attach(c)
  <2>1. PICK c \in CfgCall : UpdateVM(c) \/ StartSaves(c) \/ Attach(c)
    BY <1>1
  <2>2. CASE UpdateVM(c)
    <3>1. PICK req \in Change :
            cfgCall' = [cfgCall EXCEPT ![c] = [CfgCallIdle EXCEPT !.pc = "fields", !.at = Min(Position),
                                                                  !.req = req]]
      BY <2>2 DEF UpdateVM
    <3>2. [CfgCallIdle EXCEPT !.pc = "fields", !.at = Min(Position), !.req = req] \in CallState
      BY FirstField, NoCallTyped DEF CallState
    <3>. QED
      BY <2>2, <3>1, <3>2 DEF CfgTyped, UpdateVM
  <2>3. CASE StartSaves(c)
    BY <2>3, GotoTyped DEF CfgTyped, StartSaves, SavePC
  <2>4. CASE Attach(c)
    <3>0. PICK p \in AttPart : \E list \in Wanted(p) :
            cfgCall' = [cfgCall EXCEPT ![c] = [CfgCallIdle EXCEPT !.pc = "attach", !.at = Min(Position),
                                                                  !.part = p, !.list = list]]
      BY <2>4 DEF Attach
    <3>1. PICK list \in Wanted(p) :
            cfgCall' = [cfgCall EXCEPT ![c] = [CfgCallIdle EXCEPT !.pc = "attach", !.at = Min(Position),
                                                                  !.part = p, !.list = list]]
      BY <3>0
    <3>2. list \in Seq(Attachments)
      BY CfgConstants DEF Wanted
    <3>3. [CfgCallIdle EXCEPT !.pc = "attach", !.at = Min(Position), !.part = p, !.list = list] \in CallState
      BY <3>2, FirstField, NoCallTyped DEF CallState
    <3>. QED
      BY <2>4, <3>1, <3>3 DEF CfgTyped, Attach
  <2>. QED
    BY <2>1, <2>2, <2>3, <2>4
<1>2. CASE \E c \in CfgCall : UpdateField(c)
  <2>1. PICK c \in CfgCall : UpdateField(c)
    BY <1>2
  <2>. DEFINE i == cfgCall[c].at
              others == {j \in Position : j > i}
              field == updateVMAll[i][1]
              kind == updateVMAll[i][2]
              asked == cfgCall[c].req[field]
  <2>2. UNCHANGED <<cfgRow, attached, attRows>>
    BY <2>1 DEF UpdateField
  <2>3. CASE UNCHANGED cfgMem /\ CfgFails(c)
    BY <2>2, <2>3, ReturnTyped DEF CfgTyped, CfgFails, Differing, Part, AttPart
  <2>4. CASE /\ cfgMem' = [cfgMem EXCEPT ![field] = IF asked \in Value THEN asked
                                                  ELSE IF asked = "bad" /\ kind = "clamped" THEN Limit
                                                  ELSE @]
             /\ cfgCall' = IF others = {} THEN [cfgCall EXCEPT ![c].pc = "configs"]
                                          ELSE [cfgCall EXCEPT ![c].at = Min(others)]
             /\ UNCHANGED <<cfgMu, starting, cfgStale>>
    <3>1. cfgMem' \in [Touched -> Value]
      <4>. HIDE DEF field, asked, kind
      <4>. QED
        BY <2>4 DEF CfgTyped, Value, Limit
    <3>2. ASSUME others # {} PROVE Min(others) \in Position
      <4>1. others \subseteq Nat
        BY PositionTyped
      <4>2. Min(others) \in others
        <5>. HIDE DEF others
        <5>. QED
          BY <3>2, <4>1, LeastNumber
      <4>. QED
        BY <4>2
    <3>3. cfgCall' \in [CfgCall -> CallState]
      <4>. HIDE DEF others
      <4>1. [cfgCall[c] EXCEPT !.pc = "configs"] \in CallState
        BY DEF CfgTyped, CallState, SavePC
      <4>2. others # {} => [cfgCall[c] EXCEPT !.at = Min(others)] \in CallState
        BY <3>2 DEF CfgTyped, CallState
      <4>. QED
        BY <2>4, <4>1, <4>2 DEF CfgTyped
    <3>. QED
      BY <2>2, <2>4, <3>1, <3>3 DEF CfgTyped
  <2>. QED
    BY <2>1, <2>3, <2>4 DEF UpdateField
<1>3. CASE \E c \in CfgCall : AttachIsos(c) \/ AttachDisks(c) \/ AttachFill(c)
  <2>1. PICK c \in CfgCall : AttachIsos(c) \/ AttachDisks(c) \/ AttachFill(c)
    BY <1>3
  <2>. DEFINE list == cfgCall[c].list
  <2>2. list \in Seq(Attachments)
    BY DEF CfgTyped, CallState
  <2>3. CASE AttachIsos(c)
    BY <2>2, <2>3, GotoTyped DEF CfgTyped, AttachIsos, AttPart, SavePC
  <2>4. CASE AttachDisks(c)
    BY <2>4, GotoTyped DEF CfgTyped, AttachDisks, AttPart
  <2>5. CASE AttachFill(c)
    <3>1. UNCHANGED <<cfgMem, cfgRow, attRows>>
      BY <2>5 DEF AttachFill
    <3>2. CASE /\ attached' = [attached EXCEPT !["disks"] = list]
               /\ CfgGoto(c, "configs")
               /\ UNCHANGED <<cfgMu, starting, cfgStale>>
      BY <2>2, <3>1, <3>2, GotoTyped DEF CfgTyped, AttPart, SavePC
    <3>3. CASE \E n \in 1 .. Len(list) :
                 /\ attached' = [attached EXCEPT !["disks"] = SubSeq(list, 1, n - 1)]
                 /\ CfgFails(c)
      <4>1. PICK n \in 1 .. Len(list) :
                 /\ attached' = [attached EXCEPT !["disks"] = SubSeq(list, 1, n - 1)]
                 /\ CfgFails(c)
        BY <3>3
      <4>2. SubSeq(list, 1, n - 1) \in Seq(Attachments)
        BY <2>2
      <4>. QED
        BY <3>1, <4>1, <4>2, ReturnTyped DEF CfgTyped, CfgFails, Differing, Part, AttPart
    <3>. QED
      BY <2>5, <3>2, <3>3 DEF AttachFill
  <2>. QED
    BY <2>1, <2>3, <2>4, <2>5
<1>4. CASE \E c \in CfgCall : SaveFails(c) \/ SaveConfig(c) \/ SaveVM(c)
  <2>1. PICK c \in CfgCall : SaveFails(c) \/ SaveConfig(c) \/ SaveVM(c)
    BY <1>4
  <2>2. CASE SaveFails(c)
    BY <2>2, ReturnTyped DEF CfgTyped, SaveFails, CfgFails, Differing, Part, AttPart
  <2>3. CASE SaveConfig(c) \/ SaveVM(c)
    <3>1. PICK columns : cfgRow' = [f \in Touched |-> IF f \in columns THEN cfgMem[f] ELSE cfgRow[f]]
      BY <2>3 DEF SaveConfig, SaveVM, SaveColumns
    <3>2. cfgRow' \in [Touched -> Value]
      BY <3>1 DEF CfgTyped
    <3>. QED
      BY <2>3, <3>2, GotoTyped DEF CfgTyped, SaveConfig, SaveVM, SaveColumns, SavePC
  <2>. QED
    BY <2>1, <2>2, <2>3
<1>5. CASE \E c \in CfgCall : DeleteIsos(c) \/ DeleteDisks(c)
  <2>1. PICK c \in CfgCall : DeleteIsos(c) \/ DeleteDisks(c)
    BY <1>5
  <2>2. PICK p \in AttPart, next \in SavePC : DeleteRows(c, p, next)
    BY <2>1 DEF DeleteIsos, DeleteDisks, SavePC, AttPart
  <2>3. /\ attRows' \in [AttPart -> SUBSET AttRow]
        /\ \A q \in AttPart : IsFiniteSet(attRows'[q])
    BY <2>2, FS_EmptySet DEF DeleteRows, CfgTyped
  <2>4. cfgCall' \in [CfgCall -> CallState]
    BY <2>2, GotoTyped DEF DeleteRows
  <2>. QED
    BY <2>2, <2>3, <2>4 DEF DeleteRows, CfgTyped
<1>6. CASE \E c \in CfgCall : InsertIsos(c) \/ InsertDisks(c)
  <2>1. PICK c \in CfgCall : InsertIsos(c) \/ InsertDisks(c)
    BY <1>6
  <2>2. PICK p \in AttPart : InsertRows(p)
    BY <2>1 DEF InsertIsos, InsertDisks, AttPart
  <2>3. RowsOf(attached[p]) \in SUBSET AttRow /\ IsFiniteSet(RowsOf(attached[p]))
    BY RowsTyped DEF CfgTyped
  <2>4. IsFiniteSet(attRows[p] \cup RowsOf(attached[p]))
    BY <2>3, FS_Union DEF CfgTyped
  <2>5. /\ attRows' \in [AttPart -> SUBSET AttRow]
        /\ \A q \in AttPart : IsFiniteSet(attRows'[q])
    BY <2>2, <2>3, <2>4 DEF InsertRows, CfgTyped
  <2>6. /\ cfgCall' \in [CfgCall -> CallState]
        /\ cfgMu' \in CfgCall \cup {NoOne} /\ starting' \in BOOLEAN
    BY <2>1, GotoTyped, ReturnTyped DEF InsertIsos, InsertDisks, CfgTyped, SavePC
  <2>. QED
    BY <2>2, <2>5, <2>6 DEF InsertRows, CfgTyped
<1>7. CASE CacheInit
  <2>1. \A p \in AttPart : attached'[p] \in Seq(Attachments)
    BY <1>7, LoadDoes
  <2>2. attached' = [p \in AttPart |-> attached'[p]] /\ cfgStale' \subseteq Part
    BY <1>7 DEF CacheInit, Part, AttPart
  <2>3. attached' \in [AttPart -> Seq(Attachments)]
    BY <2>1, <2>2
  <2>. QED
    BY <1>7, <2>2, <2>3, NoCallTyped DEF CacheInit, CfgTyped
<1>8. CASE UNCHANGED cfgVars
  BY <1>8 DEF cfgVars, CfgTyped
<1>. QED
  BY <1>1, <1>2, <1>3, <1>4, <1>5, <1>6, <1>7, <1>8 DEF CfgNext

\* What no step has left different is in the rows, also as the next start would load it.
LEMMA NotDiffering ==
  ASSUME CfgTyped', NEW p \in Part, p \notin Differing
  PROVE  /\ p \in {"configs", "vms"} => \A f \in Columns(p) : cfgRow'[f] = cfgMem'[f]
         /\ p \in AttPart => /\ attRows'[p] = RowsOf(attached'[p])
                             /\ attached'[p] = InOrder(attRows'[p])
<1>1. p \in {"configs", "vms"} => \A f \in Columns(p) : cfgRow'[f] = cfgMem'[f]
  BY DEF Differing, Columns, AttPart
<1>2. p \in AttPart => attRows'[p] = RowsOf(attached'[p])
  BY DEF Differing, AttPart
<1>3. p \in AttPart => attached'[p] = InOrder(attRows'[p])
  BY <1>2, LoadsTheList DEF CfgTyped
<1>. QED
  BY <1>1, <1>2, <1>3

\* A call that will write everything keeps the invariant, whatever it does.
LEMMA SomebodyWrites ==
  ASSUME CfgTyped', NEW c \in CfgCall, cfgCall'[c].pc \in {"fields", "attach", "fill", "configs"}
  PROVE  CfgInv'
<1>1. \A p \in Part : Coming(p)'
  BY DEF Coming, Before, Part, AttPart
<1>2. ColumnsKept' /\ ListsKept' /\ InsertsFit'
  BY <1>1 DEF ColumnsKept, ListsKept, InsertsFit, Part
<1>. QED
  BY <1>2 DEF CfgInv

\* So does one that fails, because it records what is different then.
LEMMA SomebodyFails ==
  ASSUME CfgTyped', NEW c \in CfgCall, CfgFails(c)
  PROVE  CfgInv'
<1>1. \A p \in Part : p \in cfgStale' \/ p \notin Differing
  BY DEF CfgFails
<1>2. ColumnsKept'
  <2>. SUFFICES ASSUME NEW p \in {"configs", "vms"}, p \notin cfgStale'
                PROVE  \A f \in Columns(p) : cfgRow'[f] = cfgMem'[f]
    BY DEF ColumnsKept
  <2>. QED
    BY <1>1, NotDiffering DEF Part
<1>3. ListsKept' /\ InsertsFit'
  BY <1>1, NotDiffering DEF ListsKept, InsertsFit, Part
<1>. QED
  BY <1>2, <1>3 DEF CfgInv

\* A statement of Save: c goes on at next, and was before or at the statement about part p.
LEMMA SomebodyStill ==
  ASSUME CfgTyped, NEW c \in CfgCall, NEW next \in SavePC, CfgGoto(c, next), NEW q \in Part
  PROVE  /\ next \in Before(q) => Coming(q)'
         /\ Coming(q) => Coming(q)' \/ cfgCall[c].pc \in Before(q)
         /\ q \in AttPart /\ (\E d \in CfgCall : cfgCall[d].pc = Inserting(q)) =>
              cfgCall[c].pc = Inserting(q) \/ \E d \in CfgCall : cfgCall'[d].pc = Inserting(q)
BY GotoTyped DEF Coming

\* The columns of configs or of vms are written.
LEMMA ColumnsStep ==
  ASSUME CfgInv, CfgTyped', NEW c \in CfgCall, SaveConfig(c) \/ SaveVM(c)
  PROVE  CfgInv'
<1>. DEFINE p == cfgCall[c].pc
            next == IF SaveConfig(c) THEN "vms" ELSE "delete isos"
<1>1. /\ p \in {"configs", "vms"} /\ next \in SavePC /\ CfgGoto(c, next)
      /\ next = IF p = "configs" THEN "vms" ELSE "delete isos"
      /\ UNCHANGED <<cfgMem, attached, attRows>> /\ cfgStale' = cfgStale \cap Differing
      /\ cfgRow' = [f \in Touched |-> IF f \in Columns(p) THEN cfgMem[f] ELSE cfgRow[f]]
  BY DEF SaveConfig, SaveVM, SaveColumns, Columns, SavePC
<1>. HIDE DEF p, next
<1>2. CfgTyped /\ \A d \in CfgCall : cfgCall'[d].pc = IF d = c THEN next ELSE cfgCall[d].pc
  BY <1>1, GotoTyped DEF CfgInv
<1>3. \A q \in Part : q \in cfgStale => q \in cfgStale' \/ q \notin Differing
  BY <1>1
<1>4. ColumnsKept'
  <2>. SUFFICES ASSUME NEW q \in {"configs", "vms"}, NEW f \in Columns(q), q \notin cfgStale', ~Coming(q)'
                PROVE  cfgRow'[f] = cfgMem'[f]
    BY DEF ColumnsKept
  <2>1. CASE q = p
    BY <1>1, <2>1 DEF Columns, ConfigsColumn, VMsColumn
  <2>2. CASE q # p
    <3>1. next \in Before(q) \/ p \notin Before(q)
      <4>1. CASE q = "configs"
        BY <1>1, <2>2, <4>1 DEF Before, AttPart
      <4>2. CASE q = "vms"
        BY <1>1, <2>2, <4>2 DEF Before, AttPart
      <4>. QED
        BY <4>1, <4>2
    <3>2. ~Coming(q)
      BY <1>1, <1>2, <3>1, SomebodyStill DEF p, Part
    <3>3. CASE q \in cfgStale
      BY <1>3, <3>3, NotDiffering DEF Part
    <3>4. CASE \A g \in Columns(q) : cfgRow[g] = cfgMem[g]
      BY <1>1, <3>4 DEF Columns, ConfigsColumn, VMsColumn
    <3>. QED
      BY <3>2, <3>3, <3>4 DEF CfgInv, ColumnsKept
  <2>. QED
    BY <2>1, <2>2
<1>5. \A q \in AttPart : Coming(q)'
  <2>1. \A q \in AttPart : next \in Before(q)
    BY <1>1 DEF Before, AttPart
  <2>. QED
    BY <1>1, <1>2, <2>1, SomebodyStill DEF Part
<1>6. ListsKept' /\ InsertsFit'
  BY <1>5 DEF ListsKept, InsertsFit
<1>. QED
  BY <1>4, <1>6 DEF CfgInv

\* What keeps the columns while the attachments are written.
LEMMA ColumnsAside ==
  ASSUME CfgInv, CfgTyped', NEW c \in CfgCall, cfgCall[c].pc \in SavePC \ {"configs", "vms"},
         \A d \in CfgCall \ {c} : cfgCall'[d].pc = cfgCall[d].pc,
         UNCHANGED <<cfgMem, cfgRow>>, \A p \in Part : p \in cfgStale => p \in cfgStale' \/ p \notin Differing
  PROVE  ColumnsKept'
<1>. SUFFICES ASSUME NEW p \in {"configs", "vms"}, p \notin cfgStale', ~Coming(p)',
                     NEW f \in Columns(p)
              PROVE  cfgRow'[f] = cfgMem'[f]
  BY DEF ColumnsKept
<1>1. ~Coming(p)
  <2>1. cfgCall[c].pc \notin Before(p)
    BY DEF Before, SavePC, AttPart
  <2>. QED
    BY <2>1 DEF Coming
<1>2. CASE p \in cfgStale
  BY <1>2, NotDiffering DEF Part
<1>3. CASE p \notin cfgStale
  BY <1>1, <1>3 DEF CfgInv, ColumnsKept
<1>. QED
  BY <1>2, <1>3

\* The rows of a kind of attachments are deleted, and will be inserted.
LEMMA DeleteStep ==
  ASSUME CfgInv, CfgTyped', NEW c \in CfgCall, DeleteIsos(c) \/ DeleteDisks(c)
  PROVE  CfgInv'
<1>1. PICK p \in AttPart :
        /\ cfgCall[c].pc = IF p = "isos" THEN "delete isos" ELSE "delete disks"
        /\ DeleteRows(c, p, Inserting(p))
  BY DEF DeleteIsos, DeleteDisks, AttPart, Inserting
<1>2. /\ CfgGoto(c, Inserting(p)) /\ Inserting(p) \in SavePC
      /\ attRows' = [attRows EXCEPT ![p] = {}] /\ UNCHANGED <<cfgMem, cfgRow, attached, cfgStale>>
  BY <1>1 DEF DeleteRows, Inserting, SavePC, AttPart
<1>3. CfgTyped /\ \A d \in CfgCall : cfgCall'[d].pc = IF d = c THEN Inserting(p) ELSE cfgCall[d].pc
  BY <1>2, GotoTyped DEF CfgInv, SavePC
<1>4. ColumnsKept'
  BY <1>1, <1>2, <1>3, ColumnsAside DEF SavePC, AttPart
<1>5. ASSUME NEW q \in AttPart
      PROVE  /\ q # p => attRows'[q] = attRows[q]
             /\ q = p => attRows'[q] = {}
             /\ q # p => (Coming(q) => Coming(q)')
             /\ (q # p /\ \E d \in CfgCall : cfgCall[d].pc = Inserting(q)) =>
                  \E d \in CfgCall : cfgCall'[d].pc = Inserting(q)
  <2>1. attRows'[q] = IF q = p THEN {} ELSE attRows[q]
    BY <1>2, <1>3 DEF CfgTyped
  <2>2. q # p => (cfgCall[c].pc \in Before(q) => Inserting(p) \in Before(q))
    BY <1>1 DEF Before, Inserting, AttPart
  <2>3. cfgCall[c].pc # Inserting(q)
    BY <1>1 DEF Inserting, AttPart
  <2>. QED
    BY <1>2, <1>3, <2>1, <2>2, <2>3, SomebodyStill DEF Part
<1>6. ListsKept'
  <2>. SUFFICES ASSUME NEW q \in AttPart
                PROVE  \/ attached'[q] = InOrder(attRows'[q]) \/ q \in cfgStale' \/ Coming(q)'
                       \/ \E d \in CfgCall : cfgCall'[d].pc = Inserting(q)
    BY DEF ListsKept
  <2>1. CASE q = p
    BY <1>3, <2>1
  <2>2. CASE q # p
    BY <1>2, <1>5, <2>2 DEF CfgInv, ListsKept
  <2>. QED
    BY <2>1, <2>2
<1>7. InsertsFit'
  <2>. SUFFICES ASSUME NEW d \in CfgCall, NEW q \in AttPart, cfgCall'[d].pc = Inserting(q)
                PROVE  attRows'[q] \in {{}, RowsOf(attached'[q])} \/ q \in cfgStale' \/ Coming(q)'
    BY DEF InsertsFit
  <2>1. CASE q = p
    BY <1>5, <2>1
  <2>2. CASE q # p
    <3>1. cfgCall[d].pc = Inserting(q)
      BY <1>3, <2>2 DEF Inserting, AttPart
    <3>. QED
      BY <1>2, <1>5, <2>2, <3>1 DEF CfgInv, InsertsFit
  <2>. QED
    BY <2>1, <2>2
<1>. QED
  BY <1>4, <1>6, <1>7 DEF CfgInv

\* The rows of the list in memory are inserted.
LEMMA InsertStep ==
  ASSUME CfgInv, CfgTyped', NEW c \in CfgCall, InsertIsos(c) \/ InsertDisks(c)
  PROVE  CfgInv'
<1>1. PICK p \in AttPart :
        /\ cfgCall[c].pc = Inserting(p) /\ InsertRows(p)
        /\ p = "isos" => CfgGoto(c, "delete disks")
        /\ p = "disks" => CfgReturn(c)
  BY DEF InsertIsos, InsertDisks, AttPart, Inserting
<1>2. /\ attRows[p] \cap RowsOf(attached[p]) = {}
      /\ attRows' = [attRows EXCEPT ![p] = @ \cup RowsOf(attached[p])]
      /\ UNCHANGED <<cfgMem, cfgRow, attached>> /\ cfgStale' = cfgStale \cap Differing
  BY <1>1 DEF InsertRows
<1>3. /\ CfgTyped
      /\ \A d \in CfgCall : cfgCall'[d].pc = IF d # c THEN cfgCall[d].pc
                                            ELSE IF p = "isos" THEN "delete disks" ELSE "idle"
  BY <1>1, GotoTyped, ReturnTyped DEF CfgInv, SavePC, AttPart
<1>4. \A q \in Part : q \in cfgStale => q \in cfgStale' \/ q \notin Differing
  BY <1>2
<1>5. ColumnsKept'
  BY <1>1, <1>2, <1>3, <1>4, ColumnsAside DEF Inserting, SavePC, AttPart
<1>6. ASSUME NEW q \in AttPart, Coming(q) PROVE Coming(q)'
  <2>1. PICK d \in CfgCall : cfgCall[d].pc \in Before(q)
    BY <1>6 DEF Coming
  <2>2. CASE d # c
    BY <1>3, <2>1, <2>2 DEF Coming
  <2>3. CASE d = c
    <3>1. p = "isos" /\ q = "disks"
      BY <1>1, <2>1, <2>3 DEF Before, Inserting, AttPart
    <3>2. cfgCall'[c].pc \in Before(q)
      BY <1>3, <3>1 DEF Before
    <3>. QED
      BY <3>2 DEF Coming
  <2>. QED
    BY <2>2, <2>3
<1>7. p \in cfgStale' \/ Coming(p)' \/ (attRows'[p] = RowsOf(attached'[p]) /\ attached'[p] = InOrder(attRows'[p]))
  <2>1. CASE attRows[p] \in {{}, RowsOf(attached[p])}
    <3>1. attRows'[p] = RowsOf(attached'[p])
      BY <1>2, <1>3, <2>1 DEF CfgTyped
    <3>. QED
      BY <1>2, <1>3, <3>1, LoadsTheList DEF CfgTyped
  <2>2. CASE p \in cfgStale
    BY <1>4, <2>2, NotDiffering DEF Part
  <2>3. CASE Coming(p)
    BY <1>6, <2>3
  <2>. QED
    BY <1>1, <2>1, <2>2, <2>3 DEF CfgInv, InsertsFit
<1>8. ASSUME NEW q \in AttPart, q # p
      PROVE  /\ attRows'[q] = attRows[q] /\ attached'[q] = attached[q]
             /\ \A d \in CfgCall : (cfgCall'[d].pc = Inserting(q)) <=> (cfgCall[d].pc = Inserting(q))
             /\ \/ q \notin cfgStale \/ q \in cfgStale'
                \/ (attRows'[q] = RowsOf(attached'[q]) /\ attached'[q] = InOrder(attRows'[q]))
  <2>1. attRows'[q] = attRows[q] /\ attached'[q] = attached[q]
    BY <1>2, <1>3, <1>8 DEF CfgTyped
  <2>2. \A d \in CfgCall : (cfgCall'[d].pc = Inserting(q)) <=> (cfgCall[d].pc = Inserting(q))
    <3>1. Inserting(q) # Inserting(p) /\ Inserting(q) \notin {"delete disks", "idle"}
      <4>1. CASE q = "isos"
        BY <1>8, <4>1 DEF Inserting, AttPart
      <4>2. CASE q = "disks"
        BY <1>8, <4>2 DEF Inserting, AttPart
      <4>. QED
        BY <4>1, <4>2 DEF AttPart
    <3>2. cfgCall[c].pc # Inserting(q)
      BY <1>1, <3>1
    <3>3. cfgCall'[c].pc # Inserting(q)
      BY <1>3, <3>1
    <3>. QED
      BY <1>3, <3>2, <3>3
  <2>. QED
    BY <1>4, <2>1, <2>2, NotDiffering DEF Part
<1>9. ListsKept'
  <2>. SUFFICES ASSUME NEW q \in AttPart
                PROVE  \/ attached'[q] = InOrder(attRows'[q]) \/ q \in cfgStale' \/ Coming(q)'
                       \/ \E d \in CfgCall : cfgCall'[d].pc = Inserting(q)
    BY DEF ListsKept
  <2>1. CASE q = p
    BY <1>7, <2>1
  <2>2. CASE q # p
    BY <1>6, <1>8, <2>2 DEF CfgInv, ListsKept
  <2>. QED
    BY <2>1, <2>2
<1>10. InsertsFit'
  <2>. SUFFICES ASSUME NEW d \in CfgCall, NEW q \in AttPart, cfgCall'[d].pc = Inserting(q)
                PROVE  attRows'[q] \in {{}, RowsOf(attached'[q])} \/ q \in cfgStale' \/ Coming(q)'
    BY DEF InsertsFit
  <2>1. CASE q = p
    BY <1>7, <2>1
  <2>2. CASE q # p
    BY <1>6, <1>8, <2>2 DEF CfgInv, InsertsFit
  <2>. QED
    BY <2>1, <2>2
<1>. QED
  BY <1>5, <1>9, <1>10 DEF CfgInv

\* Every step keeps the invariant.
LEMMA CfgStep == CfgInv /\ [CfgNext]_cfgVars => CfgInv'
<1>. SUFFICES ASSUME CfgInv, [CfgNext]_cfgVars PROVE CfgInv'
  OBVIOUS
<1>1. CfgTyped /\ CfgTyped'
  BY CfgTypedStep DEF CfgInv
<1>2. CASE \E c \in CfgCall : UpdateVM(c) \/ StartSaves(c) \/ Attach(c) \/ AttachIsos(c) \/ AttachDisks(c)
  <2>1. PICK c \in CfgCall : UpdateVM(c) \/ StartSaves(c) \/ Attach(c) \/ AttachIsos(c) \/ AttachDisks(c)
    BY <1>2
  <2>2. cfgCall'[c].pc \in {"fields", "attach", "fill", "configs"}
    <3>1. CASE UpdateVM(c)
      BY <1>1, <3>1 DEF UpdateVM, CfgTyped, CallState, CfgCallIdle
    <3>2. CASE Attach(c)
      BY <1>1, <3>2 DEF Attach, CfgTyped, CallState, CfgCallIdle
    <3>3. CASE StartSaves(c) \/ AttachIsos(c) \/ AttachDisks(c)
      BY <1>1, <3>3 DEF StartSaves, AttachIsos, AttachDisks, CfgGoto, CfgTyped, CallState
    <3>. QED
      BY <2>1, <3>1, <3>2, <3>3
  <2>. QED
    BY <1>1, <2>2, SomebodyWrites
<1>3. CASE \E c \in CfgCall : UpdateField(c)
  <2>1. PICK c \in CfgCall : UpdateField(c)
    BY <1>3
  <2>2. CfgFails(c) \/ cfgCall'[c].pc \in {"fields", "configs"}
    BY <1>1, <2>1 DEF UpdateField, CfgTyped, CallState
  <2>. QED
    BY <1>1, <2>2, SomebodyFails, SomebodyWrites
<1>4. CASE \E c \in CfgCall : AttachFill(c) \/ SaveFails(c)
  <2>1. PICK c \in CfgCall : AttachFill(c) \/ SaveFails(c)
    BY <1>4
  <2>2. CfgFails(c) \/ CfgGoto(c, "configs")
    BY <2>1 DEF AttachFill, SaveFails
  <2>3. CfgFails(c) \/ cfgCall'[c].pc = "configs"
    BY <1>1, <2>2, GotoTyped DEF SavePC
  <2>. QED
    BY <1>1, <2>3, SomebodyFails, SomebodyWrites
<1>5. CASE \E c \in CfgCall : SaveConfig(c) \/ SaveVM(c) \/ DeleteIsos(c) \/ DeleteDisks(c)
                               \/ InsertIsos(c) \/ InsertDisks(c)
  BY <1>1, <1>5, ColumnsStep, DeleteStep, InsertStep
<1>6. CASE CacheInit
  <2>1. \A c \in CfgCall : cfgCall'[c].pc = "idle"
    BY <1>6 DEF CacheInit, CfgCallIdle
  <2>2. ColumnsKept'
    BY <1>1, <1>6 DEF CacheInit, ColumnsKept
  <2>3. ListsKept'
    BY <1>1, <1>6, LoadDoes DEF CacheInit, ListsKept
  <2>4. InsertsFit'
    BY <2>1 DEF InsertsFit, Inserting
  <2>. QED
    BY <1>1, <2>2, <2>3, <2>4 DEF CfgInv
<1>7. CASE UNCHANGED cfgVars
  BY <1>7 DEF cfgVars, CfgInv, CfgTyped, ColumnsKept, ListsKept, InsertsFit, Coming
<1>. QED
  BY <1>2, <1>3, <1>4, <1>5, <1>6, <1>7 DEF CfgNext

-----------------------------------------------------------------------------

\* The invariant: rows and memory agree but for what is being written or has failed.
THEOREM CfgInductive == CfgSpec => []CfgInv
BY CfgStarts, CfgStep, PTL DEF CfgSpec

LEMMA CfgTypes == CfgInv => CfgTypeOK
BY DEF CfgInv, CfgTyped, CfgTypeOK, CallState, AttRow

\* Every variable of VMConfig keeps its type (CfgTypeOK).
THEOREM ConfigTyped == CfgSpec => []CfgTypeOK
BY CfgTypes, CfgInductive, PTL

\* A restart between calls changes nothing a client was told is done
\* (RestartChangesNothing), though Saves of several goroutines overlap.
THEOREM RestartKeepsConfig == CfgSpec => RestartChangesNothing
<1>. DEFINE A == CacheInit /\ (\A c \in CfgCall : cfgCall[c].pc = "idle") =>
                   /\ "configs" \in cfgStale \/ \A f \in ConfigsColumn : cfgMem'[f] = cfgMem[f]
                   /\ "vms" \in cfgStale \/ \A f \in VMsColumn : cfgMem'[f] = cfgMem[f]
                   /\ \A p \in AttPart :
                        \/ p \in cfgStale
                        \/ attached'[p] = attached[p]
                        \/ /\ p \in cfgStale'
                           /\ \E skipped \in SUBSET DOMAIN attached[p] :
                                attached'[p] = LeftOut(attached[p], skipped)
<1>1. CfgInv => A
  <2>. SUFFICES ASSUME CfgInv, CacheInit, \A c \in CfgCall : cfgCall[c].pc = "idle"
                PROVE  /\ "configs" \in cfgStale \/ \A f \in ConfigsColumn : cfgMem'[f] = cfgMem[f]
                       /\ "vms" \in cfgStale \/ \A f \in VMsColumn : cfgMem'[f] = cfgMem[f]
                       /\ \A p \in AttPart :
                            \/ p \in cfgStale
                            \/ attached'[p] = attached[p]
                            \/ /\ p \in cfgStale'
                               /\ \E skipped \in SUBSET DOMAIN attached[p] :
                                    attached'[p] = LeftOut(attached[p], skipped)
    OBVIOUS
  <2>1. \A p \in Part : ~Coming(p) /\ \A c \in CfgCall : cfgCall[c].pc # Inserting(p)
    BY DEF Coming, Before, Inserting
  <2>2. ASSUME NEW p \in AttPart, p \notin cfgStale
        PROVE  \/ attached'[p] = attached[p]
               \/ /\ p \in cfgStale'
                  /\ \E skipped \in SUBSET DOMAIN attached[p] :
                       attached'[p] = LeftOut(attached[p], skipped)
    <3>1. attached[p] = InOrder(attRows[p])
      BY <2>1, <2>2 DEF CfgInv, ListsKept, Part
    <3>. QED
      BY <3>1, LoadDoes DEF CfgInv
  <2>3. \A p \in {"configs", "vms"} : p \in cfgStale \/ \A f \in Columns(p) : cfgMem'[f] = cfgMem[f]
    BY <2>1 DEF CfgInv, ColumnsKept, CacheInit, Part
  <2>. QED
    BY <2>2, <2>3 DEF Columns
<1>. HIDE DEF A
<1>2. CfgSpec => [][A]_cfgVars
  BY <1>1, CfgInductive, PTL DEF CfgSpec
<1>. QED
  BY <1>2 DEF A, RestartChangesNothing
-----------------------------------------------------------------------------
(***************************************************************************)
(* ISO images.                                                             *)
(***************************************************************************)

\* What an RPC is at each of its steps, and what it has been asked for.
CallAt ==
  \A c \in IsoCall :
    /\ isoCall[c].op = "upload" <=> isoCall[c].pc \in {"create", "recv", "save"}
    /\ isoCall[c].op = "remove" <=> isoCall[c].pc \in {"vms", "rows", "delete"}
    /\ isoCall[c].op \in {"upload", "remove"} => isoCall[c].iso \in IsoID
    /\ isoCall[c].op = "upload" => isoCall[c].image \in Image
    /\ isoCall[c].pc \in {"lock", "clear", "insert"} => isoCall[c].vm \in IsoVM
    /\ isoCall[c].pc = "lock" => isoCall[c].op = "attach"
    /\ isoCall[c].pc = "create" => isoCall[c].got = 0 /\ isoCall[c].ok
    /\ isoCall[c].pc = "save" => isoCall[c].got = 2 /\ isoCall[c].ok

-----------------------------------------------------------------------------
\* No two ISOs have one name.
NamesOnce == \A i, j \in IsoID : IsIso(i) /\ IsIso(j) /\ IsoName[i] = IsoName[j] => i = j

\* An upload has made its file, and nobody can take it away.
UploadOnDisk == \A c \in IsoCall, n \in IsoNames : Uploading(c, n) => n \in isoOnDisk

\* Whatever has the name of the file is the ISO of the only upload to it, which has written
\* what it has received.
UploadAlone ==
  \A c \in IsoCall, n \in IsoNames : Uploading(c, n) /\ n \notin isoSpoiled =>
    /\ \A b \in IsoCall : Uploading(b, n) => b = c
    /\ \A i \in IsoID : IsIso(i) /\ IsoName[i] = n => i = isoCall[c].iso
    /\ Len(isoFile[n]) = isoCall[c].got
    /\ isoCall[c].ok => \A k \in 1 .. isoCall[c].got : isoFile[n][k] = isoCall[c].image

FileInv == NamesOnce /\ UploadOnDisk /\ UploadAlone /\ ChecksumHonest

-----------------------------------------------------------------------------
\* What RemoveISO has not found attached is attached in a race only.
RemoverLooked ==
  \A c \in IsoCall : isoCall[c].pc \in {"rows", "delete"} =>
    \A v \in IsoVM : isoCall[c].iso \in vmIsos[v] => isoCall[c].iso \in isoRaced

\* SetVMISOs attaches an ISO, or one that is gone by now.
AttachesIso ==
  \A c \in IsoCall : isoCall[c].pc = "lock" /\ isoCall[c].iso \in IsoID =>
    IsIso(isoCall[c].iso) \/ isoCall[c].iso \in isoRaced

AttachInv == RemoverLooked /\ AttachesIso /\ AttachedExists

IsoInv == IsoTypeOK /\ CallAt /\ FileInv /\ AttachInv
-----------------------------------------------------------------------------
\* The four RPCs begin.
CallBegins(c) ==
  /\ isoCall[c].pc = "idle"
  /\ \E k \in IsoCallState :
       /\ isoCall' = [isoCall EXCEPT ![c] = k]
       /\ k.got = 0 /\ k.ok
       /\ \/ k.op = "upload" /\ k.pc = "create" /\ k.iso \in IsoID /\ k.image \in Image
          \/ k.op = "remove" /\ k.pc = "vms" /\ k.iso \in IsoID
          \/ /\ k.op = "attach" /\ k.pc = "lock" /\ k.vm \in IsoVM
             /\ k.iso \in IsoID => IsIso(k.iso)
          \/ k.op = "save" /\ k.pc = "clear" /\ k.vm \in IsoVM
  /\ UNCHANGED <<isoRow, isoFiles, isoAttached, isoSpoiled, isoRaced>>

LEMMA PcTyped ==
  ASSUME NEW k \in IsoCallState,
         NEW stage \in {"recv", "save", "rows", "delete", "clear", "insert"}
  PROVE  [k EXCEPT !.pc = stage] \in IsoCallState
BY DEF IsoCallState

LEMMA GotTyped ==
  ASSUME NEW k \in IsoCallState, NEW got \in 0 .. 2, NEW ok \in BOOLEAN
  PROVE  [k EXCEPT !.got = got, !.ok = ok] \in IsoCallState
BY DEF IsoCallState

LEMMA NoIsoCallTyped == NoCall \in IsoCallState
BY DEF NoCall, IsoCallState

LEMMA NewCall ==
  ASSUME NEW op \in {"upload", "remove", "attach", "save"}, NEW stage \in {"create", "vms", "lock", "clear"},
         NEW i \in IsoID \cup {0}, NEW v \in IsoVM \cup {"none"}, NEW d \in Image \cup {NoSum},
         NEW c, IsoBegin(c, op, stage, i, v, d)
  PROVE  /\ isoCall[c].pc = "idle"
         /\ \E k \in IsoCallState :
              /\ isoCall' = [isoCall EXCEPT ![c] = k]
              /\ k.op = op /\ k.pc = stage /\ k.iso = i /\ k.vm = v /\ k.image = d /\ k.got = 0 /\ k.ok
<1>. DEFINE k == [op |-> op, pc |-> stage, iso |-> i, vm |-> v, image |-> d, got |-> 0, ok |-> TRUE]
<1>1. /\ k \in IsoCallState
      /\ k.op = op /\ k.pc = stage /\ k.iso = i /\ k.vm = v /\ k.image = d /\ k.got = 0 /\ k.ok
  BY DEF IsoCallState
<1>2. isoCall[c].pc = "idle" /\ isoCall' = [isoCall EXCEPT ![c] = k]
  BY DEF IsoBegin, IsoAt
<1>. HIDE DEF k
<1>3. QED
  BY <1>1, <1>2

LEMMA BeginDoes ==
  ASSUME NEW c \in IsoCall, UploadIso(c) \/ RemoveISO(c) \/ SetVMISOs(c) \/ SomeSave(c)
  PROVE  CallBegins(c)
<1>1. CASE UploadIso(c)
  <2>1. PICK i \in IsoID, d \in Image : IsoBegin(c, "upload", "create", i, "none", d)
    BY <1>1 DEF UploadIso
  <2>2. QED
    BY <1>1, <2>1, NewCall DEF UploadIso, CallBegins
<1>2. CASE RemoveISO(c)
  <2>1. PICK i \in IsoID : IsoBegin(c, "remove", "vms", i, "none", NoSum)
    BY <1>2 DEF RemoveISO
  <2>2. QED
    BY <1>2, <2>1, NewCall DEF RemoveISO, CallBegins
<1>3. CASE SetVMISOs(c)
  <2>1. PICK v \in IsoVM, i \in {j \in IsoID : IsIso(j)} \cup {0} :
          IsoBegin(c, "attach", "lock", i, v, NoSum)
    BY <1>3 DEF SetVMISOs
  <2>2. i \in IsoID \cup {0} /\ (i \in IsoID => IsIso(i))
    BY IsoConstants
  <2>. DEFINE k == [op |-> "attach", pc |-> "lock", iso |-> i, vm |-> v, image |-> NoSum,
                    got |-> 0, ok |-> TRUE]
  <2>3. /\ k \in IsoCallState /\ k.got = 0 /\ k.ok
        /\ k.op = "attach" /\ k.pc = "lock" /\ k.iso = i /\ k.vm \in IsoVM
    BY <2>2 DEF IsoCallState
  <2>4. isoCall[c].pc = "idle" /\ isoCall' = [isoCall EXCEPT ![c] = k]
    BY <2>1 DEF IsoBegin, IsoAt
  <2>. HIDE DEF k
  <2>5. UNCHANGED <<isoRow, isoFiles, isoAttached, isoSpoiled, isoRaced>>
    BY <1>3 DEF SetVMISOs
  <2>6. QED
    BY <2>2, <2>3, <2>4, <2>5 DEF CallBegins
<1>4. CASE SomeSave(c)
  <2>1. PICK v \in IsoVM : IsoBegin(c, "save", "clear", 0, v, NoSum)
    BY <1>4 DEF SomeSave
  <2>2. QED
    BY <1>4, <2>1, NewCall DEF SomeSave, CallBegins
<1>5. QED
  BY <1>1, <1>2, <1>3, <1>4

-----------------------------------------------------------------------------
\* Writing a chunk leaves a file of at most two; at the end of the file it appends.
LEMMA WriteAtTyped ==
  ASSUME NEW file \in Seq(Chunk), Len(file) <= 2, NEW k \in 1 .. 2, NEW x \in Chunk
  PROVE  /\ WriteAt(file, k, x) \in Seq(Chunk) /\ Len(WriteAt(file, k, x)) <= 2
         /\ k = Len(file) + 1 =>
              /\ Len(WriteAt(file, k, x)) = k /\ WriteAt(file, k, x)[k] = x
              /\ \A j \in 1 .. k - 1 : WriteAt(file, k, x)[j] = file[j]
<1>. DEFINE m == IF Len(file) > k THEN Len(file) ELSE k
<1>0. Len(file) \in Nat
  BY LenProperties
<1>1. m \in 1 .. 2 /\ m \in Nat /\ k <= m
  BY <1>0, SMTT(30)
<1>2. \A j \in 1 .. m : (IF j = k THEN x ELSE IF j <= Len(file) THEN file[j] ELSE Hole) \in Chunk
  BY DEF Chunk
<1>3. WriteAt(file, k, x) = [j \in 1 .. m |-> IF j = k THEN x ELSE
                                                IF j <= Len(file) THEN file[j] ELSE Hole]
  BY DEF WriteAt
<1>. HIDE DEF m
<1>4. WriteAt(file, k, x) \in Seq(Chunk) /\ Len(WriteAt(file, k, x)) = m
  BY <1>1, <1>2, <1>3
<1>5. ASSUME k = Len(file) + 1
      PROVE  /\ m = k /\ WriteAt(file, k, x)[k] = x
             /\ \A j \in 1 .. k - 1 : WriteAt(file, k, x)[j] = file[j]
  BY <1>1, <1>3, <1>5 DEF m
<1>6. QED
  BY <1>1, <1>4, <1>5

LEMMA IsoInitInv == IsoInit => IsoInv
<1>. SUFFICES ASSUME IsoInit PROVE IsoInv
  OBVIOUS
<1>1. NoCall \in IsoCallState /\ NoCall.pc = "idle" /\ NoCall.op = "none"
  BY DEF NoCall, IsoCallState
<1>2. << >> \in Seq(Chunk) /\ Len(<< >>) = 0
  OBVIOUS
<1>. HIDE DEF NoCall
<1>3. IsoTypeOK
  BY <1>1, <1>2 DEF IsoInit, IsoIdle, IsoTypeOK
<1>4. CallAt /\ AttachInv
  BY <1>1 DEF IsoInit, IsoIdle, CallAt, AttachInv, RemoverLooked, AttachesIso, AttachedExists
<1>5. FileInv
  BY <1>1 DEF IsoInit, IsoIdle, FileInv, NamesOnce, UploadOnDisk, UploadAlone, ChecksumHonest,
     Uploading, IsIso
<1>6. QED
  BY <1>3, <1>4, <1>5 DEF IsoInv

LEMMA IsoTypeStep ==
  ASSUME IsoTypeOK, CallAt, [IsoNext]_isoVars
  PROVE  IsoTypeOK'
<1>. USE IsoConstants DEF IsoTypeOK, CallAt
<1>1. ASSUME NEW i \in IsoID, AddISO(i) PROVE IsoTypeOK'
  BY <1>1 DEF AddISO, isoFiles, isoAttached
<1>2. ASSUME NEW n \in IsoNames, FileRemoved(n) PROVE IsoTypeOK'
  BY <1>2 DEF FileRemoved, isoAttached
<1>3. ASSUME NEW c \in IsoCall, CallBegins(c) PROVE IsoTypeOK'
  BY <1>3 DEF CallBegins, isoFiles, isoAttached
<1>4. ASSUME NEW c \in IsoCall, UploadCreate(c) PROVE IsoTypeOK'
  <2>1. NameOf(c) \in IsoNames
    BY <1>4 DEF UploadCreate, IsoAt, NameOf, IsoNames
  <2>2. isoFile' \in [IsoNames -> Seq(Chunk)] /\ \A n \in IsoNames : Len(isoFile[n]') <= 2
    BY <1>4, <2>1, EmptySeq DEF UploadCreate
  <2>3. isoCall' \in [IsoCall -> IsoCallState]
    BY <1>4, PcTyped DEF UploadCreate, IsoGoto
  <2>4. QED
    BY <1>4, <2>1, <2>2, <2>3 DEF UploadCreate, IsoGoto, isoAttached
<1>5. ASSUME NEW c \in IsoCall, UploadChunk(c) PROVE IsoTypeOK'
  <2>1. NameOf(c) \in IsoNames /\ isoCall[c].image \in Image
    BY <1>5 DEF UploadChunk, IsoAt, NameOf, IsoNames
  <2>2. PICK x \in {isoCall[c].image, Hole} :
          /\ isoFile' = [isoFile EXCEPT ![NameOf(c)] = WriteAt(@, isoCall[c].got + 1, x)]
          /\ isoCall' = [isoCall EXCEPT ![c].got = @ + 1, ![c].ok = @ /\ x = isoCall[c].image]
    BY <1>5 DEF UploadChunk
  <2>3. isoCall[c].got + 1 \in 1 .. 2
    BY <1>5 DEF UploadChunk, IsoCallState
  <2>4. /\ WriteAt(isoFile[NameOf(c)], isoCall[c].got + 1, x) \in Seq(Chunk)
        /\ Len(WriteAt(isoFile[NameOf(c)], isoCall[c].got + 1, x)) <= 2
    BY <2>1, <2>3, WriteAtTyped DEF Chunk
  <2>5. isoCall' \in [IsoCall -> IsoCallState]
    <3>. DEFINE ok == isoCall[c].ok /\ x = isoCall[c].image
                k == [isoCall[c] EXCEPT !.got = isoCall[c].got + 1, !.ok = ok]
    <3>1. ok \in BOOLEAN /\ isoCall[c].got + 1 \in 0 .. 2
      BY <2>3
    <3>2. isoCall' = [isoCall EXCEPT ![c] = k]
      BY <2>2
    <3>. HIDE DEF ok
    <3>3. k \in IsoCallState
      BY <3>1, GotTyped
    <3>. HIDE DEF k
    <3>4. QED
      BY <3>2, <3>3
  <2>6. QED
    BY <1>5, <2>1, <2>2, <2>4, <2>5 DEF UploadChunk, isoAttached
<1>6. ASSUME NEW c \in IsoCall, UploadVerify(c) PROVE IsoTypeOK'
  <2>1. isoCall' \in [IsoCall -> IsoCallState]
    BY <1>6, PcTyped DEF UploadVerify, IsoGoto
  <2>2. QED
    BY <1>6, <2>1 DEF UploadVerify, isoFiles, isoAttached
<1>7. ASSUME NEW c \in IsoCall, UploadSave(c) PROVE IsoTypeOK'
  BY <1>7, NoIsoCallTyped DEF UploadSave, IsoAt, IsoReturn, isoFiles, isoAttached
<1>8. ASSUME NEW c \in IsoCall, UploadFails(c) PROVE IsoTypeOK'
  <2>1. isoCall' \in [IsoCall -> IsoCallState]
    BY <1>8, NoIsoCallTyped DEF UploadFails, IsoReturn
  <2>2. NameOf(c) \in IsoNames
    BY <1>8 DEF UploadFails, NameOf, IsoNames
  <2>3. QED
    BY <1>8, <2>1, <2>2 DEF UploadFails, isoFiles, isoAttached
<1>9. ASSUME NEW c \in IsoCall, RemoveLooksAtVMs(c) PROVE IsoTypeOK'
  <2>1. isoCall' \in [IsoCall -> IsoCallState]
    <3>1. CASE IsoReturn(c)
      BY <3>1, NoIsoCallTyped DEF IsoReturn
    <3>2. CASE IsoGoto(c, "rows")
      BY <3>2, PcTyped DEF IsoGoto
    <3>3. QED
      BY <1>9, <3>1, <3>2 DEF RemoveLooksAtVMs
  <2>2. QED
    BY <1>9, <2>1 DEF RemoveLooksAtVMs, isoFiles, isoAttached
<1>10. ASSUME NEW c \in IsoCall, InUse(c) PROVE IsoTypeOK'
  <2>1. isoCall' \in [IsoCall -> IsoCallState]
    <3>1. CASE IsoReturn(c)
      BY <3>1, NoIsoCallTyped DEF IsoReturn
    <3>2. CASE IsoGoto(c, "delete")
      BY <3>2, PcTyped DEF IsoGoto
    <3>3. QED
      BY <1>10, <3>1, <3>2 DEF InUse
  <2>2. QED
    BY <1>10, <2>1 DEF InUse, isoFiles, isoAttached
<1>11. ASSUME NEW c \in IsoCall, DeleteIso(c) PROVE IsoTypeOK'
  BY <1>11, NoIsoCallTyped DEF DeleteIso, IsoAt, IsoReturn, isoFiles, isoAttached
<1>12. ASSUME NEW c \in IsoCall, AttachLocked(c) PROVE IsoTypeOK'
  <2>1. isoCall' \in [IsoCall -> IsoCallState]
    BY <1>12, PcTyped DEF AttachLocked, IsoGoto
  <2>2. isoCall[c].vm \in IsoVM /\ isoCall[c].iso \in IsoID \cup {0}
    BY <1>12 DEF AttachLocked, IsoAt, IsoCallState
  <2>3. vmIsos' \in [IsoVM -> SUBSET IsoID] /\ isoRaced' \subseteq IsoID
    BY <1>12, <2>2 DEF AttachLocked
  <2>4. QED
    BY <1>12, <2>1, <2>2, <2>3 DEF AttachLocked, isoFiles
<1>13. ASSUME NEW c \in IsoCall, SaveClears(c) PROVE IsoTypeOK'
  <2>1. isoCall' \in [IsoCall -> IsoCallState]
    BY <1>13, PcTyped DEF SaveClears, IsoGoto
  <2>2. isoAttRows' \subseteq isoAttRows
    BY <1>13 DEF SaveClears
  <2>3. QED
    BY <1>13, <2>1, <2>2 DEF SaveClears, isoFiles
<1>14. ASSUME NEW c \in IsoCall, SaveInserts(c) PROVE IsoTypeOK'
  BY <1>14, NoIsoCallTyped DEF SaveInserts, IsoAt, IsoReturn, isoFiles
<1>15. CASE IsoRestart
  BY <1>15, NoIsoCallTyped DEF IsoRestart, isoFiles
<1>16. CASE UNCHANGED isoVars
  BY <1>16 DEF isoVars
<1>17. QED
  BY <1>1, <1>2, <1>3, <1>4, <1>5, <1>6, <1>7, <1>8, <1>9, <1>10, <1>11, <1>12, <1>13, <1>14,
     <1>15, <1>16, BeginDoes DEF IsoNext

LEMMA CallAtStep ==
  ASSUME IsoTypeOK, CallAt, [IsoNext]_isoVars
  PROVE  CallAt'
<1>. USE IsoConstants DEF IsoTypeOK, CallAt, IsoCallState
<1>1. ASSUME NEW i \in IsoID, AddISO(i) PROVE CallAt'
  BY <1>1 DEF AddISO, isoFiles, isoAttached
<1>2. ASSUME NEW n \in IsoNames, FileRemoved(n) PROVE CallAt'
  BY <1>2 DEF FileRemoved, isoAttached
<1>3. ASSUME NEW c \in IsoCall, CallBegins(c) PROVE CallAt'
  BY <1>3 DEF CallBegins, isoFiles, isoAttached
<1>4. ASSUME NEW c \in IsoCall, UploadCreate(c) PROVE CallAt'
  BY <1>4 DEF UploadCreate, IsoAt, IsoGoto, isoAttached
<1>5. ASSUME NEW c \in IsoCall, UploadChunk(c) PROVE CallAt'
  BY <1>5 DEF UploadChunk, IsoAt, isoAttached
<1>6. ASSUME NEW c \in IsoCall, UploadVerify(c) PROVE CallAt'
  BY <1>6 DEF UploadVerify, IsoAt, IsoGoto, isoFiles, isoAttached
<1>7. ASSUME NEW c \in IsoCall, UploadSave(c) PROVE CallAt'
  BY <1>7 DEF UploadSave, IsoAt, IsoReturn, NoCall, isoFiles, isoAttached
<1>8. ASSUME NEW c \in IsoCall, UploadFails(c) PROVE CallAt'
  BY <1>8 DEF UploadFails, IsoReturn, NoCall, isoFiles, isoAttached
<1>9. ASSUME NEW c \in IsoCall, RemoveLooksAtVMs(c) PROVE CallAt'
  <2>1. isoCall[c].pc = "vms"
    BY <1>9 DEF RemoveLooksAtVMs, IsoAt
  <2>2. CASE IsoReturn(c)
    BY <1>9, <2>1, <2>2 DEF RemoveLooksAtVMs, IsoReturn, NoCall, isoFiles, isoAttached
  <2>3. CASE IsoGoto(c, "rows")
    BY <1>9, <2>1, <2>3 DEF RemoveLooksAtVMs, IsoGoto, isoFiles, isoAttached
  <2>4. QED
    BY <1>9, <2>2, <2>3 DEF RemoveLooksAtVMs
<1>10. ASSUME NEW c \in IsoCall, InUse(c) PROVE CallAt'
  <2>1. isoCall[c].pc = "rows"
    BY <1>10 DEF InUse, IsoAt
  <2>2. CASE IsoReturn(c)
    BY <1>10, <2>1, <2>2 DEF InUse, IsoReturn, NoCall, isoFiles, isoAttached
  <2>3. CASE IsoGoto(c, "delete")
    BY <1>10, <2>1, <2>3 DEF InUse, IsoGoto, isoFiles, isoAttached
  <2>4. QED
    BY <1>10, <2>2, <2>3 DEF InUse
<1>11. ASSUME NEW c \in IsoCall, DeleteIso(c) PROVE CallAt'
  BY <1>11 DEF DeleteIso, IsoAt, IsoReturn, NoCall, isoFiles, isoAttached
<1>12. ASSUME NEW c \in IsoCall, AttachLocked(c) PROVE CallAt'
  BY <1>12 DEF AttachLocked, IsoAt, IsoGoto, isoFiles
<1>13. ASSUME NEW c \in IsoCall, SaveClears(c) PROVE CallAt'
  BY <1>13 DEF SaveClears, IsoAt, IsoGoto, isoFiles
<1>14. ASSUME NEW c \in IsoCall, SaveInserts(c) PROVE CallAt'
  BY <1>14 DEF SaveInserts, IsoAt, IsoReturn, NoCall, isoFiles
<1>15. CASE IsoRestart
  BY <1>15 DEF IsoRestart, NoCall, isoFiles
<1>16. CASE UNCHANGED isoVars
  BY <1>16 DEF isoVars
<1>17. QED
  BY <1>1, <1>2, <1>3, <1>4, <1>5, <1>6, <1>7, <1>8, <1>9, <1>10, <1>11, <1>12, <1>13, <1>14,
     <1>15, <1>16, BeginDoes DEF IsoNext

LEMMA NamesStep ==
  ASSUME IsoTypeOK, CallAt, FileInv, [IsoNext]_isoVars
  PROVE  NamesOnce' /\ UploadOnDisk'
<1>. USE IsoConstants
        DEF IsoTypeOK, CallAt, IsoCallState, FileInv, NamesOnce, UploadOnDisk, Uploading, NameOf,
            IsIso, IsoNames
<1>1. ASSUME NEW i \in IsoID, AddISO(i) PROVE NamesOnce' /\ UploadOnDisk'
  BY <1>1 DEF AddISO, isoFiles, isoAttached
<1>2. ASSUME NEW n \in IsoNames, FileRemoved(n) PROVE NamesOnce' /\ UploadOnDisk'
  BY <1>2 DEF FileRemoved, isoAttached
<1>3. ASSUME NEW c \in IsoCall, CallBegins(c) PROVE NamesOnce' /\ UploadOnDisk'
  BY <1>3 DEF CallBegins, isoFiles, isoAttached
<1>4. ASSUME NEW c \in IsoCall, UploadCreate(c) PROVE NamesOnce' /\ UploadOnDisk'
  BY <1>4 DEF UploadCreate, IsoAt, IsoGoto, isoAttached
<1>5. ASSUME NEW c \in IsoCall, UploadChunk(c) PROVE NamesOnce' /\ UploadOnDisk'
  BY <1>5 DEF UploadChunk, IsoAt, isoAttached
<1>6. ASSUME NEW c \in IsoCall, UploadVerify(c) PROVE NamesOnce' /\ UploadOnDisk'
  BY <1>6 DEF UploadVerify, IsoAt, IsoGoto, isoFiles, isoAttached
<1>7. ASSUME NEW c \in IsoCall, UploadSave(c) PROVE NamesOnce' /\ UploadOnDisk'
  BY <1>7 DEF UploadSave, IsoAt, IsoReturn, NoCall, isoFiles, isoAttached
<1>8. ASSUME NEW c \in IsoCall, UploadFails(c) PROVE NamesOnce' /\ UploadOnDisk'
  BY <1>8 DEF UploadFails, IsoReturn, NoCall, isoFiles, isoAttached
<1>9. ASSUME NEW c \in IsoCall, RemoveLooksAtVMs(c) PROVE NamesOnce' /\ UploadOnDisk'
  <2>1. isoCall[c].pc = "vms"
    BY <1>9 DEF RemoveLooksAtVMs, IsoAt
  <2>2. CASE IsoReturn(c)
    BY <1>9, <2>1, <2>2 DEF RemoveLooksAtVMs, IsoReturn, NoCall, isoFiles, isoAttached
  <2>3. CASE IsoGoto(c, "rows")
    BY <1>9, <2>1, <2>3 DEF RemoveLooksAtVMs, IsoGoto, isoFiles, isoAttached
  <2>4. QED
    BY <1>9, <2>2, <2>3 DEF RemoveLooksAtVMs
<1>10. ASSUME NEW c \in IsoCall, InUse(c) PROVE NamesOnce' /\ UploadOnDisk'
  <2>1. isoCall[c].pc = "rows"
    BY <1>10 DEF InUse, IsoAt
  <2>2. CASE IsoReturn(c)
    BY <1>10, <2>1, <2>2 DEF InUse, IsoReturn, NoCall, isoFiles, isoAttached
  <2>3. CASE IsoGoto(c, "delete")
    BY <1>10, <2>1, <2>3 DEF InUse, IsoGoto, isoFiles, isoAttached
  <2>4. QED
    BY <1>10, <2>2, <2>3 DEF InUse
<1>11. ASSUME NEW c \in IsoCall, DeleteIso(c) PROVE NamesOnce' /\ UploadOnDisk'
  BY <1>11 DEF DeleteIso, IsoAt, IsoReturn, NoCall, isoFiles, isoAttached
<1>12. ASSUME NEW c \in IsoCall, AttachLocked(c) PROVE NamesOnce' /\ UploadOnDisk'
  BY <1>12 DEF AttachLocked, IsoAt, IsoGoto, isoFiles
<1>13. ASSUME NEW c \in IsoCall, SaveClears(c) PROVE NamesOnce' /\ UploadOnDisk'
  BY <1>13 DEF SaveClears, IsoAt, IsoGoto, isoFiles
<1>14. ASSUME NEW c \in IsoCall, SaveInserts(c) PROVE NamesOnce' /\ UploadOnDisk'
  BY <1>14 DEF SaveInserts, IsoAt, IsoReturn, NoCall, isoFiles
<1>15. CASE IsoRestart
  BY <1>15 DEF IsoRestart, NoCall, isoFiles
<1>16. CASE UNCHANGED isoVars
  BY <1>16 DEF isoVars
<1>17. QED
  BY <1>1, <1>2, <1>3, <1>4, <1>5, <1>6, <1>7, <1>8, <1>9, <1>10, <1>11, <1>12, <1>13, <1>14,
     <1>15, <1>16, BeginDoes DEF IsoNext

LEMMA AttachStep ==
  ASSUME IsoTypeOK, CallAt, AttachInv, [IsoNext]_isoVars
  PROVE  AttachInv'
<1>. USE IsoConstants
        DEF IsoTypeOK, CallAt, IsoCallState, AttachInv, RemoverLooked, AttachesIso,
            AttachedExists, IsIso
<1>1. ASSUME NEW i \in IsoID, AddISO(i) PROVE AttachInv'
  BY <1>1 DEF AddISO, isoFiles, isoAttached
<1>2. ASSUME NEW n \in IsoNames, FileRemoved(n) PROVE AttachInv'
  BY <1>2 DEF FileRemoved, isoAttached
<1>3. ASSUME NEW c \in IsoCall, CallBegins(c) PROVE AttachInv'
  BY <1>3 DEF CallBegins, isoFiles, isoAttached
<1>4. ASSUME NEW c \in IsoCall, UploadCreate(c) PROVE AttachInv'
  BY <1>4 DEF UploadCreate, IsoAt, IsoGoto, isoAttached
<1>5. ASSUME NEW c \in IsoCall, UploadChunk(c) PROVE AttachInv'
  BY <1>5 DEF UploadChunk, IsoAt, isoAttached
<1>6. ASSUME NEW c \in IsoCall, UploadVerify(c) PROVE AttachInv'
  BY <1>6 DEF UploadVerify, IsoAt, IsoGoto, isoFiles, isoAttached
<1>7. ASSUME NEW c \in IsoCall, UploadSave(c) PROVE AttachInv'
  BY <1>7 DEF UploadSave, IsoAt, IsoReturn, NoCall, isoFiles, isoAttached
<1>8. ASSUME NEW c \in IsoCall, UploadFails(c) PROVE AttachInv'
  BY <1>8 DEF UploadFails, IsoReturn, NoCall, isoFiles, isoAttached
<1>9. ASSUME NEW c \in IsoCall, RemoveLooksAtVMs(c) PROVE AttachInv'
  <2>1. isoCall[c].pc = "vms"
    BY <1>9 DEF RemoveLooksAtVMs, IsoAt
  <2>2. CASE IsoReturn(c)
    BY <1>9, <2>1, <2>2 DEF RemoveLooksAtVMs, IsoReturn, NoCall, isoFiles, isoAttached
  <2>3. CASE IsoGoto(c, "rows") /\ \A v \in IsoVM : isoCall[c].iso \notin vmIsos[v]
    BY <1>9, <2>1, <2>3 DEF RemoveLooksAtVMs, IsoGoto, isoFiles, isoAttached
  <2>4. QED
    BY <1>9, <2>2, <2>3 DEF RemoveLooksAtVMs
<1>10. ASSUME NEW c \in IsoCall, InUse(c) PROVE AttachInv'
  <2>1. isoCall[c].pc = "rows"
    BY <1>10 DEF InUse, IsoAt
  <2>2. CASE IsoReturn(c)
    BY <1>10, <2>1, <2>2 DEF InUse, IsoReturn, NoCall, isoFiles, isoAttached
  <2>3. CASE IsoGoto(c, "delete")
    BY <1>10, <2>1, <2>3 DEF InUse, IsoGoto, isoFiles, isoAttached
  <2>4. QED
    BY <1>10, <2>2, <2>3 DEF InUse
<1>11. ASSUME NEW c \in IsoCall, DeleteIso(c) PROVE AttachInv'
  BY <1>11 DEF DeleteIso, IsoAt, IsoReturn, NoCall, isoFiles, isoAttached
<1>12. ASSUME NEW c \in IsoCall, AttachLocked(c) PROVE AttachInv'
  BY <1>12 DEF AttachLocked, IsoAt, IsoGoto, isoFiles
<1>13. ASSUME NEW c \in IsoCall, SaveClears(c) PROVE AttachInv'
  BY <1>13 DEF SaveClears, IsoAt, IsoGoto, isoFiles
<1>14. ASSUME NEW c \in IsoCall, SaveInserts(c) PROVE AttachInv'
  BY <1>14 DEF SaveInserts, IsoAt, IsoReturn, NoCall, isoFiles
<1>15. CASE IsoRestart
  BY <1>15 DEF IsoRestart, NoCall, isoFiles
<1>16. CASE UNCHANGED isoVars
  BY <1>16 DEF isoVars
<1>17. QED
  BY <1>1, <1>2, <1>3, <1>4, <1>5, <1>6, <1>7, <1>8, <1>9, <1>10, <1>11, <1>12, <1>13, <1>14,
     <1>15, <1>16, BeginDoes DEF IsoNext

\* What UploadAlone and ChecksumHonest say of one file.
HonestAt(n) ==
  /\ \A c \in IsoCall : Uploading(c, n) /\ n \notin isoSpoiled =>
       /\ \A b \in IsoCall : Uploading(b, n) => b = c
       /\ \A i \in IsoID : IsIso(i) /\ IsoName[i] = n => i = isoCall[c].iso
       /\ Len(isoFile[n]) = isoCall[c].got
       /\ isoCall[c].ok => \A k \in 1 .. isoCall[c].got : isoFile[n][k] = isoCall[c].image
  /\ \A i \in IsoID : IsoName[i] = n /\ IsIso(i) /\ isoRow[i] # NoSum =>
       \/ isoFile[n] = <<isoRow[i], isoRow[i]>>
       \/ n \in isoSpoiled
       \/ \E c \in IsoCall : Uploading(c, n)

LEMMA FileByFile ==
  /\ FileInv => \A n \in IsoNames : HonestAt(n)
  /\ (\A n \in IsoNames : HonestAt(n)') => UploadAlone' /\ ChecksumHonest'
<1>1. ASSUME FileInv, NEW n \in IsoNames PROVE HonestAt(n)
  <2>1. \A c \in IsoCall : Uploading(c, n) /\ n \notin isoSpoiled =>
          /\ \A b \in IsoCall : Uploading(b, n) => b = c
          /\ \A i \in IsoID : IsIso(i) /\ IsoName[i] = n => i = isoCall[c].iso
          /\ Len(isoFile[n]) = isoCall[c].got
          /\ isoCall[c].ok => \A k \in 1 .. isoCall[c].got : isoFile[n][k] = isoCall[c].image
    BY <1>1 DEF FileInv, UploadAlone
  <2>2. \A i \in IsoID : IsoName[i] = n /\ IsIso(i) /\ isoRow[i] # NoSum =>
          \/ isoFile[n] = <<isoRow[i], isoRow[i]>>
          \/ n \in isoSpoiled
          \/ \E c \in IsoCall : Uploading(c, n)
    BY <1>1 DEF FileInv, ChecksumHonest
  <2>. QED
    BY <2>1, <2>2 DEF HonestAt
<1>2. ASSUME \A n \in IsoNames : HonestAt(n)' PROVE UploadAlone'
  BY <1>2 DEF UploadAlone, HonestAt
<1>3. ASSUME \A n \in IsoNames : HonestAt(n)' PROVE ChecksumHonest'
  <2>. SUFFICES ASSUME NEW i \in IsoID, IsIso(i)', isoRow'[i] # NoSum
                PROVE  \/ isoFile'[IsoName[i]] = <<isoRow'[i], isoRow'[i]>>
                       \/ IsoName[i] \in isoSpoiled'
                       \/ \E c \in IsoCall : Uploading(c, IsoName[i])'
    BY DEF ChecksumHonest
  <2>1. PICK n \in IsoNames : n = IsoName[i]
    BY DEF IsoNames
  <2>2. \/ isoFile'[n] = <<isoRow'[i], isoRow'[i]>>
        \/ n \in isoSpoiled'
        \/ \E c \in IsoCall : Uploading(c, n)'
    BY <1>3, <2>1 DEF HonestAt
  <2>3. QED
    BY <2>1, <2>2
<1>4. QED
  BY <1>1, <1>2, <1>3

\* A step that neither writes the file, nor uploads to it, nor makes a row of its name.
IsoAside(n) ==
  /\ isoFile'[n] = isoFile[n] /\ (n \in isoSpoiled' <=> n \in isoSpoiled)
  /\ \A i \in IsoID : IsoName[i] = n /\ IsIso(i)' => isoRow'[i] = isoRow[i]
  /\ \A b \in IsoCall : Uploading(b, n)' <=> Uploading(b, n)
  /\ \A b \in IsoCall : Uploading(b, n) =>
       /\ isoCall'[b].iso = isoCall[b].iso /\ isoCall'[b].image = isoCall[b].image
       /\ isoCall'[b].got = isoCall[b].got /\ isoCall'[b].ok = isoCall[b].ok

LEMMA AsideHonest ==
  ASSUME NEW n, HonestAt(n), IsoAside(n)
  PROVE  HonestAt(n)'
<1>1. \A i \in IsoID : IsoName[i] = n /\ IsIso(i)' => IsIso(i) /\ isoRow'[i] = isoRow[i]
  BY DEF IsoAside, IsIso
<1>2. ASSUME NEW c \in IsoCall, Uploading(c, n)', n \notin isoSpoiled'
      PROVE  /\ \A b \in IsoCall : Uploading(b, n)' => b = c
             /\ \A i \in IsoID : IsIso(i)' /\ IsoName[i] = n => i = isoCall'[c].iso
             /\ Len(isoFile'[n]) = isoCall'[c].got
             /\ isoCall'[c].ok => \A k \in 1 .. isoCall'[c].got : isoFile'[n][k] = isoCall'[c].image
  BY <1>1, <1>2 DEF HonestAt, IsoAside
<1>3. ASSUME NEW i \in IsoID, IsoName[i] = n, IsIso(i)', isoRow'[i] # NoSum
      PROVE  \/ isoFile'[n] = <<isoRow'[i], isoRow'[i]>>
             \/ n \in isoSpoiled'
             \/ \E c \in IsoCall : Uploading(c, n)'
  BY <1>1, <1>3 DEF HonestAt, IsoAside
<1>4. QED
  BY <1>2, <1>3 DEF HonestAt

\* A call that is no upload, before the step and after it.
LEMMA NoUploadAside ==
  ASSUME NEW c \in IsoCall, NEW n, UNCHANGED <<isoFile, isoSpoiled>>,
         \A i \in IsoID : IsIso(i)' => isoRow'[i] = isoRow[i],
         isoCall[c].op # "upload", isoCall'[c].op # "upload",
         \A b \in IsoCall \ {c} : isoCall'[b] = isoCall[b]
  PROVE  IsoAside(n)
BY DEF IsoAside, Uploading, NameOf

\* An upload, as far as the files of other names go.
LEMMA OtherFileAside ==
  ASSUME NEW c \in IsoCall, NEW n, n # NameOf(c),
         isoFile'[n] = isoFile[n], n \in isoSpoiled' <=> n \in isoSpoiled,
         \A i \in IsoID : IsoName[i] = n => isoRow'[i] = isoRow[i],
         isoCall'[c].op # "upload" \/ isoCall'[c].iso = isoCall[c].iso,
         \A b \in IsoCall \ {c} : isoCall'[b] = isoCall[b]
  PROVE  IsoAside(n)
BY DEF IsoAside, Uploading, NameOf

LEMMA HonestStep ==
  ASSUME IsoTypeOK, CallAt, FileInv, [IsoNext]_isoVars
  PROVE  UploadAlone' /\ ChecksumHonest'
<1>0. \A m \in IsoNames : HonestAt(m)
  BY FileByFile
<1>. SUFFICES \A m \in IsoNames : HonestAt(m)'
  BY FileByFile
<1>1. ASSUME NEW i \in IsoID, AddISO(i) PROVE \A m \in IsoNames : HonestAt(m)'
  <2>1. /\ UNCHANGED <<isoFile, isoCall, isoSpoiled>> /\ isoRow' = [isoRow EXCEPT ![i] = NoSum]
        /\ IsoName[i] \notin isoOnDisk
    BY <1>1 DEF AddISO, isoFiles
  <2>2. ASSUME NEW m \in IsoNames, m # IsoName[i] PROVE IsoAside(m)
    BY <2>1, <2>2 DEF IsoAside, Uploading, NameOf, IsoTypeOK
  <2>3. ASSUME NEW m \in IsoNames, m = IsoName[i] PROVE HonestAt(m)'
    <3>1. \A c \in IsoCall : ~Uploading(c, m)'
      BY <2>1, <2>3 DEF FileInv, UploadOnDisk, Uploading, NameOf
    <3>2. \A j \in IsoID : IsoName[j] = m /\ IsIso(j)' => isoRow'[j] = NoSum
      BY <1>1, <2>1, <2>3 DEF AddISO, IsIso, IsoTypeOK
    <3>3. QED
      BY <3>1, <3>2 DEF HonestAt
  <2>4. QED
    BY <1>0, <2>2, <2>3, AsideHonest
<1>2. ASSUME NEW n \in IsoNames, FileRemoved(n) PROVE \A m \in IsoNames : HonestAt(m)'
  <2>1. /\ UNCHANGED <<isoRow, isoCall, isoSpoiled>> /\ isoFile' = [isoFile EXCEPT ![n] = << >>]
        /\ n \in isoOnDisk /\ \A j \in IsoID : IsIso(j) => IsoName[j] # n
        /\ \A c \in IsoCall : ~Uploading(c, n)
    BY <1>2 DEF FileRemoved, Uploading
  <2>2. ASSUME NEW m \in IsoNames, m # n PROVE IsoAside(m)
    BY <2>1, <2>2 DEF IsoAside, Uploading, NameOf, IsoTypeOK
  <2>3. HonestAt(n)'
    BY <2>1 DEF HonestAt, Uploading, NameOf, IsIso
  <2>4. QED
    BY <1>0, <2>2, <2>3, AsideHonest
<1>3. ASSUME NEW c \in IsoCall, CallBegins(c) PROVE \A m \in IsoNames : HonestAt(m)'
  <2>1. ASSUME NEW m \in IsoNames PROVE IsoAside(m)
    BY <1>3 DEF CallBegins, isoFiles, isoAttached, IsoAside, Uploading, NameOf, IsoTypeOK, CallAt
  <2>2. QED
    BY <1>0, <2>1, AsideHonest
<1>4. ASSUME NEW c \in IsoCall, UploadCreate(c) PROVE \A m \in IsoNames : HonestAt(m)'
  <2>1. /\ NameOf(c) \in IsoNames /\ isoCall[c].op = "upload" /\ isoCall[c].iso \in IsoID
        /\ isoCall[c].got = 0
    BY <1>4 DEF UploadCreate, IsoAt, NameOf, IsoNames, CallAt
  <2>2. /\ isoCall'[c].iso = isoCall[c].iso /\ isoCall'[c].got = 0
        /\ \A b \in IsoCall \ {c} : isoCall'[b] = isoCall[b]
    BY <1>4, <2>1 DEF UploadCreate, IsoGoto, IsoTypeOK, IsoCallState
  <2>3. ASSUME NEW m \in IsoNames, m # NameOf(c) PROVE HonestAt(m)'
    BY <1>0, <1>4, <2>2, <2>3, OtherFileAside, AsideHonest DEF UploadCreate, IsoTypeOK
  <2>4. ASSUME NEW n \in IsoNames, n = NameOf(c) PROVE HonestAt(n)'
    <3>1. isoFile'[n] = << >> /\ isoRow' = isoRow
      BY <1>4, <2>4 DEF UploadCreate, IsoTypeOK
    <3>2. Uploading(c, n)'
      BY <1>4, <2>1, <2>2, <2>4
         DEF UploadCreate, IsoGoto, IsoTypeOK, IsoCallState, Uploading, NameOf
    <3>3. n \notin isoSpoiled' =>
            IsIso(isoCall[c].iso) /\ \A b \in IsoCall : ~Uploading(b, n)
      BY <1>4, <2>4 DEF UploadCreate
    <3>4. \A b \in IsoCall \ {c} : Uploading(b, n)' <=> Uploading(b, n)
      BY <2>2 DEF Uploading, NameOf
    <3>5. ASSUME IsIso(isoCall[c].iso)
          PROVE  \A i \in IsoID : IsIso(i)' /\ IsoName[i] = n => i = isoCall'[c].iso
      BY <2>1, <2>2, <2>4, <3>1, <3>5 DEF FileInv, NamesOnce, NameOf, IsIso
    <3>6. \A b \in IsoCall : Uploading(b, n)' /\ n \notin isoSpoiled' => b = c
      BY <3>3, <3>4
    <3>7. Len(isoFile'[n]) = isoCall'[c].got /\ 1 .. isoCall'[c].got = {}
      BY <2>2, <3>1
    <3>8. QED
      BY <3>2, <3>3, <3>5, <3>6, <3>7 DEF HonestAt
  <2>5. QED
    BY <2>3, <2>4
<1>5. ASSUME NEW c \in IsoCall, UploadChunk(c) PROVE \A m \in IsoNames : HonestAt(m)'
  <2>1. /\ NameOf(c) \in IsoNames /\ isoCall[c].op = "upload" /\ isoCall[c].pc = "recv"
        /\ isoCall[c].got \in 0 .. 1 /\ isoCall[c].image \in Image
    BY <1>5 DEF UploadChunk, IsoAt, NameOf, IsoNames, CallAt, IsoTypeOK, IsoCallState
  <2>2. PICK x \in {isoCall[c].image, Hole} :
          /\ isoFile' = [isoFile EXCEPT ![NameOf(c)] = WriteAt(@, isoCall[c].got + 1, x)]
          /\ isoCall' = [isoCall EXCEPT ![c].got = @ + 1, ![c].ok = @ /\ x = isoCall[c].image]
    BY <1>5 DEF UploadChunk
  <2>3. /\ isoCall'[c].op = "upload" /\ isoCall'[c].pc = "recv"
        /\ isoCall'[c].iso = isoCall[c].iso /\ isoCall'[c].image = isoCall[c].image
        /\ isoCall'[c].got = isoCall[c].got + 1
        /\ isoCall'[c].ok => isoCall[c].ok /\ x = isoCall[c].image
        /\ \A b \in IsoCall \ {c} : isoCall'[b] = isoCall[b]
    BY <2>1, <2>2 DEF IsoTypeOK, IsoCallState
  <2>4. UNCHANGED <<isoRow, isoSpoiled>>
    BY <1>5 DEF UploadChunk
  <2>5. ASSUME NEW m \in IsoNames, m # NameOf(c) PROVE HonestAt(m)'
    BY <1>0, <2>2, <2>3, <2>4, <2>5, OtherFileAside, AsideHonest DEF IsoTypeOK
  <2>6. ASSUME NEW n \in IsoNames, n = NameOf(c) PROVE HonestAt(n)'
    <3>. DEFINE k == isoCall[c].got + 1
                file == isoFile[n]
    <3>1. /\ file \in Seq(Chunk) /\ Len(file) <= 2
          /\ k \in 1 .. 2 /\ x \in Chunk /\ isoFile'[n] = WriteAt(file, k, x)
      BY <2>1, <2>2, <2>6 DEF IsoTypeOK, Chunk
    <3>2. \A b \in IsoCall : Uploading(b, n)' <=> Uploading(b, n)
      BY <2>1, <2>3 DEF Uploading, NameOf
    <3>3. Uploading(c, n)
      BY <2>1, <2>6 DEF Uploading
    <3>5. HonestAt(n)
      BY <1>0
    <3>6. isoCall'[c].got = k
      BY <2>3
    <3>7. n \notin isoSpoiled => k = Len(file) + 1
      BY <3>3, <3>5 DEF HonestAt
    <3>. HIDE DEF file
    <3>8. n \notin isoSpoiled =>
            /\ Len(isoFile'[n]) = k /\ isoFile'[n][k] = x
            /\ \A j \in 1 .. k - 1 : isoFile'[n][j] = file[j]
      <4>. HIDE DEF k
      <4>1. k = Len(file) + 1 =>
              /\ Len(WriteAt(file, k, x)) = k /\ WriteAt(file, k, x)[k] = x
              /\ \A j \in 1 .. k - 1 : WriteAt(file, k, x)[j] = file[j]
        BY <3>1, WriteAtTyped
      <4>2. QED
        BY <3>1, <3>7, <4>1
    <3>9. ASSUME n \notin isoSpoiled, isoCall'[c].ok, NEW j \in 1 .. k
          PROVE  isoFile'[n][j] = isoCall'[c].image
      <4>1. CASE j = k
        BY <2>3, <3>8, <3>9, <4>1
      <4>2. CASE j # k
        <5>1. j \in 1 .. isoCall[c].got
          BY <2>1, <4>2
        <5>2. file[j] = isoCall[c].image
          BY <2>3, <3>3, <3>5, <3>9, <5>1 DEF HonestAt, file
        <5>3. j \in 1 .. k - 1
          BY <2>1, <4>2
        <5>4. QED
          BY <2>3, <3>8, <3>9, <5>2, <5>3
      <4>3. QED
        BY <4>1, <4>2
    <3>10. \A b \in IsoCall : Uploading(b, n) /\ n \notin isoSpoiled => b = c
      BY <3>3, <3>5 DEF HonestAt
    <3>11. n \notin isoSpoiled =>
             \A i \in IsoID : IsIso(i) /\ IsoName[i] = n => i = isoCall[c].iso
      BY <3>3, <3>5 DEF HonestAt
    <3>. HIDE DEF k
    <3>12. QED
      BY <2>3, <2>4, <3>2, <3>3, <3>6, <3>8, <3>9, <3>10, <3>11 DEF HonestAt, IsIso
  <2>7. QED
    BY <2>5, <2>6
<1>6. ASSUME NEW c \in IsoCall, UploadVerify(c) PROVE \A m \in IsoNames : HonestAt(m)'
  <2>1. ASSUME NEW m \in IsoNames PROVE IsoAside(m)
    BY <1>6
       DEF UploadVerify, IsoAt, IsoGoto, isoFiles, IsoAside, Uploading, NameOf, IsoTypeOK, IsoCallState
  <2>2. QED
    BY <1>0, <2>1, AsideHonest
<1>7. ASSUME NEW c \in IsoCall, UploadSave(c) PROVE \A m \in IsoNames : HonestAt(m)'
  <2>. DEFINE i == isoCall[c].iso
              d == isoCall[c].image
  <2>1. /\ isoCall[c].op = "upload" /\ isoCall[c].pc = "save" /\ i \in IsoID
        /\ isoCall[c].got = 2 /\ isoCall[c].ok /\ d \in Image
    BY <1>7 DEF UploadSave, IsoAt, CallAt
  <2>2. /\ UNCHANGED <<isoFile, isoSpoiled>>
        /\ isoRow' = [isoRow EXCEPT ![i] = IF IsIso(i) THEN d ELSE @]
        /\ isoCall'[c].op = "none" /\ \A b \in IsoCall \ {c} : isoCall'[b] = isoCall[b]
    BY <1>7 DEF UploadSave, isoFiles, IsoReturn, NoCall, IsoTypeOK
  <2>3. ASSUME NEW m \in IsoNames, m # NameOf(c) PROVE HonestAt(m)'
    <3>1. \A j \in IsoID : IsoName[j] = m => isoRow'[j] = isoRow[j]
      BY <2>1, <2>2, <2>3 DEF NameOf, IsoTypeOK
    <3>2. QED
      BY <1>0, <2>2, <2>3, <3>1, OtherFileAside, AsideHonest
  <2>4. ASSUME NEW n \in IsoNames, n = NameOf(c) PROVE HonestAt(n)'
    <3>1. Uploading(c, n) /\ HonestAt(n) /\ n = IsoName[i]
      BY <1>0, <2>1, <2>4 DEF Uploading, NameOf
    <3>2. ~Uploading(c, n)' /\ \A b \in IsoCall \ {c} : Uploading(b, n)' <=> Uploading(b, n)
      BY <2>2 DEF Uploading, NameOf
    <3>3. CASE n \in isoSpoiled
      BY <2>2, <3>3 DEF HonestAt
    <3>4. CASE n \notin isoSpoiled
      <4>1. /\ \A b \in IsoCall : Uploading(b, n) => b = c
            /\ \A j \in IsoID : IsIso(j) /\ IsoName[j] = n => j = i
            /\ Len(isoFile[n]) = 2 /\ \A k \in 1 .. 2 : isoFile[n][k] = d
        BY <2>1, <3>1, <3>4 DEF HonestAt
      <4>2. isoFile[n] = <<d, d>>
        BY <3>1, <4>1 DEF IsoTypeOK
      <4>3. ASSUME NEW j \in IsoID, IsoName[j] = n, IsIso(j)' PROVE isoRow'[j] = d
        BY <2>1, <2>2, <4>1, <4>3 DEF IsIso, IsoTypeOK
      <4>4. \A b \in IsoCall : ~Uploading(b, n)'
        BY <3>2, <4>1
      <4>5. QED
        BY <2>2, <4>2, <4>3, <4>4 DEF HonestAt
    <3>5. QED
      BY <3>3, <3>4
  <2>5. QED
    BY <2>3, <2>4
<1>8. ASSUME NEW c \in IsoCall, UploadFails(c) PROVE \A m \in IsoNames : HonestAt(m)'
  <2>1. /\ UNCHANGED <<isoRow, isoFile>> /\ isoSpoiled' = isoSpoiled \cup {NameOf(c)}
        /\ isoCall'[c].op = "none" /\ \A b \in IsoCall \ {c} : isoCall'[b] = isoCall[b]
    BY <1>8 DEF UploadFails, isoFiles, IsoReturn, NoCall, IsoTypeOK
  <2>2. ASSUME NEW m \in IsoNames, m # NameOf(c) PROVE HonestAt(m)'
    BY <1>0, <2>1, <2>2, OtherFileAside, AsideHonest
  <2>3. ASSUME NEW m \in IsoNames, m = NameOf(c) PROVE HonestAt(m)'
    BY <2>1, <2>3 DEF HonestAt
  <2>4. QED
    BY <2>2, <2>3
<1>9. ASSUME NEW c \in IsoCall,
             \/ RemoveLooksAtVMs(c) \/ InUse(c) \/ DeleteIso(c) \/ AttachLocked(c)
             \/ SaveClears(c) \/ SaveInserts(c)
      PROVE  \A m \in IsoNames : HonestAt(m)'
  <2>1. isoCall[c].op # "upload"
    BY <1>9
       DEF RemoveLooksAtVMs, InUse, DeleteIso, AttachLocked, SaveClears, SaveInserts, IsoAt, CallAt
  <2>2. /\ UNCHANGED <<isoFile, isoSpoiled>>
        /\ \A i \in IsoID : IsIso(i)' => isoRow'[i] = isoRow[i]
    BY <1>9
       DEF RemoveLooksAtVMs, InUse, DeleteIso, AttachLocked, SaveClears, SaveInserts, isoFiles,
           IsIso, IsoTypeOK
  <2>3. IsoReturn(c) \/ \E stage \in {"rows", "delete", "clear", "insert"} : IsoGoto(c, stage)
    BY <1>9 DEF RemoveLooksAtVMs, InUse, DeleteIso, AttachLocked, SaveClears, SaveInserts
  <2>4. isoCall'[c].op # "upload" /\ \A b \in IsoCall \ {c} : isoCall'[b] = isoCall[b]
    BY <2>1, <2>3 DEF IsoReturn, IsoGoto, NoCall, IsoTypeOK, IsoCallState
  <2>5. QED
    BY <1>0, <2>1, <2>2, <2>4, NoUploadAside, AsideHonest
<1>10. CASE IsoRestart
  <2>1. /\ UNCHANGED <<isoRow, isoFile>>
        /\ isoSpoiled' = isoSpoiled \cup {n \in IsoNames : \E c \in IsoCall : Uploading(c, n)}
    BY <1>10 DEF IsoRestart, isoFiles
  <2>2. \A c \in IsoCall : isoCall'[c].op = "none"
    BY <1>10 DEF IsoRestart, NoCall
  <2>3. QED
    BY <1>0, <2>1, <2>2 DEF HonestAt, Uploading, IsIso
<1>11. CASE UNCHANGED isoVars
  BY <1>0, <1>11 DEF isoVars, HonestAt, Uploading, NameOf, IsIso
<1>12. QED
  BY <1>1, <1>2, <1>3, <1>4, <1>5, <1>6, <1>7, <1>8, <1>9, <1>10, <1>11, BeginDoes DEF IsoNext

-----------------------------------------------------------------------------
LEMMA IsoPreserved == IsoInv /\ [IsoNext]_isoVars => IsoInv'
<1>. SUFFICES ASSUME IsoInv, [IsoNext]_isoVars PROVE IsoInv'
  OBVIOUS
<1>1. IsoTypeOK' /\ CallAt'
  BY IsoTypeStep, CallAtStep DEF IsoInv
<1>2. FileInv'
  BY NamesStep, HonestStep DEF IsoInv, FileInv
<1>3. AttachInv'
  BY AttachStep DEF IsoInv
<1>4. QED
  BY <1>1, <1>2, <1>3 DEF IsoInv

LEMMA IsoInductive == IsoSpec => []IsoInv
BY IsoInitInv, IsoPreserved, PTL DEF IsoSpec

\* The rows, files, attachments and RPCs of ISOs are of their types; no file grows beyond an
\* image whatever the uploads to it (IsoTypeOK).
THEOREM IsoTyped == IsoSpec => []IsoTypeOK
<1>1. IsoInv => IsoTypeOK
  BY DEF IsoInv
<1>2. QED
  BY <1>1, IsoInductive, PTL

\* A checksum in isos is that of the file, however uploads, removals, new ISOs of the same
\* name and restarts follow one another (ChecksumHonest; UploadIso, iso.Save).
THEOREM ChecksumsHonest == IsoSpec => []ChecksumHonest
<1>1. IsoInv => ChecksumHonest
  BY DEF IsoInv, FileInv
<1>2. QED
  BY <1>1, IsoInductive, PTL

\* RemoveISO removes no image that a VM has, but for a SetVMISOs beside it (AttachedExists;
\* RemoveISO looks at the VMs in memory because a Save may be between clear and insert).
THEOREM AttachedImagesExist == IsoSpec => []AttachedExists
<1>1. IsoInv => AttachedExists
  BY DEF IsoInv, AttachInv
<1>2. QED
  BY <1>1, IsoInductive, PTL

-----------------------------------------------------------------------------
(***************************************************************************)
(* The run of them all.                                                    *)
(***************************************************************************)

\* A behaviour of the run is one of every component: of the one it moves, and of the others,
\* which stutter. Only the tables of the NICs need not be among those NicInit starts from
\* while another component moves. So what is proved about a component holds in the run.
THEOREM HostRunsEach ==
  HostSpec => /\ MigSpec /\ SwSpec /\ ComSpec /\ CfgSpec /\ IsoSpec /\ PciSpec /\ PortSpec
              /\ moving = "nic" => NicSpec
<1>1. HostInit => /\ MigInit /\ SwInit /\ ComInit /\ CfgInit /\ IsoInit /\ PciInit /\ PortInit
                  /\ moving = "nic" => NicInit
  BY DEF HostInit, MigInit, ComInit
<1>2. [HostNext]_hostVars =>
        /\ [MigNext]_migVars /\ [NicNext]_nicVars /\ [SwNext]_swVars /\ [ComNext]_comVars
        /\ [CfgNext]_cfgVars /\ [IsoNext]_isoVars /\ [PciNext]_pciVars /\ [PortNext]_portsVars
  BY DEF HostNext, hostVars
<1>. QED
  BY <1>1, <1>2, PTL
     DEF HostSpec, MigSpec, NicSpec, SwSpec, ComSpec, CfgSpec, IsoSpec, PciSpec, PortSpec

\* Whichever component a behaviour of the run moves, its variables keep their types
\* (HostTypeOK).
THEOREM HostTyped == HostSpec => []HostTypeOK
<1>. DEFINE NicsMove == moving = "nic"
            Moves == moving \in {"mig", "nic", "sw", "com", "cfg", "iso", "pci", "port"}
<1>1. HostInit => Moves
  BY DEF HostInit
<1>2. [HostNext]_hostVars => (Moves => Moves') /\ (NicsMove <=> NicsMove')
  BY DEF HostNext, hostVars
<1>3. Moves /\ MigTypeOK /\ SwTypeOK /\ ComTypeOK /\ CfgTypeOK /\ IsoTypeOK /\ PciTypeOK /\ PortTypeOK
        /\ (NicsMove => NicTypeOK) => HostTypeOK
  BY DEF HostTypeOK
<1>4. HostSpec => []MigTypeOK /\ []SwTypeOK /\ []ComTypeOK /\ []CfgTypeOK
  BY HostRunsEach, TypeCorrect, SwitchesTyped, PortTyped, ConfigTyped, PTL
<1>5. HostSpec => []IsoTypeOK /\ []PciTypeOK /\ []PortTypeOK
  BY HostRunsEach, IsoTyped, SlotsTyped, PortsTyped, PTL
<1>6. HostSpec => (NicsMove => []NicTypeOK)
  BY HostRunsEach, NicsTypeCorrect, PTL
<1>. HIDE DEF NicsMove, Moves
<1>. QED
  BY <1>1, <1>2, <1>3, <1>4, <1>5, <1>6, PTL DEF HostSpec
=============================================================================
