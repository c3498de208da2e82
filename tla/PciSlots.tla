------------------------------ MODULE PciSlots ------------------------------
(***************************************************************************)
(* The PCI slots of a VM's devices: getSlotArgs of vm/args.go, which runs  *)
(* one function per kind of device and hands each the slot that the one    *)
(* before has left. What each function decides from the configuration and  *)
(* the host is a choice here.                                              *)
(***************************************************************************)
EXTENDS Integers, Sequences

CONSTANTS
  LastSlot,   \* the slot of the LPC bridge, 31 in the code
  MaxSlot     \* bound: the first slot nothing is added at

ASSUME LastSlotAssumption == LastSlot \in Nat
ASSUME MaxSlotAssumption == MaxSlot \in Nat

Kind == {"hostbridge", "fbuf", "tablet", "net", "disk", "cd", "sound", "lpc"}

VARIABLES
  building,   \* the function that runs
  slot,       \* the next slot
  device,     \* the devices so far and their slots
  netArgs,    \* those getNetArgs has collected
  firstNet,   \* originalSlot of getNetArgs
  devCount,   \* sataDevCount of getDiskArg, devCount of getCDArg
  maxSata     \* maxSataDevs of both

pciVars == <<building, slot, device, netArgs, firstNet, devCount, maxSata>>

PciTypeOK ==
  /\ building \in {"hostbridge", "fbuf", "tablet", "net", "disk", "cd", "sound", "lpc", "done"}
  /\ slot \in Nat /\ firstNet \in Nat /\ devCount \in Nat /\ maxSata \in Int
  /\ device \in Seq([slot : Nat, kind : Kind])
  /\ netArgs \in Seq([slot : Nat, kind : Kind])

PciInit ==
  /\ building = "hostbridge" /\ slot = 0 /\ device = << >>
  /\ netArgs = << >> /\ firstNet = 0 /\ devCount = 0 /\ maxSata = 0

PciIdle == PciInit

Here(kind) == [slot |-> slot, kind |-> kind]
Room == slot < MaxSlot

\* A function that adds at most one device, at the next slot.
OneDevice(kind, next) ==
  /\ building = kind /\ Room
  /\ building' = next
  /\ \/ device' = Append(device, Here(kind)) /\ slot' = slot + 1
     \/ UNCHANGED <<device, slot>>
  /\ UNCHANGED <<netArgs, devCount, maxSata>>

getHostBridgeArg == OneDevice("hostbridge", "fbuf") /\ UNCHANGED firstNet
getVideoArg == OneDevice("fbuf", "tablet") /\ UNCHANGED firstNet
getTabletArg == OneDevice("tablet", "net") /\ firstNet' = slot'
getSoundArg == OneDevice("sound", "lpc") /\ UNCHANGED firstNet

-----------------------------------------------------------------------------
(* getNetArgs                                                              *)

NetDevice ==
  /\ building = "net" /\ Room
  /\ netArgs' = Append(netArgs, Here("net")) /\ slot' = slot + 1
  /\ UNCHANGED <<building, device, firstNet, devCount, maxSata>>

\* What getNetArgs returns; getDiskArg computes its limit from the slot.
NetReturns(args, next) ==
  /\ building = "net"
  /\ device' = device \o args /\ slot' = next
  /\ building' = "disk" /\ maxSata' = LastSlot - next - 1
  /\ UNCHANGED <<netArgs, firstNet, devCount>>

\* A NIC of unknown type: no NIC at all, and the slots are given back.
NetUnknownType == NetReturns(<< >>, firstNet)

\* Another failure: no NIC at all, and the slots are lost.
NetFails == NetReturns(<< >>, slot)
NetArgs == NetReturns(netArgs, slot)

-----------------------------------------------------------------------------
(* getDiskArg counts the AHCI disks, those it leaves out too; once there   *)
(* are too many it adds no disk of any type.                               *)

Disk(sata) ==
  /\ building = "disk" /\ Room
  /\ devCount' = IF sata THEN devCount + 1 ELSE devCount
  /\ \/ /\ devCount' <= maxSata
        /\ device' = Append(device, Here("disk")) /\ slot' = slot + 1
     \/ UNCHANGED <<device, slot>>     \* too many, or the disk is not there
  /\ devCount' <= MaxSlot
  /\ UNCHANGED <<building, netArgs, firstNet, maxSata>>

getDiskArg == \E sata \in BOOLEAN : Disk(sata)

DisksDone ==
  /\ building = "disk"
  /\ building' = "cd" /\ devCount' = 0 /\ maxSata' = LastSlot - slot - 1
  /\ UNCHANGED <<slot, device, netArgs, firstNet>>

-----------------------------------------------------------------------------
(* getCDArg                                                                *)

\* Mutant: the limit is off by one.
CDOneMore ==
  /\ building = "cd" /\ devCount <= maxSata + 1
  /\ device' = Append(device, Here("cd")) /\ slot' = slot + 1
  /\ devCount' = devCount + 1
  /\ UNCHANGED <<building, netArgs, firstNet, maxSata>>

getCDArg ==
  /\ building = "cd" /\ devCount <= maxSata
  /\ device' = Append(device, Here("cd")) /\ slot' = slot + 1
  /\ devCount' = devCount + 1
  /\ UNCHANGED <<building, netArgs, firstNet, maxSata>>

CDsDone ==
  /\ building = "cd"
  /\ building' = "sound"
  /\ UNCHANGED <<slot, device, netArgs, firstNet, devCount, maxSata>>

\* The bridge is always added, whatever else is at its slot.
getLPCArg ==
  /\ building = "lpc"
  /\ device' = Append(device, [slot |-> LastSlot, kind |-> "lpc"])
  /\ building' = "done"
  /\ UNCHANGED <<slot, netArgs, firstNet, devCount, maxSata>>

PciNext ==
  \/ getHostBridgeArg \/ getVideoArg \/ getTabletArg
  \/ NetDevice \/ NetUnknownType \/ NetFails \/ NetArgs
  \/ getDiskArg \/ DisksDone \/ getCDArg \/ CDsDone \/ getSoundArg \/ getLPCArg

PciSpec == PciInit /\ [][PciNext]_pciVars

-----------------------------------------------------------------------------

\* No two devices share a slot but at the last one, where the LPC bridge goes: there
\* the functions that do not look at the limit may have put a NIC, a disk of another type
\* than AHCI, a sound card. The CDs, which are what a limit protects, leave room for it.
SlotsApart ==
  \A i, j \in 1 .. Len(device) :
    i < j /\ device[i].slot = device[j].slot =>
      device[j].kind = "lpc" /\ device[i].kind # "cd"
=============================================================================
