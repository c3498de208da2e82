------------------------------ MODULE DiskLease ------------------------------
(***************************************************************************)
(* What the mutexes of the disks are for, told without goroutines: a VM    *)
(* takes its disks one by one, uses all it has taken, and gives all of     *)
(* them back at once when it has finished. VMLifecycle implements this.    *)
(***************************************************************************)
CONSTANTS VM, Disk, NoVM

VARIABLES
  holder,   \* the VM that has taken a disk
  inUse     \* the disks the bhyve processes of a VM were started with

vars == <<holder, inUse>>

Held(v) == {d \in Disk : holder[d] = v}

Init ==
  /\ holder = [d \in Disk |-> NoVM]
  /\ inUse = [v \in VM |-> {}]

Take(v, d) ==
  /\ holder[d] = NoVM /\ inUse[v] = {}
  /\ holder' = [holder EXCEPT ![d] = v]
  /\ UNCHANGED inUse

Use(v) ==
  /\ inUse[v] = {}
  /\ inUse' = [inUse EXCEPT ![v] = Held(v)]
  /\ UNCHANGED holder

GiveBack(v) ==
  /\ inUse[v] = Held(v)
  /\ inUse' = [inUse EXCEPT ![v] = {}]
  /\ holder' = [d \in Disk |-> IF holder[d] = v THEN NoVM ELSE holder[d]]

Next ==
  \E v \in VM :
    \/ \E d \in Disk : Take(v, d)
    \/ Use(v)
    \/ GiveBack(v)

Spec == Init /\ [][Next]_vars
=============================================================================
