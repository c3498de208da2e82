----------------------------- MODULE MCDiskUse -----------------------------
(* Instances of DiskUse for TLC. *)
EXTENDS DiskUse, TLC

\* Calls, VMs and disks are interchangeable: no definition chooses one.
Symmetry == Permutations(Op) \cup Permutations(VM) \cup Permutations(Disk)
=============================================================================
