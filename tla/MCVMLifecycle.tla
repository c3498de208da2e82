---------------------------- MODULE MCVMLifecycle ----------------------------
(* Instances of VMLifecycle for TLC. *)
EXTENDS VMLifecycle, TLC

CONSTANTS v1, v2, d1, d2

\* Two VMs with a disk each, and an attachment both VMs share (what two racing
\* SetVMDisks calls, or a hand-edited database, leave behind).
Disjoint == {(v1 :> {d1}) @@ (v2 :> {d2})}
Shared == {(v1 :> {d1, d2}) @@ (v2 :> {d2})}

AnyDisjoint ==
  {f \in [VM -> SUBSET Disk] : \A u, v \in VM : u # v => f[u] \cap f[v] = {}}

\* Processes are interchangeable: no definition chooses one.
ProcSymmetry == Permutations(Proc)

\* So are VMs when every assignment of disks is an initial one.
FullSymmetry == Permutations(Proc) \cup Permutations(VM)
=============================================================================
