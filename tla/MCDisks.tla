------------------------------ MODULE MCDisks ------------------------------
(***************************************************************************)
(* One run for the two views of the disks, who uses them (DiskUse) and     *)
(* what is on them (DiskBacking). A behaviour picks one and the other      *)
(* stays idle.                                                             *)
(***************************************************************************)
EXTENDS MCDiskUse, DiskBacking

VARIABLE view

DisksInit ==
  /\ view \in {"use", "content"} /\ Init /\ DiskInit
  /\ view = "content" => \A v \in VM : rows[v] = {}

DisksNext ==
  /\ UNCHANGED view
  /\ \/ view = "use" /\ Next /\ UNCHANGED diskVars
     \/ view = "content" /\ DiskNext /\ UNCHANGED vars

DisksSpec == DisksInit /\ [][DisksNext]_<<view, vars, diskVars>>

\* Bound: once the name has been given out again, or there is both a file and a volume of
\* this name, one call at a time is under way.
OneCallLater ==
  (\A i \in DiskID : devType[i] # "unused") \/ present = Backing
    => \E c \in DiskCall : diskCall[c].pc = "idle"

DisksTypeOK == TypeOK /\ DiskTypeOK
=============================================================================
