------------------------------ MODULE VMConfig ------------------------------
(***************************************************************************)
(* The configuration of a VM, in memory and in the database: UpdateVM      *)
(* (rpc_vm.go), AttachIsos, AttachDisks, the Save of every start, and the  *)
(* load at start-up (vm/vm.go, vm/db.go).                                  *)
(*                                                                         *)
(* UpdateVM assigns the fields of a request one after the other to the VM  *)
(* in memory and gives up at the first one that is not valid. Save writes  *)
(* the whole VM in six statements: configs, vms, and for each kind of      *)
(* attachment a DELETE of all rows and the INSERTs, in a transaction.      *)
(* v.mu is held by the two Attach functions, not by UpdateVM.              *)
(***************************************************************************)
EXTENDS Naturals, Sequences, SequencesExt

CONSTANTS
  Touched,    \* bound: fields that requests set
  Change,     \* bound: requests, functions from Touched to "keep", "bad" and Value
  IsoList, DiskList,   \* bound: lists of attachments that clients ask for
  CfgCall,    \* RPCs and starts under way at once
  MaxRows     \* bound: rows of a VM at a restart

Value == {"old", "new"}

-----------------------------------------------------------------------------
(* What updateVMAll does with each field, in its order. A field that is    *)
(* "checked" ends the request when it is not valid; one that is "ignored"  *)
(* is skipped; one that is "clamped" is set to its limit; the others take  *)
(* what they are given.                                                    *)

Free(fields) == [i \in 1 .. Len(fields) |-> <<fields[i], "free">>]
Checked(fields) == [i \in 1 .. Len(fields) |-> <<fields[i], "checked">>]

updateVMBasics ==
  Checked(<<"name">>) \o Free(<<"description">>) \o << <<"cpu", "ignored">> >> \o Free(<<"mem">>)
updateVMCom1 == Free(<<"com1">>) \o Checked(<<"com1dev">>) \o Free(<<"com1log", "com1speed">>)
updateVMCom2 == Free(<<"com2">>) \o Checked(<<"com2dev">>) \o Free(<<"com2log", "com2speed">>)
updateVMCom3 == Free(<<"com3">>) \o Checked(<<"com3dev">>) \o Free(<<"com3log", "com3speed">>)
updateVMCom4 == Free(<<"com4">>) \o Checked(<<"com4dev">>) \o Free(<<"com4log", "com4speed">>)
updateVMScreen == Free(<<"screen">>) \o Checked(<<"screenwidth", "screenheight">>)
updateVMScreenOptions == Checked(<<"vncport", "keyboard">>) \o Free(<<"tablet", "vncwait">>)
updateVMSound == Free(<<"sound">>) \o Checked(<<"soundin", "soundout">>)
updateVMStart ==
  Free(<<"autostart">>) \o << <<"autostartdelay", "clamped">> >>
    \o Free(<<"restart", "restartdelay", "maxwait">>)
updateVMAdvanced1 == Free(<<"hostbridge", "acpi", "storeuefi", "utc", "wireguestmem">>)
updateVMAdvanced2 == Free(<<"dpo", "eop", "ium", "hlt", "extraargs">>)
updateVMDebug == Free(<<"debug", "debugwait">>) \o Checked(<<"debugport">>)
updateVMPriorityLimits == Free(<<"priority", "protect", "pcpu", "rbps", "wbps", "riops", "wiops">>)

\* The fields in the order of updateVMAll, and the positions of those that requests set.
updateVMAll ==
  updateVMBasics \o updateVMCom1 \o updateVMCom2 \o updateVMCom3 \o updateVMCom4
    \o updateVMScreen \o updateVMScreenOptions \o updateVMSound \o updateVMStart
    \o updateVMAdvanced1 \o updateVMAdvanced2 \o updateVMDebug \o updateVMPriorityLimits

Position == {i \in 1 .. Len(updateVMAll) : updateVMAll[i][1] \in Touched}

\* Save writes the name and the description to vms, everything else to configs.
VMsColumn == {"name", "description"} \cap Touched
ConfigsColumn == Touched \ VMsColumn

Limit == "new"   \* of a clamped field

VARIABLES
  cfgMem,      \* fields of the VM in memory
  cfgRow,      \* and in its rows in configs and vms
  attached,    \* v.ISOs and v.Disks
  attRows,     \* rows of vm_isos and vm_disks: sets of positions and IDs
  cfgMu,       \* the call that holds v.mu
  starting,    \* v.Status is not STOPPED
  cfgCall,     \* calls under way
  cfgStale     \* observer: parts that a call that failed, or a load that skipped an
               \* attachment, has left different in memory

cfgVars == <<cfgMem, cfgRow, attached, attRows, cfgMu, starting, cfgCall, cfgStale>>

AttPart == {"isos", "disks"}
Part == {"configs", "vms"} \cup AttPart
Wanted(p) == IF p = "isos" THEN IsoList ELSE DiskList
RowsOf(list) == {<<i, list[i]>> : i \in 1 .. Len(list)}
Attachments == UNION {{list[i] : i \in 1 .. Len(list)} : list \in IsoList \cup DiskList}
NoRequest == [f \in Touched |-> "keep"]
NoOne == "nobody"

ASSUME CfgConstants ==
  /\ Position # {} /\ Change \subseteq [Touched -> Value \cup {"keep", "bad"}]
  /\ IsoList \cup DiskList \subseteq Seq(Attachments)
  /\ NoOne \notin CfgCall

CfgCallIdle == [pc |-> "idle", at |-> 0, req |-> NoRequest, part |-> "isos", list |-> << >>]

SavePC == {"configs", "vms", "delete isos", "insert isos", "delete disks", "insert disks"}

CfgTypeOK ==
  /\ cfgMem \in [Touched -> Value] /\ cfgRow \in [Touched -> Value]
  /\ \A p \in AttPart :
       /\ attached[p] \in Seq(Attachments)
       /\ \A row \in attRows[p] : row[1] \in Nat \ {0} /\ row[2] \in Attachments
  /\ cfgMu \in CfgCall \cup {NoOne} /\ starting \in BOOLEAN
  /\ \A c \in CfgCall :
       /\ cfgCall[c].pc \in {"idle", "fields", "attach", "fill"} \cup SavePC
       /\ cfgCall[c].at \in {0} \cup Position
       /\ cfgCall[c].req \in Change \cup {NoRequest}
       /\ cfgCall[c].part \in AttPart /\ cfgCall[c].list \in Seq(Attachments)
  /\ cfgStale \subseteq Part

CfgIdle ==
  /\ cfgMem = [f \in Touched |-> "old"] /\ cfgRow = cfgMem
  /\ attached = [p \in AttPart |-> << >>] /\ attRows = [p \in AttPart |-> {}]
  /\ cfgMu = NoOne /\ starting = FALSE
  /\ cfgCall = [c \in CfgCall |-> CfgCallIdle]
  /\ cfgStale = {}

CfgInit == CfgIdle

-----------------------------------------------------------------------------

CfgGoto(c, pc) == cfgCall' = [cfgCall EXCEPT ![c].pc = pc]

\* Parts whose rows are not what is in memory, after the step.
Differing ==
  {p \in Part :
     CASE p = "configs" -> \E f \in ConfigsColumn : cfgRow[f]' # cfgMem[f]'
       [] p = "vms" -> \E f \in VMsColumn : cfgRow[f]' # cfgMem[f]'
       [] p \in AttPart -> attRows[p]' # RowsOf(attached[p]')}

\* The call c returns: it gives v.mu back if it holds it, and a start is over.
CfgReturn(c) ==
  /\ cfgCall' = [cfgCall EXCEPT ![c] = CfgCallIdle]
  /\ cfgMu' = IF cfgMu = c THEN NoOne ELSE cfgMu
  /\ starting' = (starting /\ cfgCall[c].at # 0)

CfgFails(c) ==
  /\ CfgReturn(c)
  /\ cfgStale' = cfgStale \cup Differing

-----------------------------------------------------------------------------
(* UpdateVM *)

UpdateVM(c) ==
  /\ cfgCall[c].pc = "idle"
  /\ \E req \in Change :
       cfgCall' = [cfgCall EXCEPT ![c] = [CfgCallIdle EXCEPT !.pc = "fields", !.at = Min(Position),
                                                                  !.req = req]]
  /\ UNCHANGED <<cfgMem, cfgRow, attached, attRows, cfgMu, starting, cfgStale>>

\* The next field of the request, or the Save after the last one.
UpdateField(c) ==
  LET i == cfgCall[c].at
      others == {j \in Position : j > i}
      field == updateVMAll[i][1]
      kind == updateVMAll[i][2]
      asked == cfgCall[c].req[field]
      refused == asked = "bad" /\ kind = "checked"
  IN
  /\ cfgCall[c].pc = "fields"
  /\ UNCHANGED <<cfgRow, attached, attRows>>
  /\ \/ /\ refused
        /\ UNCHANGED cfgMem
        /\ CfgFails(c)
     \/ /\ ~refused
        /\ cfgMem' = [cfgMem EXCEPT ![field] = IF asked \in Value THEN asked
                                               ELSE IF asked = "bad" /\ kind = "clamped" THEN Limit
                                               ELSE @]
        /\ cfgCall' = IF others = {} THEN [cfgCall EXCEPT ![c].pc = "configs"]
                                     ELSE [cfgCall EXCEPT ![c].at = Min(others)]
        /\ UNCHANGED <<cfgMu, starting, cfgStale>>

-----------------------------------------------------------------------------
(* Start: generateCommandLine and Start save the VM, while it is STARTING  *)
(* and no client may attach anything to it. at = 0 marks this call.        *)

StartSaves(c) ==
  /\ cfgCall[c].pc = "idle" /\ ~starting /\ cfgMu = NoOne
  /\ starting' = TRUE
  /\ CfgGoto(c, "configs")
  /\ UNCHANGED <<cfgMem, cfgRow, attached, attRows, cfgMu, cfgStale>>

-----------------------------------------------------------------------------
(* AttachIsos and AttachDisks *)

Attach(c) ==
  /\ cfgCall[c].pc = "idle" /\ cfgMu = NoOne /\ ~starting
  /\ cfgMu' = c
  /\ \E p \in AttPart : \E list \in Wanted(p) :
       cfgCall' = [cfgCall EXCEPT ![c] = [CfgCallIdle EXCEPT !.pc = "attach", !.at = Min(Position),
                                                               !.part = p, !.list = list]]
  /\ UNCHANGED <<cfgMem, cfgRow, attached, attRows, starting, cfgStale>>

\* v.ISOs = isos
AttachIsos(c) ==
  /\ cfgCall[c].pc = "attach" /\ cfgCall[c].part = "isos"
  /\ attached' = [attached EXCEPT !["isos"] = cfgCall[c].list]
  /\ CfgGoto(c, "configs")
  /\ UNCHANGED <<cfgMem, cfgRow, attRows, cfgMu, starting, cfgStale>>

\* v.Disks = []*disk.Disk{}
AttachDisks(c) ==
  /\ cfgCall[c].pc = "attach" /\ cfgCall[c].part = "disks"
  /\ attached' = [attached EXCEPT !["disks"] = << >>]
  /\ CfgGoto(c, "fill")
  /\ UNCHANGED <<cfgMem, cfgRow, attRows, cfgMu, starting, cfgStale>>

\* The loop that looks up the disks again; one of them may be gone.
AttachFill(c) ==
  LET list == cfgCall[c].list IN
  /\ cfgCall[c].pc = "fill"
  /\ UNCHANGED <<cfgMem, cfgRow, attRows>>
  /\ \/ /\ attached' = [attached EXCEPT !["disks"] = list]
        /\ CfgGoto(c, "configs")
        /\ UNCHANGED <<cfgMu, starting, cfgStale>>
     \/ \E n \in 1 .. Len(list) :
          /\ attached' = [attached EXCEPT !["disks"] = SubSeq(list, 1, n - 1)]
          /\ CfgFails(c)

-----------------------------------------------------------------------------
(* Save. Any statement may fail; Save then returns.                        *)

SaveFails(c) ==
  /\ cfgCall[c].pc \in SavePC
  /\ UNCHANGED <<cfgMem, cfgRow, attached, attRows>>
  /\ CfgFails(c)

SaveColumns(c, pc, columns, next) ==
  /\ cfgCall[c].pc = pc
  /\ cfgRow' = [f \in Touched |-> IF f \in columns THEN cfgMem[f] ELSE cfgRow[f]]
  /\ CfgGoto(c, next)
  /\ UNCHANGED <<cfgMem, attached, attRows, cfgMu, starting>>
  /\ cfgStale' = cfgStale \cap Differing

\* Mutant: a column is missing in the list of Save.
SaveConfigForgets(c) == SaveColumns(c, "configs", ConfigsColumn \ {"autostartdelay"}, "vms")

SaveConfig(c) == SaveColumns(c, "configs", ConfigsColumn, "vms")
SaveVM(c) == SaveColumns(c, "vms", VMsColumn, "delete isos")

DeleteRows(c, p, next) ==
  /\ attRows' = [attRows EXCEPT ![p] = {}]
  /\ CfgGoto(c, next)
  /\ UNCHANGED <<cfgMem, cfgRow, attached, cfgMu, starting, cfgStale>>

DeleteIsos(c) == cfgCall[c].pc = "delete isos" /\ DeleteRows(c, "isos", "insert isos")
DeleteDisks(c) == cfgCall[c].pc = "delete disks" /\ DeleteRows(c, "disks", "insert disks")

\* The primary key is VM, ID and position: a row that another Save has inserted since
\* ends the transaction, which then has inserted nothing.
InsertRows(p) ==
  /\ attRows[p] \cap RowsOf(attached[p]) = {}
  /\ attRows' = [attRows EXCEPT ![p] = @ \cup RowsOf(attached[p])]
  /\ UNCHANGED <<cfgMem, cfgRow, attached>>
  /\ cfgStale' = cfgStale \cap Differing

InsertIsos(c) ==
  /\ cfgCall[c].pc = "insert isos"
  /\ InsertRows("isos")
  /\ CfgGoto(c, "delete disks")
  /\ UNCHANGED <<cfgMu, starting>>

InsertDisks(c) ==
  /\ cfgCall[c].pc = "insert disks"
  /\ InsertRows("disks")
  /\ CfgReturn(c)

-----------------------------------------------------------------------------

\* The attachments of a VM, in the order of their positions.
InOrder(rows) ==
  LET list == CHOOSE list \in SetToSeqs(rows) :
                \A i, j \in DOMAIN list : i < j => list[i][1] <= list[j][1]
  IN  [i \in DOMAIN list |-> list[i][2]]

\* A list without what is at the places in skipped; the rest stays in its order.
LeftOut(list, skipped) == InOrder({<<i, list[i]>> : i \in DOMAIN list \ skipped})

\* A row is skipped when it cannot be read, and when its ISO or disk is not found: a
\* removal has deleted it in the meantime, or the lookup fails.
Loaded(rows, skipped) == LeftOut(InOrder(rows), skipped)

\* The daemon ends, at any point, and starts again. An attachment that was skipped keeps
\* its row until the next Save.
CacheInit ==
  /\ \A p \in AttPart : Cardinality(attRows[p]) <= MaxRows
  /\ cfgMem' = cfgRow
  /\ \E isos \in SUBSET DOMAIN InOrder(attRows["isos"]),
        disks \in SUBSET DOMAIN InOrder(attRows["disks"]) :
       /\ attached' = [p \in AttPart |-> Loaded(attRows[p], IF p = "isos" THEN isos ELSE disks)]
       /\ cfgStale' = (IF isos = {} THEN {} ELSE {"isos"}) \cup (IF disks = {} THEN {} ELSE {"disks"})
  /\ cfgMu' = NoOne /\ starting' = FALSE
  /\ cfgCall' = [c \in CfgCall |-> CfgCallIdle]
  /\ UNCHANGED <<cfgRow, attRows>>

CfgNext ==
  \/ \E c \in CfgCall :
       \/ UpdateVM(c) \/ UpdateField(c)
       \/ StartSaves(c)
       \/ Attach(c) \/ AttachIsos(c) \/ AttachDisks(c) \/ AttachFill(c)
       \/ SaveFails(c) \/ SaveConfig(c) \/ SaveVM(c)
       \/ DeleteIsos(c) \/ InsertIsos(c) \/ DeleteDisks(c) \/ InsertDisks(c)
  \/ CacheInit

CfgSpec == CfgInit /\ [][CfgNext]_cfgVars

-----------------------------------------------------------------------------

\* Everything a client was told is done is in the database, Saves that overlap
\* notwithstanding: a daemon that is restarted while no call runs has the VM it had
\* before, but for the parts that a call that returned an error, or an earlier load, has
\* left behind in memory, and for attachments that this load does not find (a removal
\* beside the attachment or within its Save, or a failed lookup): it leaves these out,
\* and neither adds to a list nor changes its order.
RestartChangesNothing ==
  [][CacheInit /\ (\A c \in CfgCall : cfgCall[c].pc = "idle") =>
       /\ "configs" \in cfgStale \/ \A f \in ConfigsColumn : cfgMem'[f] = cfgMem[f]
       /\ "vms" \in cfgStale \/ \A f \in VMsColumn : cfgMem'[f] = cfgMem[f]
       /\ \A p \in AttPart :
            \/ p \in cfgStale
            \/ attached'[p] = attached[p]
            \/ /\ p \in cfgStale'
               /\ \E skipped \in SUBSET DOMAIN attached[p] :
                    attached'[p] = LeftOut(attached[p], skipped)]_cfgVars
=============================================================================
