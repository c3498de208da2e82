------------------------------ MODULE IsoStore ------------------------------
(***************************************************************************)
(* ISO images: rows of isos, files in the ISO directory, uploads, and the  *)
(* attachments that keep an image (iso/iso.go, rpc_iso.go, SetVMISOs in    *)
(* rpc_vm.go, vm/iso.go).                                                  *)
(*                                                                         *)
(* Nothing locks an ISO. AddISO makes a row, UploadIso truncates the file  *)
(* before it has received anything and writes the checksum to the row      *)
(* after it has verified it, RemoveISO looks at the VMs in memory, then at *)
(* vm_isos, and deletes the row; it leaves the file.                       *)
(***************************************************************************)
EXTENDS Naturals, Sequences

CONSTANTS
  IsoID,      \* IDs of ISOs, each given out once
  IsoName,    \* the name of each
  Image,      \* contents of images; each is two chunks long
  IsoVM,      \* VMs
  IsoCall     \* bound: RPCs under way at once

NoSum == "no checksum"
Hole == "hole"
NoCall == [op |-> "none", pc |-> "idle", iso |-> 0, vm |-> "none", image |-> NoSum, got |-> 0,
           ok |-> TRUE]

\* What stands for no ISO, no holder of v.mu, no row and no content is none.
ASSUME IsoConstants ==
  /\ 0 \notin IsoID /\ "free" \notin IsoCall
  /\ {"unused", "deleted", NoSum, Hole} \cap Image = {}

VARIABLES
  isoRow,      \* "unused", "deleted", or the row: its checksum
  isoFile,     \* chunks of the file of each name
  isoOnDisk,   \* names that have a file
  vmIsos,      \* v.ISOs, which hold at most one image here
  isoAttRows,  \* rows of vm_isos
  isoMu,       \* v.mu of each VM: the call that holds it
  isoCall,     \* RPCs
  isoSpoiled,  \* observer: names whose last upload failed, was cut or overlapped another
  isoRaced     \* observer: ISOs that a SetVMISOs attached or was to attach when a
               \* RemoveISO had looked at the VMs already

isoVars == <<isoRow, isoFile, isoOnDisk, vmIsos, isoAttRows, isoMu, isoCall, isoSpoiled, isoRaced>>

IsoNames == {IsoName[i] : i \in IsoID}
Chunk == Image \cup {Hole}
IsIso(i) == isoRow[i] \notin {"unused", "deleted"}

IsoCallState ==
  [op : {"none", "upload", "remove", "attach", "save"},
   pc : {"idle", "create", "recv", "save", "vms", "rows", "delete", "lock", "clear", "insert"},
   iso : IsoID \cup {0}, vm : IsoVM \cup {"none"},
   image : Image \cup {NoSum}, got : 0 .. 2, ok : BOOLEAN]

IsoTypeOK ==
  /\ isoRow \in [IsoID -> {"unused", "deleted", NoSum} \cup Image]
  /\ isoFile \in [IsoNames -> Seq(Chunk)] /\ \A n \in IsoNames : Len(isoFile[n]) <= 2
  /\ isoOnDisk \subseteq IsoNames
  /\ vmIsos \in [IsoVM -> SUBSET IsoID] /\ isoAttRows \subseteq IsoVM \X IsoID
  /\ isoMu \in [IsoVM -> IsoCall \cup {"free"}]
  /\ isoCall \in [IsoCall -> IsoCallState]
  /\ isoSpoiled \subseteq IsoNames /\ isoRaced \subseteq IsoID

IsoIdle ==
  /\ isoRow = [i \in IsoID |-> "unused"] /\ isoFile = [n \in IsoNames |-> << >>]
  /\ isoOnDisk = {}
  /\ vmIsos = [v \in IsoVM |-> {}] /\ isoAttRows = {}
  /\ isoMu = [v \in IsoVM |-> "free"]
  /\ isoCall = [c \in IsoCall |-> NoCall]
  /\ isoSpoiled = {} /\ isoRaced = {}

IsoInit == IsoIdle

-----------------------------------------------------------------------------

isoFiles == <<isoFile, isoOnDisk>>
isoAttached == <<vmIsos, isoAttRows, isoMu>>

NameOf(c) == IsoName[isoCall[c].iso]
IsoAt(c, pc) == isoCall[c].pc = pc
IsoGoto(c, pc) == isoCall' = [isoCall EXCEPT ![c].pc = pc]
IsoReturn(c) == isoCall' = [isoCall EXCEPT ![c] = NoCall]
IsoBegin(c, op, pc, i, v, d) ==
  /\ IsoAt(c, "idle")
  /\ isoCall' = [isoCall EXCEPT ![c] = [op |-> op, pc |-> pc, iso |-> i, vm |-> v, image |-> d,
                                        got |-> 0, ok |-> TRUE]]

\* AddISO looks for a row and for a file of this name. The name is unique.
AddISO(i) ==
  /\ isoRow[i] = "unused"
  /\ \A j \in IsoID : IsIso(j) => IsoName[j] # IsoName[i]
  /\ IsoName[i] \notin isoOnDisk
  /\ isoRow' = [isoRow EXCEPT ![i] = NoSum]
  /\ UNCHANGED <<isoFiles, isoAttached, isoCall, isoSpoiled, isoRaced>>

\* The administrator removes a file that no upload is writing to and no row claims.
FileRemoved(n) ==
  /\ n \in isoOnDisk
  /\ \A j \in IsoID : IsIso(j) => IsoName[j] # n
  /\ \A c \in IsoCall : isoCall[c].op = "upload" => NameOf(c) # n
  /\ isoOnDisk' = isoOnDisk \ {n} /\ isoFile' = [isoFile EXCEPT ![n] = << >>]
  /\ UNCHANGED <<isoRow, isoAttached, isoCall, isoSpoiled, isoRaced>>

-----------------------------------------------------------------------------
(* UploadIso                                                               *)

Uploading(c, n) ==
  isoCall[c].op = "upload" /\ isoCall[c].pc \in {"recv", "save"} /\ NameOf(c) = n

\* validateIsoUploadRequest reads the row; the upload keeps this copy.
UploadIso(c) ==
  /\ \E i \in IsoID, d \in Image : IsIso(i) /\ IsoBegin(c, "upload", "create", i, "none", d)
  /\ UNCHANGED <<isoRow, isoFiles, isoAttached, isoSpoiled, isoRaced>>

\* os.Create truncates the file. The observer forgives what came before, unless
\* another upload is writing to this file or the ISO has been removed.
UploadCreate(c) ==
  /\ IsoAt(c, "create")
  /\ isoFile' = [isoFile EXCEPT ![NameOf(c)] = << >>]
  /\ isoOnDisk' = isoOnDisk \cup {NameOf(c)}
  /\ IsoGoto(c, "recv")
  /\ isoSpoiled' = IF IsIso(isoCall[c].iso) /\ \A b \in IsoCall : ~Uploading(b, NameOf(c))
                   THEN isoSpoiled \ {NameOf(c)} ELSE isoSpoiled \cup {NameOf(c)}
  /\ UNCHANGED <<isoRow, isoAttached, isoRaced>>

\* A chunk goes where this upload is in its file; it may not be what was announced.
WriteAt(file, k, x) ==
  [j \in 1 .. (IF Len(file) > k THEN Len(file) ELSE k) |->
     IF j = k THEN x ELSE IF j <= Len(file) THEN file[j] ELSE Hole]

UploadChunk(c) ==
  /\ IsoAt(c, "recv") /\ isoCall[c].got < 2
  /\ \E x \in {isoCall[c].image, Hole} :
       /\ isoFile' = [isoFile EXCEPT ![NameOf(c)] = WriteAt(@, isoCall[c].got + 1, x)]
       /\ isoCall' = [isoCall EXCEPT ![c].got = @ + 1, ![c].ok = @ /\ x = isoCall[c].image]
  /\ UNCHANGED <<isoRow, isoOnDisk, isoAttached, isoSpoiled, isoRaced>>

UploadFails(c) ==
  /\ isoCall[c].op = "upload" /\ isoCall[c].pc \in {"recv", "save"}
  /\ IsoReturn(c)
  /\ isoSpoiled' = isoSpoiled \cup {NameOf(c)}
  /\ UNCHANGED <<isoRow, isoFiles, isoAttached, isoRaced>>

\* Mutant: the checksum is not compared.
UploadVerifySize(c) ==
  /\ IsoAt(c, "recv") /\ isoCall[c].got = 2
  /\ IsoGoto(c, "save")
  /\ UNCHANGED <<isoRow, isoFiles, isoAttached, isoSpoiled, isoRaced>>

\* The end of the stream: size and checksum are what was announced.
UploadVerify(c) ==
  /\ IsoAt(c, "recv") /\ isoCall[c].got = 2 /\ isoCall[c].ok
  /\ IsoGoto(c, "save")
  /\ UNCHANGED <<isoRow, isoFiles, isoAttached, isoSpoiled, isoRaced>>

\* Save; to update no row is not an error.
UploadSave(c) ==
  /\ IsoAt(c, "save") /\ isoCall[c].op = "upload"
  /\ isoRow' = [isoRow EXCEPT ![isoCall[c].iso] = IF IsIso(isoCall[c].iso)
                                                 THEN isoCall[c].image ELSE @]
  /\ IsoReturn(c)
  /\ UNCHANGED <<isoFiles, isoAttached, isoSpoiled, isoRaced>>

-----------------------------------------------------------------------------
(* RemoveISO and Delete                                                    *)

RemoveISO(c) ==
  /\ \E i \in IsoID : IsIso(i) /\ IsoBegin(c, "remove", "vms", i, "none", NoSum)
  /\ UNCHANGED <<isoRow, isoFiles, isoAttached, isoSpoiled, isoRaced>>

\* Mutant: RemoveISO leaves the check to InUse.
RemoveLooksNowhere(c) ==
  /\ IsoAt(c, "vms")
  /\ IsoGoto(c, "rows")
  /\ UNCHANGED <<isoRow, isoFiles, isoAttached, isoSpoiled, isoRaced>>

\* The ISOs of all VMs in memory.
RemoveLooksAtVMs(c) ==
  /\ IsoAt(c, "vms")
  /\ IF \E v \in IsoVM : isoCall[c].iso \in vmIsos[v] THEN IsoReturn(c) ELSE IsoGoto(c, "rows")
  /\ UNCHANGED <<isoRow, isoFiles, isoAttached, isoSpoiled, isoRaced>>

InUse(c) ==
  /\ IsoAt(c, "rows")
  /\ IF \E v \in IsoVM : <<v, isoCall[c].iso>> \in isoAttRows
     THEN IsoReturn(c) ELSE IsoGoto(c, "delete")
  /\ UNCHANGED <<isoRow, isoFiles, isoAttached, isoSpoiled, isoRaced>>

\* To delete no row is an error; the file stays.
DeleteIso(c) ==
  LET i == isoCall[c].iso IN
  /\ IsoAt(c, "delete")
  /\ isoRow' = [isoRow EXCEPT ![i] = "deleted"]
  /\ IsoReturn(c)
  /\ isoRaced' = IF \E b \in IsoCall : isoCall[b].op = "attach" /\ isoCall[b].iso = i
                 THEN isoRaced \cup {i} ELSE isoRaced
  /\ UNCHANGED <<isoFiles, isoAttached, isoSpoiled>>

-----------------------------------------------------------------------------
(* SetVMISOs and AttachIsos, with at most one image, or with none (0); and *)
(* a Save of the VM by somebody else, who does not hold v.mu.              *)

\* SetVMISOs looks the images up before AttachIsos locks the VM.
SetVMISOs(c) ==
  /\ \E v \in IsoVM, i \in {j \in IsoID : IsIso(j)} \cup {0} :
       IsoBegin(c, "attach", "lock", i, v, NoSum)
  /\ UNCHANGED <<isoRow, isoFiles, isoAttached, isoSpoiled, isoRaced>>

AttachLocked(c) ==
  LET v == isoCall[c].vm IN
  /\ IsoAt(c, "lock") /\ isoMu[v] = "free"
  /\ isoMu' = [isoMu EXCEPT ![v] = c]
  /\ vmIsos' = [vmIsos EXCEPT ![v] = {isoCall[c].iso} \ {0}]
  /\ IsoGoto(c, "clear")
  /\ isoRaced' = isoRaced \cup
       {i \in vmIsos[v]' : \E b \in IsoCall : isoCall[b].iso = i /\ isoCall[b].pc \in {"rows", "delete"}}
  /\ UNCHANGED <<isoRow, isoFiles, isoAttRows, isoSpoiled>>

SomeSave(c) ==
  /\ \E v \in IsoVM : IsoBegin(c, "save", "clear", 0, v, NoSum)
  /\ UNCHANGED <<isoRow, isoFiles, isoAttached, isoSpoiled, isoRaced>>

SaveClears(c) ==
  /\ IsoAt(c, "clear")
  /\ isoAttRows' = {r \in isoAttRows : r[1] # isoCall[c].vm}
  /\ IsoGoto(c, "insert")
  /\ UNCHANGED <<isoRow, isoFiles, vmIsos, isoMu, isoSpoiled, isoRaced>>

\* A row that is there already fails the transaction and stays.
SaveInserts(c) ==
  LET v == isoCall[c].vm IN
  /\ IsoAt(c, "insert")
  /\ isoAttRows' = isoAttRows \cup ({v} \X vmIsos[v])
  /\ isoMu' = [isoMu EXCEPT ![v] = IF @ = c THEN "free" ELSE @]
  /\ IsoReturn(c)
  /\ UNCHANGED <<isoRow, isoFiles, vmIsos, isoSpoiled, isoRaced>>

-----------------------------------------------------------------------------

\* The daemon ends and starts again; a row of vm_isos without an ISO is skipped.
IsoRestart ==
  /\ vmIsos' = [v \in IsoVM |-> {i \in IsoID : <<v, i>> \in isoAttRows /\ IsIso(i)}]
  /\ isoMu' = [v \in IsoVM |-> "free"]
  /\ isoCall' = [c \in IsoCall |-> NoCall]
  /\ isoSpoiled' = isoSpoiled \cup {n \in IsoNames : \E c \in IsoCall : Uploading(c, n)}
  /\ UNCHANGED <<isoRow, isoFiles, isoAttRows, isoRaced>>

IsoNext ==
  \/ \E i \in IsoID : AddISO(i)
  \/ \E n \in IsoNames : FileRemoved(n)
  \/ \E c \in IsoCall :
       \/ UploadIso(c) \/ UploadCreate(c) \/ UploadChunk(c) \/ UploadVerify(c)
       \/ UploadSave(c) \/ UploadFails(c)
       \/ RemoveISO(c) \/ RemoveLooksAtVMs(c) \/ InUse(c) \/ DeleteIso(c)
       \/ SetVMISOs(c) \/ AttachLocked(c) \/ SomeSave(c) \/ SaveClears(c) \/ SaveInserts(c)
  \/ IsoRestart

IsoSpec == IsoInit /\ [][IsoNext]_isoVars

-----------------------------------------------------------------------------

\* The checksum in a row is that of the file, while nobody uploads and unless the last
\* upload to this file failed, was cut, ran beside another or was of a removed ISO.
ChecksumHonest ==
  \A i \in IsoID :
    IsIso(i) /\ isoRow[i] # NoSum =>
      \/ isoFile[IsoName[i]] = <<isoRow[i], isoRow[i]>>
      \/ IsoName[i] \in isoSpoiled
      \/ \E c \in IsoCall : Uploading(c, IsoName[i])

\* The image of a VM has a row: RemoveISO deletes none that is attached, even while a Save
\* has deleted the rows of vm_isos to insert them again. Only a SetVMISOs beside the
\* RemoveISO can attach an image that goes away.
AttachedExists == \A v \in IsoVM : \A i \in vmIsos[v] : IsIso(i) \/ i \in isoRaced
=============================================================================
