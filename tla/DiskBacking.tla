---------------------------- MODULE DiskBacking ----------------------------
(***************************************************************************)
(* What is on a disk: the file and the ZFS volume of one disk name, the    *)
(* calls that make, fill, wipe and forget them, and a guest that writes    *)
(* (disk/disk.go, disk/file.go, disk/zfs.go, rpc_disk.go, diskops.go).     *)
(*                                                                         *)
(* The mutex of a disk keeps its VM, uploads and removals apart, but an    *)
(* upload looks at the VM, sizes the volume and truncates the file before  *)
(* it locks, AddDisk and wipes do not lock at all, and RemoveDisk leaves   *)
(* the data. DiskUse has attachments and mutexes in detail; here a VM      *)
(* starts, and a disk is removed, in one step.                             *)
(***************************************************************************)
EXTENDS Naturals, Sequences

CONSTANTS
  DiskID,     \* IDs of disks, given out in turn and once; all have one name
  DiskCall,   \* bound: calls under way at once
  DiskImage,  \* what is uploaded; a cell of it looks like every other
  NewSize,    \* sizes, in cells, AddDisk is asked for
  ImageSize,  \* sizes uploads announce
  MaxImage,   \* bound: cells that are received
  BlockSize,  \* volblocksize
  Wide        \* sizes are unsigned integers below this

Blank == "blank"

ASSUME DiskAssumption ==
  /\ DiskID \subseteq Nat \ {0} /\ "vm" \notin DiskCall /\ "free" \notin DiskCall
  /\ Blank \notin DiskImage
  /\ Wide \in Nat \ {0} /\ NewSize \cup ImageSize \subseteq 0 .. Wide - 1
  /\ BlockSize \in Nat \ {0} /\ Wide % BlockSize = 0

Cell == DiskImage \cup {Blank, "guest"}
Backing == {"FILE", "ZVOL"}
Unknown == [what |-> "unknown", size |-> 0]
NoDiskCall == [op |-> "none", pc |-> "idle", disk |-> 0, kind |-> "FILE", size |-> 0,
               image |-> Blank, got |-> 0, open |-> FALSE, ok |-> TRUE]

VARIABLES
  live,      \* disks that have a row, and are in disk.List
  devType,   \* d.DevType, also of a disk that is gone while a call still has it
  store,     \* the cells of the file and of the volume
  present,   \* which of the two there are
  snapshot,  \* the size of the volume at its snapshot @empty, 0 without one
  diskMu,    \* d.mu: a call, "vm" or "free"
  guest,     \* the VM: the disk it has, the kind of backing its bhyve has open, the size
             \* it had then
  diskCall,
  told       \* observer: what the last call that answered said of a backing

diskVars == <<live, devType, store, present, snapshot, diskMu, guest, diskCall, told>>

DiskTypeOK ==
  /\ live \subseteq DiskID
  /\ devType \in [DiskID -> Backing \cup {"unused"}]
  /\ \A k \in Backing : store[k] \in Seq(Cell)
  /\ present \subseteq Backing /\ snapshot \in 0 .. Wide
  /\ diskMu \in [DiskID -> DiskCall \cup {"vm", "free"}]
  /\ guest \in [disk : DiskID \cup {0}, open : Backing \cup {"none"}, size : 0 .. Wide, up : BOOLEAN]
  /\ \A c \in DiskCall :
       /\ diskCall[c].op \in {"none", "add", "upload", "wipe"}
       /\ diskCall[c].pc \in {"idle", "exists", "backing", "row", "size", "open", "lock", "recv",
                              "queued", "stuck", "erase", "create"}
       /\ diskCall[c].kind \in Backing /\ diskCall[c].disk \in DiskID \cup {0}
  /\ \A k \in Backing : told[k].what \in {"unknown", Blank} \cup DiskImage

DiskInit ==
  /\ live = {} /\ devType = [i \in DiskID |-> "unused"]
  /\ store = [k \in Backing |-> << >>] /\ present = {} /\ snapshot = 0
  /\ diskMu = [i \in DiskID |-> "free"]
  /\ guest = [disk |-> 0, open |-> "none", size |-> 0, up |-> FALSE]
  /\ diskCall = [c \in DiskCall |-> NoDiskCall]
  /\ told = [k \in Backing |-> Unknown]

-----------------------------------------------------------------------------

DiskAt(c, pc) == diskCall[c].pc = pc

\* The calls that work on the file or on the volume.
WorkOn(k) == {c \in DiskCall : diskCall[c].kind = k /\
                diskCall[c].pc \in {"backing", "row", "lock", "recv", "erase", "create"}}

\* Who writes to disk i under its mutex does not disturb an upload to this disk that has
\* the mutex, nor one that waits for it and will write over what a volume has there. A
\* file that waits was truncated too early: what is written now may stay behind its end.
Spared(k, i) ==
  {c \in DiskCall : diskCall[c].op = "upload" /\ diskCall[c].disk = i /\
     (k = "ZVOL" \/ DiskAt(c, "recv"))}

\* c goes on as r, and what it does disturbs the calls in D.
DiskGoes(c, r, D) ==
  diskCall' = [x \in DiskCall |-> IF x = c THEN r
                                  ELSE [diskCall[x] EXCEPT !.ok = @ /\ x \notin D]]
DiskGoto(c, pc) == DiskGoes(c, [diskCall[c] EXCEPT !.pc = pc], {})
DiskReturns(c) == DiskGoes(c, NoDiskCall, {})

Says(k, w, n) == told' = [told EXCEPT ![k] = [what |-> w, size |-> n]]
Blanks(n) == [j \in 1 .. n |-> Blank]

\* truncate -s, zfs set volsize: what is beyond the new size goes, new cells are blank.
Resized(cells, n) == [j \in 1 .. n |-> IF j <= Len(cells) THEN cells[j] ELSE Blank]

\* A file grows when it is written behind its end.
WrittenAt(cells, j, x) == [Resized(cells, IF Len(cells) < j THEN j ELSE Len(cells)) EXCEPT ![j] = x]

\* "round up to a multiple of volblocksize" (zfs.go:93), in uint64.
RoundUp(n) == (IF n % BlockSize > 0 THEN n + (BlockSize - (n % BlockSize)) ELSE n) % Wide

files == <<store, present, snapshot>>
ids == <<live, devType>>

-----------------------------------------------------------------------------
(* AddDisk                                                                 *)

\* Create looks for a row of this name,
AddDisk(c, k, n) ==
  /\ DiskAt(c, "idle") /\ live = {}
  /\ DiskGoes(c, [NoDiskCall EXCEPT !.op = "add", !.pc = "exists", !.kind = k, !.size = n], {})
  /\ UNCHANGED <<ids, files, diskMu, guest, told>>

\* Mutant: Create does not look for what a removed disk has left.
LeftoverTaken(c) ==
  LET others == {x \in WorkOn(diskCall[c].kind) : diskCall[x].op = "add"} IN
  /\ DiskAt(c, "exists")
  /\ DiskGoes(c, [diskCall[c] EXCEPT !.pc = "backing", !.ok = others = {}], others)
  /\ UNCHANGED <<ids, files, diskMu, guest, told>>

\* and for a file or a volume. Two that come here before either has made one
\* disturb each other.
LeftoverRefused(c) ==
  LET k == diskCall[c].kind
      others == {x \in WorkOn(k) : diskCall[x].op = "add"}
  IN
  /\ DiskAt(c, "exists")
  /\ IF k \in present THEN DiskReturns(c)
     ELSE DiskGoes(c, [diskCall[c] EXCEPT !.pc = "backing", !.ok = others = {}], others)
  /\ UNCHANGED <<ids, files, diskMu, guest, told>>

\* A file is made or changes its size; a volume is made, then its snapshot.
MakeBacking(k, n) ==
  \/ /\ k = "FILE"
     /\ store' = [store EXCEPT ![k] = Resized(@, n)] /\ UNCHANGED snapshot
  \/ /\ k = "ZVOL" /\ k \notin present
     /\ store' = [store EXCEPT ![k] = Blanks(RoundUp(n))] /\ snapshot' \in {0, RoundUp(n)}

\* Whatever fails, what was made stays: the file that has another owner, the volume
\* without a snapshot.
AddBacking(c) ==
  LET k == diskCall[c].kind IN
  /\ DiskAt(c, "backing")
  /\ \/ /\ MakeBacking(k, diskCall[c].size)
        /\ present' = present \cup {k}
        /\ Says(k, "unknown", 0)
        /\ \/ /\ k = "ZVOL" => snapshot' # 0
              /\ DiskGoes(c, [diskCall[c] EXCEPT !.pc = "row"], WorkOn(k))
           \/ DiskGoes(c, NoDiskCall, WorkOn(k))
     \/ DiskReturns(c) /\ UNCHANGED <<files, told>>
  /\ UNCHANGED <<ids, diskMu, guest>>

\* The name is unique in the table. The disk is answered: it is empty.
AddRow(c, i) ==
  LET k == diskCall[c].kind
      others == {x \in WorkOn(k) : diskCall[x].op = "add"}
  IN
  /\ DiskAt(c, "row")
  /\ devType[i] = "unused" /\ \A j \in DiskID : j < i => devType[j] # "unused"
  /\ \/ /\ live = {} /\ live' = {i}
        /\ devType' = [devType EXCEPT ![i] = k]
        /\ IF diskCall[c].ok THEN Says(k, Blank, IF k = "FILE" THEN diskCall[c].size ELSE 0)
           ELSE Says(k, "unknown", 0)
        /\ DiskGoes(c, NoDiskCall, others)
     \/ DiskReturns(c) /\ UNCHANGED <<ids, told>>
  /\ UNCHANGED <<files, diskMu, guest>>

-----------------------------------------------------------------------------
(* UploadDisk                                                              *)

\* validateDiskReq: the VM that has the disk does not run.
UploadDisk(c, i, x, n) ==
  /\ DiskAt(c, "idle") /\ i \in live
  /\ guest.disk = i => ~guest.up
  /\ DiskGoes(c, [NoDiskCall EXCEPT !.op = "upload", !.disk = i, !.image = x, !.size = n,
                    !.pc = IF devType[i] = "ZVOL" THEN "size" ELSE "open"], {})
  /\ UNCHANGED <<ids, files, diskMu, guest, told>>

\* SetSize of the volume, which it never shrinks. No call has told how large a volume is.
SetSize(c) ==
  LET n == RoundUp(diskCall[c].size)
      now == Len(store["ZVOL"])
  IN
  /\ DiskAt(c, "size")
  /\ \/ /\ "ZVOL" \in present
        /\ \/ diskCall[c].size = now /\ UNCHANGED store
           \/ /\ diskCall[c].size # now /\ n >= now
              /\ store' = [store EXCEPT !["ZVOL"] = Resized(@, n)]
        /\ DiskGoto(c, "open")
     \/ DiskReturns(c) /\ UNCHANGED store
  /\ UNCHANGED <<ids, present, snapshot, diskMu, guest, told>>

\* os.Create truncates the file; a volume is opened. The mutex is not held yet.
UploadOpen(c) ==
  LET k == devType[diskCall[c].disk]
      r == [diskCall[c] EXCEPT !.pc = "lock", !.kind = k, !.open = TRUE]
  IN
  /\ DiskAt(c, "open")
  /\ \/ /\ k = "FILE"
        /\ store' = [store EXCEPT ![k] = << >>] /\ present' = present \cup {k}
        /\ Says(k, "unknown", 0)
        /\ DiskGoes(c, r, WorkOn(k))
     \/ /\ k = "ZVOL" /\ k \in present
        /\ DiskGoes(c, r, {})
        /\ UNCHANGED <<store, present, told>>
     \/ DiskReturns(c) /\ UNCHANGED <<store, present, told>>
  /\ UNCHANGED <<ids, snapshot, diskMu, guest>>

\* Mutant: the mutex is not taken.
UploadUnlocked(c) ==
  /\ DiskAt(c, "lock")
  /\ DiskGoto(c, "recv")
  /\ UNCHANGED <<ids, files, diskMu, guest, told>>

UploadLocks(c) ==
  LET i == diskCall[c].disk IN
  /\ DiskAt(c, "lock") /\ diskMu[i] = "free"
  /\ diskMu' = [diskMu EXCEPT ![i] = c]
  /\ DiskGoto(c, "recv")
  /\ UNCHANGED <<ids, files, guest, told>>

\* A cell goes where this upload is in its file.
Receive(c) ==
  LET k == diskCall[c].kind
      n == diskCall[c].got + 1
      r == [diskCall[c] EXCEPT !.got = n]
      others == WorkOn(k) \ Spared(k, diskCall[c].disk)
  IN
  /\ DiskAt(c, "recv") /\ n <= diskCall[c].size /\ n <= MaxImage
  /\ IF diskCall[c].open
     THEN /\ k = "ZVOL" => n <= Len(store[k])
          /\ store' = [store EXCEPT ![k] = WrittenAt(@, n, diskCall[c].image)]
          /\ Says(k, "unknown", 0)
          /\ DiskGoes(c, r, others)
     ELSE DiskGoes(c, r, {}) /\ UNCHANGED <<store, told>>
  /\ UNCHANGED <<ids, present, snapshot, diskMu, guest>>

UnlockAfter(c) == diskMu' = [i \in DiskID |-> IF diskMu[i] = c THEN "free" ELSE diskMu[i]]

\* All cells have come, and the checksum is right.
UploadDone(c) ==
  LET u == diskCall[c] IN
  /\ DiskAt(c, "recv") /\ u.got = u.size
  /\ IF u.ok /\ u.open THEN Says(u.kind, u.image, u.size) ELSE Says(u.kind, "unknown", 0)
  /\ UnlockAfter(c)
  /\ DiskReturns(c)
  /\ UNCHANGED <<ids, files, guest>>

\* The stream breaks or has other cells than were announced.
UploadBreaks(c) ==
  /\ DiskAt(c, "recv")
  /\ Says(diskCall[c].kind, "unknown", 0)
  /\ UnlockAfter(c)
  /\ DiskReturns(c)
  /\ UNCHANGED <<ids, files, guest>>

-----------------------------------------------------------------------------
(* WipeDisk and diskWipe                                                   *)

WipeDisk(c, i) ==
  /\ DiskAt(c, "idle") /\ i \in live /\ guest.disk # i
  /\ \A x \in DiskCall : diskCall[x].op = "wipe" => diskCall[x].disk # i
  /\ DiskGoes(c, [NoDiskCall EXCEPT !.op = "wipe", !.pc = "queued", !.disk = i], {})
  /\ UNCHANGED <<ids, files, diskMu, guest, told>>

\* The disk may be gone; without its size the handler gives no answer.
WipeBegins(c) ==
  LET i == diskCall[c].disk
      k == devType[i]
  IN
  /\ DiskAt(c, "queued")
  /\ \/ i \notin live /\ DiskReturns(c)
     \/ /\ i \in live /\ k \in present
        /\ DiskGoes(c, [diskCall[c] EXCEPT !.pc = "erase", !.kind = k, !.ok = TRUE,
                                           !.size = Len(store[k])], {})
     \/ i \in live /\ DiskGoto(c, "stuck")
  /\ UNCHANGED <<ids, files, diskMu, guest, told>>

\* os.Remove takes the file away under those who have it open.
OpenFiles == {x \in DiskCall : diskCall[x].kind = "FILE" /\ diskCall[x].open}
FileGone ==
  /\ store' = [store EXCEPT !["FILE"] = << >>] /\ present' = present \ {"FILE"}
  /\ UNCHANGED snapshot
  /\ guest' = [guest EXCEPT !.open = IF @ = "FILE" THEN "none" ELSE @]

\* The type was changed: the commands look for another path and fail.
Retyped(c) == devType[diskCall[c].disk] # diskCall[c].kind

\* Mutant: the volume is not rolled back, only its size is looked up.
RemoveBackingKeeps(c) ==
  /\ DiskAt(c, "erase")
  /\ DiskGoto(c, "create")
  /\ UNCHANGED <<ids, files, diskMu, guest, told>>

\* RemoveBacking, whose errors are logged. A volume is rolled back to its snapshot, or
\* destroyed and made again if there is none or the list of snapshots fails.
RemoveBacking(c) ==
  LET w == diskCall[c]
      r(ok) == [w EXCEPT !.pc = "create", !.ok = @ /\ ok]
      others == WorkOn(w.kind)
  IN
  /\ DiskAt(c, "erase")
  /\ \/ /\ w.kind = "FILE" /\ ~Retyped(c) /\ FileGone
        /\ Says(w.kind, "unknown", 0)
        /\ diskCall' = [x \in DiskCall |->
             IF x = c THEN r(TRUE)
             ELSE [diskCall[x] EXCEPT !.ok = @ /\ x \notin others,
                                      !.open = @ /\ x \notin OpenFiles]]
     \/ /\ w.kind = "ZVOL" /\ ~Retyped(c) /\ "ZVOL" \in present
        /\ \/ /\ snapshot > 0
              /\ store' = [store EXCEPT !["ZVOL"] = Blanks(snapshot)]
              /\ DiskGoes(c, r(TRUE), others)
              /\ UNCHANGED <<present, snapshot>>
           \/ /\ store' = [store EXCEPT !["ZVOL"] = Blanks(Len(@))]
              /\ snapshot' \in {0, Len(store["ZVOL"])}
              /\ DiskGoes(c, r(TRUE), others)
              /\ UNCHANGED present
           \/ /\ store' = [store EXCEPT !["ZVOL"] = << >>] /\ present' = present \ {"ZVOL"}
              /\ snapshot' = 0
              /\ DiskGoes(c, r(FALSE), others)
        /\ Says(w.kind, "unknown", 0)
        /\ UNCHANGED guest
     \/ DiskGoes(c, r(FALSE), {}) /\ UNCHANGED <<files, guest, told>>
  /\ UNCHANGED <<ids, diskMu>>

\* Create, whose errors are logged too, then Succeeded.
Recreate(c) ==
  LET w == diskCall[c]
      says == IF w.kind = "FILE" THEN w.size ELSE 0
  IN
  /\ DiskAt(c, "create")
  /\ \/ /\ ~Retyped(c) /\ MakeBacking(w.kind, w.size)
        /\ present' = present \cup {w.kind}
        /\ IF w.ok THEN Says(w.kind, Blank, says) ELSE Says(w.kind, "unknown", 0)
        /\ DiskGoes(c, NoDiskCall, WorkOn(w.kind))
     \/ /\ IF w.ok /\ w.kind = "ZVOL" THEN Says(w.kind, Blank, says) ELSE Says(w.kind, "unknown", 0)
        /\ DiskReturns(c) /\ UNCHANGED files
  /\ UNCHANGED <<ids, diskMu, guest>>

-----------------------------------------------------------------------------
(* Everybody else                                                          *)

\* SetDiskInfo changes the type whoever uses the disk. Bound: Save does not fail.
SetDiskInfo(i, k) ==
  /\ i \in live
  /\ devType' = [devType EXCEPT ![i] = k]
  /\ UNCHANGED <<live, files, diskMu, guest, diskCall, told>>

\* RemoveDisk takes the mutex and looks into vm_disks. "TODO actually delete data".
RemoveDisk(i) ==
  /\ i \in live /\ diskMu[i] = "free" /\ guest.disk # i
  /\ live' = {}
  /\ UNCHANGED <<devType, files, diskMu, guest, diskCall, told>>

\* The administrator removes a "possible left over disk" (CheckAll) that is of no disk.
\* A volume that is open cannot be destroyed.
LeftoverRemoved(k) ==
  /\ k \in present /\ \A i \in live : devType[i] # k
  /\ Says(k, "unknown", 0)
  /\ \/ /\ k = "FILE" /\ FileGone
        /\ diskCall' = [x \in DiskCall |-> [diskCall[x] EXCEPT !.open = @ /\ x \notin OpenFiles,
                                                               !.ok = @ /\ x \notin WorkOn(k)]]
     \/ /\ k = "ZVOL" /\ guest.open # k
        /\ \A x \in DiskCall : diskCall[x].open => diskCall[x].kind # k
        /\ store' = [store EXCEPT ![k] = << >>] /\ present' = present \ {k} /\ snapshot' = 0
        /\ diskCall' = [x \in DiskCall |-> [diskCall[x] EXCEPT !.ok = @ /\ x \notin WorkOn(k)]]
        /\ UNCHANGED guest
  /\ UNCHANGED <<ids, diskMu>>

AttachGuest(i) ==
  /\ ~guest.up /\ i \in live \cup {0} /\ i # guest.disk
  /\ guest' = [guest EXCEPT !.disk = i]
  /\ UNCHANGED <<ids, files, diskMu, diskCall, told>>

StartGuest ==
  LET i == guest.disk IN
  /\ ~guest.up /\ i \in live /\ diskMu[i] = "free" /\ devType[i] \in present
  /\ diskMu' = [diskMu EXCEPT ![i] = "vm"]
  /\ guest' = [guest EXCEPT !.up = TRUE, !.open = devType[i],
                              !.size = Len(store[devType[i]])]
  /\ UNCHANGED <<ids, files, diskCall, told>>

GuestWrites(j) ==
  LET k == guest.open
      others == WorkOn(k) \ Spared(k, guest.disk)
  IN
  /\ k \in Backing /\ j \in 1 .. guest.size
  /\ k = "ZVOL" => j <= Len(store[k])
  /\ store' = [store EXCEPT ![k] = WrittenAt(@, j, "guest")]
  /\ Says(k, "unknown", 0)
  /\ diskCall' = [x \in DiskCall |-> [diskCall[x] EXCEPT !.ok = @ /\ x \notin others]]
  /\ UNCHANGED <<ids, present, snapshot, diskMu, guest>>

StopGuest ==
  /\ guest.up
  /\ guest' = [guest EXCEPT !.up = FALSE, !.open = "none", !.size = 0]
  /\ diskMu' = [diskMu EXCEPT ![guest.disk] = "free"]
  /\ UNCHANGED <<ids, files, diskCall, told>>

\* The daemon ends and starts again: a wipe that was not handed out is, later.
DiskRestart ==
  /\ diskMu' = [i \in DiskID |-> "free"]
  /\ guest' = [guest EXCEPT !.up = FALSE, !.open = "none", !.size = 0]
  /\ diskCall' = [c \in DiskCall |-> IF DiskAt(c, "queued") THEN diskCall[c] ELSE NoDiskCall]
  /\ UNCHANGED <<ids, files, told>>

DiskNext ==
  \/ \E c \in DiskCall :
       \/ \E k \in Backing, n \in NewSize : AddDisk(c, k, n)
       \/ LeftoverRefused(c) \/ AddBacking(c)
       \/ \E i \in DiskID : AddRow(c, i) \/ WipeDisk(c, i)
       \/ \E i \in DiskID, x \in DiskImage, n \in ImageSize : UploadDisk(c, i, x, n)
       \/ SetSize(c) \/ UploadOpen(c) \/ UploadLocks(c) \/ Receive(c)
       \/ UploadDone(c) \/ UploadBreaks(c)
       \/ WipeBegins(c) \/ RemoveBacking(c) \/ Recreate(c)
  \/ \E i \in DiskID, k \in Backing : SetDiskInfo(i, k)
  \/ \E i \in DiskID : RemoveDisk(i)
  \/ \E k \in Backing : LeftoverRemoved(k)
  \/ \E i \in DiskID \cup {0} : AttachGuest(i)
  \/ StartGuest \/ StopGuest
  \/ \E j \in 1 .. Wide : GuestWrites(j)
  \/ DiskRestart

DiskSpec == DiskInit /\ [][DiskNext]_diskVars

-----------------------------------------------------------------------------

\* What a client was told is what is there: a disk that AddDisk has made or a wipe has
\* emptied holds nothing of a removed disk or of a guest, one an upload has filled holds
\* that image, a file is as long as was asked for and a volume long enough, until
\* somebody writes again. Mutexes, the refusal of leftovers and the order of commands
\* have to see to it, when clients, guests, failures and restarts come in any order.
ContentAsTold ==
  \A k \in Backing :
    LET cells == store[k]
        n == told[k].size
    IN  /\ told[k].what = Blank => \A j \in 1 .. Len(cells) : cells[j] = Blank
        /\ told[k].what \in DiskImage =>
             Len(cells) >= n /\ \A j \in 1 .. n : cells[j] = told[k].what
        /\ told[k].what # "unknown" => k \in present /\ (k = "FILE" => Len(cells) = n)
=============================================================================
