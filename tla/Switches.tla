------------------------------ MODULE Switches ------------------------------
(***************************************************************************)
(* Virtual switches and their uplinks: the rows of switches, the bridges   *)
(* of the host and their members, and the RPCs that change them            *)
(* (switch/switch.go, bridge_if.go, bridge_ng.go, rpc_switch.go), with     *)
(* restarts of the daemon.                                                 *)
(*                                                                         *)
(* There are two kinds of switches: IF switches are if_bridge devices, NG  *)
(* switches are netgraph nodes. An interface can be in one bridge of each  *)
(* kind at a time; the kernel refuses a second one. Nothing locks a switch *)
(* or an uplink: every RPC works on a copy of the row it has read.         *)
(***************************************************************************)
EXTENDS FiniteSets, Naturals

CONSTANTS
  Switch,     \* names of switches
  NG,         \* those of netgraph switches
  Uplink,     \* interfaces of the host
  Dotted,     \* those with a dot in their name, as VLANs have
  SwCall,     \* RPCs under way at once
  NoUplink        \* no uplink

Absent == "absent"

\* "No uplink" and "no row" are not interfaces, and "no uplink" is not a switch.
ASSUME SwNames == NoUplink \notin Switch \cup Uplink /\ Absent \notin Uplink \cup {NoUplink}

VARIABLES
  uplink,     \* the column of the row of each switch, or Absent
  bridges,    \* switches that exist on the host
  members,    \* members of their bridges
  swCall,     \* the RPCs
  swMishap    \* observer: what has happened that weakens the guarantees

swVars == <<uplink, bridges, members, swCall, swMishap>>

SwCallIdle == [pc |-> "idle", sw |-> NoUplink, seen |-> NoUplink, new |-> NoUplink]

SwTypeOK ==
  /\ uplink \in [Switch -> Uplink \cup {NoUplink, Absent}]
  /\ bridges \subseteq Switch
  /\ members \subseteq bridges \X Uplink
  /\ swCall \in [SwCall -> [pc : {"idle", "build", "insert", "unset", "clear", "check", "add",
                                  "save", "info", "delete", "destroy"},
                            sw : Switch \cup {NoUplink},
                            seen : Uplink \cup {NoUplink},     \* in the copy of the row
                            new : Uplink \cup {NoUplink}]]     \* that is asked for
  /\ swMishap \subseteq {"failed", "left", "overlap", "raced", "cut"}

SwIdle ==
  /\ bridges = {} /\ members = {}
  /\ uplink = [s \in Switch |-> Absent]
  /\ swCall = [o \in SwCall |-> SwCallIdle]
  /\ swMishap = {}

SwInit == SwIdle

-----------------------------------------------------------------------------

SameKind(s, t) == s \in NG <=> t \in NG
Present == {s \in Switch : uplink[s] # Absent}

\* memberUsedByIfSwitch and memberUsedByNgSwitch look at the host. A netgraph node has
\* no dot in its name, so an uplink with one is not found.
IsMember(s, u) == <<s, u>> \in members
Found(s, u) == IsMember(s, u) /\ ~(s \in NG /\ u \in Dotted)
MemberUsed(s, u) == \E t \in Switch : SameKind(s, t) /\ Found(t, u)

\* What the kernel refuses.
Taken(s, u) == \E t \in Switch : SameKind(s, t) /\ IsMember(t, u)

Goto(o, pc) == swCall' = [swCall EXCEPT ![o].pc = pc]
Return(o) == swCall' = [swCall EXCEPT ![o] = SwCallIdle]
Begin(o, pc, s, seen, new) ==
  /\ swCall[o].pc = "idle"
  /\ swCall' = [swCall EXCEPT ![o] = [pc |-> pc, sw |-> s, seen |-> seen, new |-> new]]
  /\ swMishap' = IF \E p \in SwCall : swCall[p].sw = s THEN swMishap \cup {"overlap"} ELSE swMishap
At(o, pc, s) == swCall[o].pc = pc /\ swCall[o].sw = s

Happened(m) == swMishap' = swMishap \cup {m}

\* Save writes the row if it is still there.
SaveUplink(s, u) == uplink' = [uplink EXCEPT ![s] = IF s \in Present THEN u ELSE Absent]

-----------------------------------------------------------------------------
(* AddSwitch. A new switch needs an uplink.                                *)

AddSwitch(o, s, u) ==
  /\ s \notin Present
  /\ ~MemberUsed(s, u)
  /\ Begin(o, "build", s, NoUplink, u)
  /\ UNCHANGED <<uplink, bridges, members>>

\* A netgraph uplink is connected by two commands. When the second fails it stays there.
HalfConnected(s, u) == s \in NG /\ ~Taken(s, u) /\ members' = members \cup {<<s, u>>}

\* Create inserts the row, and builds the switch before the row is committed. An IF
\* switch that cannot be built takes the row back; what has been built stays. The
\* failure of an NG switch is ignored.
BuildNew(o, s) ==
  /\ At(o, "build", s)
  /\ \/ /\ s \notin bridges /\ ~Taken(s, swCall[o].new)
        /\ bridges' = bridges \cup {s}
        /\ members' = members \cup {<<s, swCall[o].new>>}
        /\ Goto(o, "insert")
        /\ UNCHANGED swMishap
     \/ \* buildIfSwitch and buildNgSwitch skip an uplink that another switch has by now.
        /\ s \notin bridges /\ Taken(s, swCall[o].new)
        /\ bridges' = bridges \cup {s}
        /\ Goto(o, "insert")
        /\ Happened("raced")
        /\ UNCHANGED members
     \/ \* It is there already, or a command fails.
        /\ \/ UNCHANGED <<bridges, members>>
           \/ s \notin bridges /\ bridges' = bridges \cup {s} /\ UNCHANGED members
           \/ /\ s \notin bridges /\ bridges' = bridges \cup {s}
              /\ HalfConnected(s, swCall[o].new)
        /\ IF s \in NG THEN Goto(o, "insert") ELSE Return(o)
        /\ Happened("failed")
  /\ UNCHANGED uplink

\* The names of switches are unique in the database. A row that is not committed leaves
\* what has been built.
Insert(o, s) ==
  /\ At(o, "insert", s)
  /\ \/ /\ uplink' = [uplink EXCEPT ![s] = IF s \in Present THEN @ ELSE swCall[o].new]
        /\ UNCHANGED swMishap
     \/ UNCHANGED uplink /\ Happened("left")
  /\ Return(o)
  /\ UNCHANGED <<bridges, members>>

-----------------------------------------------------------------------------
(* SetSwitchUplink.                                                        *)

\* uplinkInUse looks at the rows.
UplinkInUse(s, u) == \E t \in Switch \ {s} : SameKind(s, t) /\ uplink[t] = u

SetSwitchUplink(o, s, u) ==
  /\ s \in Present
  /\ ~UplinkInUse(s, u)
  /\ Begin(o, "unset", s, uplink[s], u)
  /\ UNCHANGED <<uplink, bridges, members>>

\* An empty uplink for a switch that has one.
ClearUplink(o, s) ==
  /\ s \in Present
  /\ uplink[s] # NoUplink
  /\ Begin(o, "unset", s, uplink[s], NoUplink)
  /\ UNCHANGED <<uplink, bridges, members>>

\* Mutant: UnsetUplink forgets the bridge.
UnsetRowOnly(o, s) ==
  /\ At(o, "unset", s)
  /\ Goto(o, "clear")
  /\ UNCHANGED <<uplink, bridges, members, swMishap>>

\* UnsetUplink takes the uplink of the copy from the bridge, if it finds it there.
Unset(o, s) ==
  /\ At(o, "unset", s)
  /\ s \in NG => s \in bridges
  /\ members' = IF Found(s, swCall[o].seen) THEN members \ {<<s, swCall[o].seen>>} ELSE members
  /\ Goto(o, "clear")
  /\ swMishap' = IF IsMember(s, swCall[o].seen) /\ ~Found(s, swCall[o].seen)
                 THEN swMishap \cup {"left"} ELSE swMishap
  /\ UNCHANGED <<uplink, bridges>>

\* A command fails, or an NG switch does not exist. The error is ignored when another
\* uplink is to be set.
UnsetFails(o, s) ==
  /\ At(o, "unset", s)
  /\ IF swCall[o].new \in {NoUplink, swCall[o].seen} THEN Return(o) ELSE Goto(o, "check")
  /\ Happened("failed")
  /\ UNCHANGED <<uplink, bridges, members>>

\* If the row cannot be written it keeps the uplink that the bridge has lost; the error is
\* ignored as one of Unset is.
SaveCleared(o, s) ==
  /\ At(o, "clear", s)
  /\ \/ /\ SaveUplink(s, NoUplink)
        /\ IF swCall[o].new = NoUplink THEN Return(o) ELSE Goto(o, "check")
        /\ UNCHANGED swMishap
     \/ /\ UNCHANGED uplink
        /\ IF swCall[o].new \in {NoUplink, swCall[o].seen} THEN Return(o) ELSE Goto(o, "check")
        /\ Happened("failed")
  /\ UNCHANGED <<bridges, members>>

\* SetUplink looks at the host again.
CheckMember(o, s) ==
  /\ At(o, "check", s)
  /\ IF MemberUsed(s, swCall[o].new) THEN Return(o) ELSE Goto(o, "add")
  /\ UNCHANGED <<uplink, bridges, members, swMishap>>

\* Mutant: the error of switchIfAddMember is ignored.
AddMemberUnchecked(o, s) ==
  /\ At(o, "add", s)
  /\ members' = IF s \in bridges /\ ~Taken(s, swCall[o].new)
                THEN members \cup {<<s, swCall[o].new>>} ELSE members
  /\ Goto(o, "save")
  /\ UNCHANGED <<uplink, bridges, swMishap>>

AddMember(o, s) ==
  /\ At(o, "add", s)
  /\ \/ /\ s \in bridges /\ ~Taken(s, swCall[o].new)
        /\ members' = members \cup {<<s, swCall[o].new>>}
        /\ Goto(o, "save")
        /\ UNCHANGED swMishap
     \/ \* no such bridge, the kernel refuses, or a command fails
        /\ Return(o)
        /\ UNCHANGED <<members, swMishap>>
     \/ /\ s \in bridges /\ HalfConnected(s, swCall[o].new)
        /\ Return(o)
        /\ Happened("left")
  /\ UNCHANGED <<uplink, bridges>>

\* If the row cannot be written, the bridge keeps an uplink that no row names.
SaveNew(o, s) ==
  /\ At(o, "save", s)
  /\ \/ SaveUplink(s, swCall[o].new) /\ UNCHANGED swMishap
     \/ UNCHANGED uplink /\ Happened("left")
  /\ Return(o)
  /\ UNCHANGED <<bridges, members>>

-----------------------------------------------------------------------------
(* SetSwitchInfo changes the description, and saves the whole row.         *)

SetSwitchInfo(o, s) ==
  /\ s \in Present
  /\ Begin(o, "info", s, uplink[s], NoUplink)
  /\ UNCHANGED <<uplink, bridges, members>>

SaveInfo(o, s) ==
  /\ At(o, "info", s)
  /\ SaveUplink(s, swCall[o].seen) \/ UNCHANGED uplink
  /\ Return(o)
  /\ UNCHANGED <<bridges, members, swMishap>>

-----------------------------------------------------------------------------
(* RemoveSwitch. Whether NICs use the switch is left open.                 *)

RemoveSwitch(o, s) ==
  /\ s \in Present
  /\ Begin(o, "delete", s, uplink[s], NoUplink)
  /\ UNCHANGED <<uplink, bridges, members>>

DeleteRow(o, s) ==
  /\ At(o, "delete", s)
  /\ \/ /\ uplink' = [uplink EXCEPT ![s] = Absent]
        /\ IF s \in Present THEN Goto(o, "destroy") ELSE Return(o)
     \/ UNCHANGED uplink /\ Return(o)
  /\ UNCHANGED <<bridges, members, swMishap>>

\* The row is gone when a command fails here. Of an IF switch the members go first.
DestroySwitch(o, s) ==
  /\ At(o, "destroy", s)
  /\ \/ /\ bridges' = bridges \ {s}
        /\ members' = {m \in members : m[1] # s}
        /\ UNCHANGED swMishap
     \/ /\ members' = members \/ (s \notin NG /\ members' = {m \in members : m[1] # s})
        /\ Happened("left")
        /\ UNCHANGED bridges
  /\ Return(o)
  /\ UNCHANGED uplink

-----------------------------------------------------------------------------
(* The daemon ends anywhere. Its next start destroys the switches it knows *)
(* and all interfaces it made, and builds the switches of the rows. Of two *)
(* with one uplink only the first gets it. A netgraph node without a row   *)
(* stays.                                                                  *)

Restart ==
  \E got \in SUBSET {m \in Switch \X Uplink : uplink[m[1]] = m[2]} :
    LET left == {s \in bridges \cap NG : s \notin Present}
        kept == {m \in members : m[1] \in left}
        taken(s, u) == \E m \in kept \cup got : m[1] # s /\ SameKind(m[1], s) /\ m[2] = u
    IN  /\ \A s \in Present : \A u \in Uplink :
             uplink[s] = u => (<<s, u>> \in got <=> ~taken(s, u))
        /\ bridges' = Present \cup left
        /\ members' = got \cup kept
        /\ swCall' = [o \in SwCall |-> SwCallIdle]
        /\ swMishap' = IF \A o \in SwCall : swCall[o].pc = "idle" THEN swMishap
                       ELSE swMishap \cup {"cut"}
        /\ UNCHANGED uplink

SwStep ==
  \/ \E o \in SwCall, s \in Switch :
       \/ \E u \in Uplink : AddSwitch(o, s, u) \/ SetSwitchUplink(o, s, u)
       \/ BuildNew(o, s) \/ Insert(o, s)
       \/ ClearUplink(o, s) \/ Unset(o, s) \/ UnsetFails(o, s) \/ SaveCleared(o, s)
       \/ CheckMember(o, s) \/ AddMember(o, s) \/ SaveNew(o, s)
       \/ SetSwitchInfo(o, s) \/ SaveInfo(o, s)
       \/ RemoveSwitch(o, s) \/ DeleteRow(o, s) \/ DestroySwitch(o, s)
  \/ Restart

\* After two RPCs for one switch at once the row and the bridge have parted, and nothing
\* more is claimed. Bound: runs end there, and after two mishaps of different kinds.
SwParted == "overlap" \in swMishap \/ Cardinality(swMishap) > 1
SwNext == ~SwParted /\ SwStep

SwSpec == SwInit /\ [][SwNext]_swVars

-----------------------------------------------------------------------------
(* Properties.                                                             *)

Untouched(s) == \A o \in SwCall : swCall[o].sw # s

\* Row and host agree about a switch that no RPC works on, although SetSwitchUplink unsets
\* the old uplink first, ignores errors and can fail anywhere (rpc_switch.go:209), and
\* although another switch may be given the uplink meanwhile. The switch has the uplink
\* its row names, also after a failure that leaves a bridge or a member behind; and it
\* has no other, also when it lost a race for one.
RowHonest ==
  /\ swMishap \subseteq {"left"} =>
       \A s \in Switch : Untouched(s) /\ uplink[s] \in Uplink => IsMember(s, uplink[s])
  /\ swMishap \subseteq {"raced"} => \A m \in members : Untouched(m[1]) => uplink[m[1]] = m[2]

\* No uplink belongs to two switches of one kind. The check of the rows and the check of
\* the host are both too early (rpc_switch.go:197); that the kernel refuses the second
\* and that nothing is saved then make it true, also when something was left behind.
OneUplinkOwner ==
  swMishap \subseteq {"left"} =>
    \A s, t \in Switch :
      /\ s # t /\ SameKind(s, t)
      /\ Untouched(s) /\ Untouched(t)
      /\ uplink[s] \in Uplink
      => uplink[s] # uplink[t]
=============================================================================
