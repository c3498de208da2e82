----------------------------- MODULE ListenPorts -----------------------------
(***************************************************************************)
(* The TCP ports of running VMs, for the screen (VNC) and for the debugger *)
(* (vm/args.go getVideoArg and getDebugArg, util.GetFreeTCPPort, vm/util.go*)
(* getUsedVncPorts and getUsedDebugPorts, vm/db.go).                       *)
(*                                                                         *)
(* A port that is AUTO is the first one from a configured port on that     *)
(* nobody listens on and no VM that is not STOPPED has for the same        *)
(* purpose. bhyve binds the port long after Start has chosen it and has    *)
(* released vmStartLock; a VM is STARTING until its monitor hears of its   *)
(* process.                                                                *)
(***************************************************************************)
EXTENDS Naturals, FiniteSetsExt

CONSTANTS
  PortVM,
  NobodyStarts,
  FirstVNC, FirstDebug,   \* config.Config.Vnc.Port and Debug.Port
  MaxPort,                \* 65535 in the code
  FixedPort,              \* bound: ports that configurations ask for
  Foreign                 \* bound: ports other programs may listen on

VARIABLES
  portStatus,   \* v.Status
  vncPort,      \* v.VNCPort, 0: none
  debugPort,    \* v.DebugPort
  vncAuto,      \* observer: the VM has an AUTO port for its screen
  debugAuto,    \* observer: and for its debugger
  startLock,    \* who holds vmStartLock
  starter,      \* what Start does next
  bound,        \* VMs whose bhyve listens
  foreign       \* ports other programs listen on

portsVars == <<portStatus, vncPort, debugPort, vncAuto, debugAuto, startLock, starter, bound,
               foreign>>

Port == 0 .. MaxPort

ASSUME PortAssumption ==
  /\ MaxPort \in Nat /\ {FirstVNC, FirstDebug} \cup FixedPort \subseteq Port
  /\ NobodyStarts \notin PortVM

PortTypeOK ==
  /\ portStatus \in [PortVM -> {"STOPPED", "STARTING", "RUNNING"}]
  /\ vncPort \in [PortVM -> Port] /\ debugPort \in [PortVM -> Port]
  /\ vncAuto \subseteq PortVM /\ debugAuto \subseteq PortVM
  /\ startLock \in PortVM \cup {NobodyStarts}
  /\ starter \in {"none", "video", "debug", "launch"}
  /\ bound \subseteq PortVM /\ foreign \subseteq Foreign

PortIdle ==
  /\ portStatus = [v \in PortVM |-> "STOPPED"]
  /\ vncPort = [v \in PortVM |-> 0] /\ debugPort = [v \in PortVM |-> 0]
  /\ vncAuto = {} /\ debugAuto = {}
  /\ startLock = NobodyStarts /\ starter = "none"
  /\ bound = {} /\ foreign = {}

PortInit == PortIdle

-----------------------------------------------------------------------------

PortsOf(v) == {vncPort[v], debugPort[v]} \ {0}
Listening == foreign \cup UNION {PortsOf(v) : v \in bound}

\* Mutant: a VM that is STARTING has no port yet.
UsedByRunning == {vncPort[v] : v \in {w \in PortVM : portStatus[w] = "RUNNING"}}

getUsedVncPorts == {vncPort[v] : v \in {w \in PortVM : portStatus[w] # "STOPPED"}}
getUsedDebugPorts == {debugPort[v] : v \in {w \in PortVM : portStatus[w] # "STOPPED"}}

\* The loop of GetFreeTCPPort: a uint16 that is counted up, past its end to 0. It does
\* not end if there is no such port.
FreeAt(first, used) ==
  {d \in Port : (first + d) % (MaxPort + 1) \notin Listening \cup used}
\* Mutant: the port is not a uint16.
GetFreePortUnwrapped(first, used) == first + Min(FreeAt(first, used))

GetFreeTCPPort(first, used) == (first + Min(FreeAt(first, used))) % (MaxPort + 1)

portsKept == <<startLock, bound, foreign>>

StartPorts(v) ==
  /\ startLock = NobodyStarts /\ portStatus[v] = "STOPPED"
  /\ startLock' = v /\ starter' = "video"
  /\ portStatus' = [portStatus EXCEPT ![v] = "STARTING"]
  /\ UNCHANGED <<vncPort, debugPort, vncAuto, debugAuto, bound, foreign>>

\* No screen, or no port for it: netstat failed, or the port of the configuration does
\* not fit ParseInt(.., 10, 16), which is signed.
NoVideo ==
  /\ starter = "video"
  /\ starter' = "debug"
  /\ UNCHANGED <<portStatus, vncPort, debugPort, vncAuto, debugAuto, portsKept>>

AutoVideo ==
  /\ starter = "video" /\ FreeAt(FirstVNC, getUsedVncPorts) # {}
  /\ starter' = "debug"
  /\ vncPort' = [vncPort EXCEPT ![startLock] = GetFreeTCPPort(FirstVNC, getUsedVncPorts)]
  /\ vncAuto' = vncAuto \cup {startLock}
  /\ UNCHANGED <<portStatus, debugPort, debugAuto, portsKept>>

FixedVideo ==
  /\ starter = "video"
  /\ starter' = "debug"
  /\ \E p \in FixedPort :
       p <= MaxPort \div 2 /\ vncPort' = [vncPort EXCEPT ![startLock] = p]
  /\ UNCHANGED <<portStatus, debugPort, vncAuto, debugAuto, portsKept>>

NoDebug ==
  /\ starter = "debug"
  /\ starter' = "launch"
  /\ UNCHANGED <<portStatus, vncPort, debugPort, vncAuto, debugAuto, portsKept>>

AutoDebug ==
  /\ starter = "debug" /\ FreeAt(FirstDebug, getUsedDebugPorts) # {}
  /\ starter' = "launch"
  /\ debugPort' = [debugPort EXCEPT ![startLock] = GetFreeTCPPort(FirstDebug, getUsedDebugPorts)]
  /\ debugAuto' = debugAuto \cup {startLock}
  /\ UNCHANGED <<portStatus, vncPort, vncAuto, portsKept>>

FixedDebug ==
  /\ starter = "debug"
  /\ starter' = "launch"
  /\ \E p \in FixedPort : debugPort' = [debugPort EXCEPT ![startLock] = p]
  /\ UNCHANGED <<portStatus, vncPort, vncAuto, debugAuto, portsKept>>

\* Start hands the command line to the supervisor and returns.
LaunchPorts ==
  /\ starter = "launch"
  /\ starter' = "none" /\ startLock' = NobodyStarts
  /\ UNCHANGED <<portStatus, vncPort, debugPort, vncAuto, debugAuto, bound, foreign>>

-----------------------------------------------------------------------------

\* The monitor's SetRunning.
PortRunning(v) ==
  /\ portStatus[v] = "STARTING" /\ startLock # v
  /\ portStatus' = [portStatus EXCEPT ![v] = "RUNNING"]
  /\ UNCHANGED <<vncPort, debugPort, vncAuto, debugAuto, portsKept, starter>>

\* bhyve listens, if it finds its ports free.
Bind(v) ==
  /\ portStatus[v] # "STOPPED" /\ startLock # v /\ v \notin bound
  /\ PortsOf(v) \cap Listening = {}
  /\ bound' = bound \cup {v}
  /\ UNCHANGED <<portStatus, vncPort, debugPort, vncAuto, debugAuto, startLock, starter, foreign>>

\* bhyve ends; the supervisor may start it again with the same ports.
Unbind(v) ==
  /\ v \in bound
  /\ bound' = bound \ {v}
  /\ UNCHANGED <<portStatus, vncPort, debugPort, vncAuto, debugAuto, startLock, starter, foreign>>

\* SetStopped, when the process is gone.
SetStopped(v) ==
  /\ portStatus[v] # "STOPPED" /\ startLock # v /\ v \notin bound
  /\ portStatus' = [portStatus EXCEPT ![v] = "STOPPED"]
  /\ vncPort' = [vncPort EXCEPT ![v] = 0] /\ debugPort' = [debugPort EXCEPT ![v] = 0]
  /\ vncAuto' = vncAuto \ {v} /\ debugAuto' = debugAuto \ {v}
  /\ UNCHANGED <<portsKept, starter>>

OtherProgram ==
  /\ \E p \in Foreign : foreign' \in {foreign \ {p}, foreign \cup ({p} \ Listening)}
  /\ UNCHANGED <<portStatus, vncPort, debugPort, vncAuto, debugAuto, startLock, starter, bound>>

PortNext ==
  \/ \E v \in PortVM : StartPorts(v) \/ PortRunning(v) \/ Bind(v) \/ Unbind(v) \/ SetStopped(v)
  \/ NoVideo \/ AutoVideo \/ FixedVideo \/ NoDebug \/ AutoDebug \/ FixedDebug \/ LaunchPorts
  \/ OtherProgram

PortSpec == PortInit /\ [][PortNext]_portsVars

-----------------------------------------------------------------------------

\* Two VMs whose ports are AUTO never get the same one, though neither port is bound yet
\* when the other is chosen: from the choice to SetStopped it is counted as used.
AutoPortsApart ==
  \A v, w \in PortVM :
    v # w =>
      /\ {v, w} \subseteq vncAuto => vncPort[v] # vncPort[w]
      /\ {v, w} \subseteq debugAuto => debugPort[v] # debugPort[w]
=============================================================================
