------------------------------- MODULE MCHost -------------------------------
(***************************************************************************)
(* One run for the components that share no state: the schema migrations,  *)
(* the NICs, the switches, a serial port, the configuration of a VM, the   *)
(* ISO images, the PCI slots and the ports. A behaviour picks one of them  *)
(* and the others stay idle, so that the run checks each on its own.       *)
(***************************************************************************)
EXTENDS Migration, NicPlumbing, Switches, ComPort, VMConfig, IsoStore, PciSlots, ListenPorts, TLC

CONSTANTS v1, v2

VARIABLE moving

hostVars == <<moving, migVars, nicVars, swVars, comVars, cfgVars, isoVars, pciVars, portsVars>>

\* Two NICs: one with a rate limit and one that is made or cloned later, or one of each VM.
NicRow(v, l) == [vm |-> v, on |-> TRUE, limited |-> l, dev |-> None, epair |-> None, bridge |-> None]
MCNicRows == {<<NicRow(v1, TRUE), [NicRow(None, FALSE) EXCEPT !.vm = "not yet"]>>,
              <<NicRow(v1, FALSE), NicRow(v2, FALSE)>>}

MCNewNics == {NicRow(None, FALSE)}

MCChange ==
  LET Request(name, cpu, delay, port) ==
        [f \in Touched |-> CASE f = "name" -> name [] f = "cpu" -> cpu
                             [] f = "autostartdelay" -> delay [] OTHER -> port]
  IN  {Request("new", "bad", "bad", "keep"), Request("old", "keep", "keep", "bad")}
MCIsoList == {<<"i">>}
MCDiskList == {<<"d">>, <<"e", "d">>}
MCIsoName == [i \in IsoID |-> "n"]

HostInit ==
  /\ moving \in {"mig", "nic", "sw", "com", "cfg", "iso", "pci", "port"}
  /\ IF moving = "mig" THEN MigInit ELSE MigIdle /\ vms = {} /\ old = {} /\ db = Fresh
  /\ IF moving = "nic" THEN NicInit ELSE NicIdle /\ row = CHOOSE r \in NicRows : TRUE
  /\ IF moving = "com" THEN ComInit ELSE ComIdle /\ comLog = FALSE
  /\ SwInit /\ CfgInit /\ IsoInit /\ PciInit /\ PortInit

HostNext ==
  /\ UNCHANGED moving
  /\ \/ /\ moving = "mig" /\ MigNext
        /\ UNCHANGED <<nicVars, swVars, comVars, cfgVars, isoVars, pciVars, portsVars>>
     \/ /\ moving = "nic" /\ NicNext
        /\ UNCHANGED <<migVars, swVars, comVars, cfgVars, isoVars, pciVars, portsVars>>
     \/ /\ moving = "sw" /\ SwNext
        /\ UNCHANGED <<migVars, nicVars, comVars, cfgVars, isoVars, pciVars, portsVars>>
     \/ /\ moving = "com" /\ ComNext
        /\ UNCHANGED <<migVars, nicVars, swVars, cfgVars, isoVars, pciVars, portsVars>>
     \/ /\ moving = "cfg" /\ CfgNext
        /\ UNCHANGED <<migVars, nicVars, swVars, comVars, isoVars, pciVars, portsVars>>
     \/ /\ moving = "iso" /\ IsoNext
        /\ UNCHANGED <<migVars, nicVars, swVars, comVars, cfgVars, pciVars, portsVars>>
     \/ /\ moving = "pci" /\ PciNext
        /\ UNCHANGED <<migVars, nicVars, swVars, comVars, cfgVars, isoVars, portsVars>>
     \/ /\ moving = "port" /\ PortNext
        /\ UNCHANGED <<migVars, nicVars, swVars, comVars, cfgVars, isoVars, pciVars>>

HostSpec == HostInit /\ [][HostNext]_hostVars

-----------------------------------------------------------------------------
(* Bounds: what goes on at once once something has gone wrong.             *)

\* A VM without NICs is not started, and no RPC about NICs is under way in a behaviour
\* in which a command has failed.
NicBound ==
  /\ \A v \in up : \E n \in Nic : row[n].vm = v
  /\ mishap \subseteq {"restarted"} \/ Parted \/ \A o \in Call : call[o].pc = "idle"

\* One call at a time: about a switch after a failure or a restart,
\* of a serial port after it has been opened again, for a VM after a failure or a load that
\* skipped an attachment, about ISO images after an attachment of one that is being removed.
SwBound == swMishap \subseteq {"raced"} \/ SwParted \/ \E o \in SwCall : swCall[o].pc = "idle"
ComBound == opened <= 1 \/ \E c \in Client : session[c].pc = "idle"
CfgBound == cfgStale = {} \/ \E c \in CfgCall : cfgCall[c].pc = "idle"
IsoBound == isoRaced = {} \/ \E c \in IsoCall : isoCall[c].pc = "idle"

\* The components' callers have the same names.
Sym == Permutations(Client) \cup Permutations(NG) \cup Permutations(MigVM)

HostTypeOK ==
  CASE moving = "mig" -> MigTypeOK
    [] moving = "nic" -> NicTypeOK
    [] moving = "sw" -> SwTypeOK
    [] moving = "com" -> ComTypeOK
    [] moving = "cfg" -> CfgTypeOK
    [] moving = "iso" -> IsoTypeOK
    [] moving = "pci" -> PciTypeOK
    [] moving = "port" -> PortTypeOK
=============================================================================
