SPECIFICATION HostSpec
CONSTANTS
 v1 = v1
 v2 = v2
 MigVM = {m1, m2}
 Item = {1}
 VM = {v1, v2}
 Nic = {1, 2}
 MaxDev = 1
 MaxCalls = 1
 Lan = Lan
 Call = {x1}
 NicRows <- MCNicRows
 NewNics <- MCNewNics
 None = None
 Switch = {s1, s2, s3}
 NG = {s2, s3}
 Uplink = {u1, u2}
 Dotted = {u2}
 SwCall = {k1, k2}
 NoUplink = NoUplink
 Client = {k1, k2}
 NoClient = NoClient
 MaxOpen = 2
 MaxByte = 1
 Cap = 1
 Touched = {"name", "cpu", "autostartdelay", "debugport"}
 Change <- MCChange
 IsoList <- MCIsoList
 DiskList <- MCDiskList
 CfgCall = {k1, k2}
 MaxRows = 3
 IsoID = {1, 2}
 IsoName <- MCIsoName
 Image = {"a"}
 IsoVM = {"v"}
 IsoCall = {k1, k2}
 LastSlot = 6
 MaxSlot = 8
 PortVM = {v1, v2}
 NobodyStarts = NobodyStarts
 FirstVNC = 7
 FirstDebug = 3
 MaxPort = 7
 FixedPort = {2, 6}
 Foreign = {3}
CONSTRAINTS NicBound SwBound ComBound CfgBound IsoBound
SYMMETRY Sym
INVARIANTS HostTypeOK
 VersionHonest AttachmentsSurvive ConfigsSurvive
 NoSharedTap  StoppedClean
  
 ShownIsLogged Unattended LastByteOnly PortsClosed
 ChecksumHonest AttachedExists
 SlotsApart AutoPortsApart
PROPERTY RestartChangesNothing
CHECK_DEADLOCK FALSE
