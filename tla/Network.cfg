SPECIFICATION Spec
CONSTANTS
  SocketSets <- SmallSocketSets
  Port <- SmallPorts
  OnLink = {"host", "gateway"}
  Remote = {"remote"}
  Broadcast = "broadcast"
  V6 = {"host"}
  Hardware <- SmallHardware
  RouteValues <- SmallRoutes
  Gateways = {"gateway"}
  Destinations = {"host", "remote", "broadcast"}
  Packets <- SmallPackets
  CacheCap = 1
  RouteCap = 2
  TxCap = 2
  RxCap = 1
  EntryLifetime = 2
  SilentTime = 1
  DiscoverySilentTime = 1
  MaxSends = 2
  MaxEvents = 1
  Length <- SmallLengths
  Mediums = {"Ip", "Ieee802154"}
  Mtu = 6
  HeaderLen = 2
  HeaderDiff = 3
  Frag1Header = 1
  FragNHeader = 2
  Unit = 2
  FragmentationCap = 14
  ReassemblyCap = 12
  SlotCount = 2
  ReassemblyTimeout = 0
  IdentMod = 4
  MaxBurst = 2
  MaxFragFaults = 1
  MaxContigs = 1
INVARIANTS FramesReachNextHop SocketsRest Integrity
PROPERTIES KeptUntilSent RequestsSpaced EventuallySent ReassemblyEnds
CHECK_DEADLOCK FALSE
