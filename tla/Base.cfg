SPECIFICATION BaseSpec
CONSTANTS
  Elem = {1, 2}
  Cap = 3
  MaxSlice = 2
  Header = {1, 2}
  Sizes = {0, 1, 2, 3}
  PacketCap = 3
  PayloadCap = 4
  None = None
  SlotsForWith = 2
  MaxContigs = 2
  RxCap = 5
  OctetMod = 10
  Samples <- MCSamples
  Fills = {0, 255}
  Flips = {1, 128}
  Ipv6MinMtu = 100
  HbhMaxOptions = 4
  MaxDnsServers = 3
  InitialRto = 1000
  MinRto = 1000
  MaxRto = 60000
  MinMargin = 5
  InitialWindow = 2
  InitialRwnd = 2
  MaxWindow = 100
  Mss = {2}
  RemoteWindows = {0, 3}
  Delays = {20000}
  MaxOctets = 3
  MaxSends = 2
  MaxAge = 20000
INVARIANTS OctetsInPlace SenderPaced RoundTrip ExactlyFilled DamageSeen
PROPERTIES ImplementsQueue ImplementsPackets AcceptsWhenDrained ImplementsAssembler NextExpectedAccepted
CHECK_DEADLOCK FALSE
