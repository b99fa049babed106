SPECIFICATION Spec
CONSTANTS
  DhcpServer = {"s1"}
  Address = {"a1", "a2"}
  Grants <- SmallGrants
  TransactionIds = {1, 2}
  DefaultLease = 8
  MaxLease = 5
  DiscoverTimeout = 2
  InitialRequestTimeout = 1
  RequestRetries = 2
  MinRenewTimeout = 2
  MaxRenewTimeout = 3
  IgnoreNaks = FALSE
  HasPacketBuffer = FALSE
  Flaws = {"identifier", "mask"}
  MaxDhcpFaults = 2
  SlotCount = 2
  Names = {"x", "z"}
  Alias <- SmallAlias
  MdnsNames = {"z"}
  ServerLists <- SmallLists
  MdnsServers <- SmallMdns
  Unspecified = "unspecified"
  Unroutable = "s2"
  Records <- SmallRecords
  MaxResults = 1
  QueryIds = {1}
  RetransmitDelay = 1
  MaxRetransmitDelay = 2
  RetransmitTimeout = 2
  MaxQueries = 2
  Groups4 = {"g", "h"}
  Groups6 = {"s"}
  Addrs4 = {"10"}
  Addrs6 = {"fe80"}
  SolicitedNode <- SmallSolicited
  GroupCap = 3
  Delays = {0, 1}
  MaxChanges = 4
  IMin = 2
  IMax = 4
  Redundancy = 1
  Nodes = {"a", "b", "c"}
  RankValues = {1, 3, 4, 5}
  MinHopRankIncrease = 2
  ParentCap = 2
  RelationCap = 1
  Lifetimes = {0, 1}
  MaxIncrements = 143
INVARIANTS
  ConfigReported
  LeaseHonoured
  ClientsRest
  OwnAnswer
  
  
PROPERTIES
  DhcpConfigured
  QueryEnds
  
CHECK_DEADLOCK FALSE
