SPECIFICATION FairSpec
CONSTANTS
  SeqMod = 32
  MaxContigs = 2
  RxCap = 1
  TxCap = 3
  WinMax = 15
  LocalMss = 1
  DefaultMss = 1
  Openers = {"A"}
  Listeners = {"B"}
  Isn <- IsnNearWrap
  Writes <- WritesA3
  CloseStates = {}
  Aborters = {}
  KeepAliveNodes = {"A"}
  Timeout = FALSE
  AckDelay = FALSE
  Nagle = FALSE
  MaxOpens = 1
  MaxNet = 2
  MaxFaults = 1
INVARIANTS StreamIntegrity SendsWithinWindow NoSpin
PROPERTIES EventuallyDelivered
CHECK_DEADLOCK FALSE
