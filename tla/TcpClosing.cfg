SPECIFICATION FairSpec
CONSTANTS
  SeqMod = 32
  MaxContigs = 2
  RxCap = 2
  TxCap = 1
  WinMax = 15
  LocalMss = 1
  DefaultMss = 1
  Openers = {"A"}
  Listeners = {"B"}
  Isn <- IsnNearWrap
  Writes <- WritesA1
  CloseStates = {"Established", "CloseWait"}
  Aborters = {}
  KeepAliveNodes = {}
  Timeout = FALSE
  AckDelay = FALSE
  Nagle = FALSE
  MaxOpens = 1
  MaxNet = 2
  MaxFaults = 1
INVARIANTS FinishedMeansComplete
PROPERTIES CloseCompletes
CHECK_DEADLOCK FALSE
