SPECIFICATION Spec
CONSTANTS
  SeqMod = 32
  MaxContigs = 2
  RxCap = 2
  TxCap = 2
  WinMax = 15
  LocalMss = 2
  DefaultMss = 2
  Openers = {"A"}
  Listeners = {"B"}
  Isn <- IsnNearWrap
  Writes <- WritesA2
  CloseStates = {"Established", "CloseWait"}
  Aborters = {}
  KeepAliveNodes = {}
  Timeout = FALSE
  AckDelay = TRUE
  Nagle = TRUE
  MaxOpens = 1
  MaxNet = 2
  MaxFaults = 1
INVARIANTS KeepsUndelivered FinAcknowledged AssertionsHold
CHECK_DEADLOCK FALSE
