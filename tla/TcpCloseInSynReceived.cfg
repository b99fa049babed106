SPECIFICATION Spec
CONSTANTS
  SeqMod = 32
  MaxContigs = 2
  RxCap = 2
  TxCap = 2
  WinMax = 15
  LocalMss = 1
  DefaultMss = 1
  Openers = {"A"}
  Listeners = {"B"}
  Isn <- IsnNearWrap
  Writes <- WritesNone
  CloseStates = {"SynReceived", "Established", "CloseWait"}
  Aborters = {}
  KeepAliveNodes = {}
  Timeout = FALSE
  AckDelay = FALSE
  Nagle = FALSE
  MaxOpens = 1
  MaxNet = 2
  MaxFaults = 0
INVARIANTS FinAcknowledged
CHECK_DEADLOCK FALSE
