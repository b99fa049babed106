SPECIFICATION Spec
CONSTANTS
  SeqMod = 32
  MaxContigs = 2
  RxCap = 2
  TxCap = 2
  WinMax = 15
  LocalMss = 1
  DefaultMss = 1
  Openers = {"A", "B"}
  Listeners = {"A", "B"}
  Isn <- IsnNearWrap
  Writes <- WritesNone
  CloseStates = {"SynSent", "Established", "CloseWait"}
  Aborters = {"A"}
  KeepAliveNodes = {}
  Timeout = TRUE
  AckDelay = FALSE
  Nagle = FALSE
  MaxOpens = 2
  MaxNet = 2
  MaxFaults = 0
INVARIANTS NoLostWakeup
CHECK_DEADLOCK FALSE
