SPECIFICATION Spec
CONSTANTS
  SeqMod = 32
  MaxContigs = 2
  RxCap = 4
  TxCap = 3
  WinMax = 1
  LocalMss = 2
  DefaultMss = 2
  Openers = {"A"}
  Listeners = {"B"}
  Isn <- IsnNearWrap
  Writes <- WritesA4
  CloseStates = {}
  Aborters = {}
  KeepAliveNodes = {}
  Timeout = FALSE
  AckDelay = FALSE
  Nagle = FALSE
  MaxOpens = 1
  MaxNet = 2
  MaxFaults = 1
INVARIANTS InFlightIsTimed
CHECK_DEADLOCK FALSE
