SPECIFICATION Spec
CONSTANTS
  SeqMod = 32
  MaxContigs = 2
  RxCap = 4
  TxCap = 4
  WinMax = 15
  LocalMss = 1
  DefaultMss = 1
  Openers = {"A"}
  Listeners = {"B"}
  Isn <- IsnNearWrap
  Writes <- WritesA4
  CloseStates = {}
  Aborters = {}
  KeepAliveNodes = {}
  Timeout = FALSE
  AckDelay = FALSE
  Nagle = FALSE
  MaxOpens = 1
  MaxNet = 4
  MaxFaults = 1
INVARIANTS StreamIntegrity InFlightIsTimed 
PROPERTIES NeverTakesBack
CHECK_DEADLOCK FALSE
