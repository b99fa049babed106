SPECIFICATION PacketSpec
CONSTANTS
  Header = {1, 2}
  Sizes = {1, 2, 3}
  PacketCap = 3
  PayloadCap = 5
  None = None
  SlotsForWith = 0
PROPERTIES ImplementsPackets
