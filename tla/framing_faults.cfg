SPECIFICATION FramingSpec
CONSTANTS
  PacketLen = 6
  Half = 3
  MaxLost = 2
  MaxChanged = 1
INVARIANTS Aligned Recognised NoPhantom
PROPERTY ImplementsPacketLine
