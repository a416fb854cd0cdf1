SPECIFICATION FramingSpec
CONSTANTS
  PacketLen = 6
  Half = 3
  MaxLost = 3
  MaxChanged = 0
INVARIANT Aligned
