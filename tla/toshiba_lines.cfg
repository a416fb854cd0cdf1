SPECIFICATION ToshibaSpec
CONSTANTS
  MaxChapter = 12
  ChapterArgs = {0, 1, 2, 3, 4, 5, 6, 7, 8, 9, 10, 11, 12}
  QueueSize = 8
  ByteSize = 256
  MissingFiles = {}
  Faults = {}
  MaxBurst = 2
  PacketLen = 6
  Lines <- MCLines
INVARIANTS ToshibaTypeOK Contained
PROPERTIES LineObeyed SeekTyped
