SPECIFICATION Spec
CONSTANTS
  MaxChapter = 300
  ChapterArgs = {1, 255, 256, 300}
  QueueSize = 8
  ByteSize = 256
  MissingFiles = {0}
  Faults = {}
  MaxBurst = 2
INVARIANT ScreenMatches
