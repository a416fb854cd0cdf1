SPECIFICATION FairSpec
CONSTANTS
  MaxChapter = 2
  ChapterArgs = {1, 2}
  QueueSize = 8
  ByteSize = 256
  MissingFiles = {2}
  Faults = {}
  MaxBurst = 2
PROPERTY SeekEventuallyShown
