SPECIFICATION VictorSpec
CONSTANTS
  MaxChapter = 2
  ChapterArgs = {0, 1, 2, 12}
  QueueSize = 8
  ByteSize = 256
  MissingFiles = {}
  Faults = {}
  MaxBurst = 2
  IsVCD = FALSE
  Ids = {33}
  NewIds = {0}
  SeekParams <- MCSeekParams
  StoredId = 0
  Writable = TRUE
INVARIANT PauseStartsPaused
