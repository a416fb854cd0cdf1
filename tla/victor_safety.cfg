SPECIFICATION VictorFairSpec
CONSTANTS
  MaxChapter = 2
  ChapterArgs = {0, 1, 2, 12}
  QueueSize = 8
  ByteSize = 256
  MissingFiles = {}
  Faults = {}
  MaxBurst = 2
  IsVCD = FALSE
  Ids = {1, 12, 33}
  NewIds = {0, 1, 64}
  SeekParams <- MCSeekParams
  StoredId = 12
  Writable = TRUE
INVARIANTS VictorTypeOK SeekHonoured
PROPERTIES ImplementsDeck AcknowledgedShown Converges
