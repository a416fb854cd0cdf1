SPECIFICATION HostFairSpec
CONSTANTS
  LastChapter = 2
  ChapterArgs = {0, 2, 12}
  DefaultId = 2
  Lasting = TRUE
  NewIds = {0, 2}
  LastProbe = 3
  IdArgs = {1, 2}
  Scripts <- MCShort
  AnswerLen = 3
  StatusAt = 2
  Delay = "medium"
  LineFaults = {"lost byte", "short write", "power cut", "chance"}
INVARIANT AnswerBelongs
PROPERTIES ImplementsRemote RunEnds
