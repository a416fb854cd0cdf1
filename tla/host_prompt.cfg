SPECIFICATION HostFairSpec
CONSTANTS
  LastChapter = 2
  ChapterArgs = {0, 1, 2, 12}
  DefaultId = 2
  Lasting = TRUE
  NewIds = {0, 2}
  LastProbe = 2
  IdArgs = {0, 1}
  Scripts <- MCPrompt
  AnswerLen = 3
  StatusAt = 2
  Delay = "short"
  LineFaults = {"lost byte", "short write", "chance"}
INVARIANTS HostTypeOK AnswerBelongs ToldTruly FoundIsThere
PROPERTIES ImplementsRemote RunShrinks RunEnds
