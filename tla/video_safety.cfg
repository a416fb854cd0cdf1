SPECIFICATION Spec
CONSTANTS
  MaxChapter = 3
  ChapterArgs = {0, 1, 2, 3, 4}
  QueueSize = 16
  ByteSize = 4
  MissingFiles = {3}
  Faults = {"exit", "toggle"}
  MaxBurst = 4
INVARIANTS TypeOK QueueFits DequeueSafe NothingDropped ScreenMatches ScreenInv QueueInv
PROPERTIES ImplementsTransport OnePlayer WorkShrinks
