SPECIFICATION StartSpec
CONSTANTS
  Discs <- MCDiscs
  Unsigned = 16
  MaxInput = 3
INVARIANTS StartTypeOK ChaptersInBounds AsDiscSays FreshStart
CHECK_DEADLOCK FALSE
