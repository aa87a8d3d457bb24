SPECIFICATION FairSpec
CONSTANTS
  Lines <- MCLines
  Noise <- MCNoise
  GuestNdx <- MCGuestNdx
  Typed = {"a", "ENTER", "F12", "SHIFT"}
  MaxTyped = 3
  KbcSize = 2
  LineMax = 2
  KeydMax = 1
  StickyLatch = FALSE
  EarlyTyping = FALSE
INVARIANTS EachByteReadOnce
PROPERTIES ImplementsByteStream F12LeavesC64
CHECK_DEADLOCK FALSE
