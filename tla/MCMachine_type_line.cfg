SPECIFICATION Spec
CONSTANTS
  Lines <- MCLines
  Noise <- MCNoise
  GuestNdx <- MCGuestNdx
  Typed = {"a", "ENTER"}
  MaxTyped = 4
  KbcSize = 2
  LineMax = 4
  KeydMax = 2
  StickyLatch = FALSE
  EarlyTyping = FALSE
INVARIANTS TypedLineEndsInReturn
CHECK_DEADLOCK FALSE
