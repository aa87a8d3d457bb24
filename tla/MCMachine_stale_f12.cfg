SPECIFICATION Spec
CONSTANTS
  Lines <- MCLines
  Noise <- MCNoise
  GuestNdx <- MCGuestNdx
  Typed = {"ENTER", "F12"}
  MaxTyped = 3
  KbcSize = 2
  LineMax = 2
  KeydMax = 1
  StickyLatch = FALSE
  EarlyTyping = FALSE
INVARIANTS ExitedByItsOwnF12
CHECK_DEADLOCK FALSE
