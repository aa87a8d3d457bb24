SPECIFICATION Spec
CONSTANTS
  Lines <- MCLines
  Noise <- MCNoise
  GuestNdx <- MCGuestNdx
  Typed = {"a", "ENTER", "BKSP", "ESC", "F12"}
  MaxTyped = 4
  KbcSize = 2
  LineMax = 3
  KeydMax = 2
  StickyLatch = TRUE
  EarlyTyping = TRUE
INVARIANTS TypeOK HandlerRunsAlone OnlyKeyboardServiced MaskedOnlyInSession C64ModeOnlyInResume NoLostWakeup KeydNotOverrun StopsOnlyIdle WaitingByteInterrupts
PROPERTIES NoReentry HostOnlyAppends
CHECK_DEADLOCK FALSE
