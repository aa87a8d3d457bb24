SPECIFICATION Spec
CONSTANTS
  Cols = 2
  Rows = 3
  Glyphs = {"a", ">"}
  LineMax = 4
  Chars = {"a"}
  Prompt <- MCPrompt
  Banner <- MCBanner
  Outputs <- MCOutputs
  GuestCells <- MCGuestCells
INVARIANTS
  TypeOK
  EchoMatchesLine
  PromptIntact
  HwCursorFollows
  CursorOnScreen
CHECK_DEADLOCK FALSE
