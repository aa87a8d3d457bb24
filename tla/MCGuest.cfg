\* The bound on sessions ends every behaviour at the shell's prompt.
SPECIFICATION Spec
CONSTANTS
  TraceLen = 3
  NumImages = 265
  Images <- MCImages
  IrqPeriod = 13
  MaxSteps = 100
  MaxSessions = 2
  TestImages = {0, 33, 257}
INVARIANTS
  TypeOK
  StatusBits
  StackHoldsPushed
  HaltReported
  ResultsRight
PROPERTIES
  SelfTestsSpareGuest
  TraceSlides
  OpcodesDecoded
  ArithmeticRight
  ProgramEnds
CHECK_DEADLOCK FALSE
