\* The bound on commands ends every behaviour.
SPECIFICATION Spec
CONSTANTS
  WordDigits = 2
  GuestDigits = 1
  ByteDigits = 1
  DecDigits = 3
  RowLen = 4
  DumpMax = 6
  C64MemMax = 5
  TraceDefault = 3
  TraceMax = 20
  VicRaster = 2
  Cia1Prb = 13
  PalRasterLines = 20
  Char <- MCChar
  GuestRam <- MCGuestRam
  Lines <- MCLines
  MaxCommands = 2
INVARIANTS
  TypeOK
  WordsReachCommand
  NumbersReadBack
  DumpShowsMemory
PROPERTIES
  PokeStores
CHECK_DEADLOCK FALSE
