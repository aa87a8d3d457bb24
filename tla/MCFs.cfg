SPECIFICATION Spec
CONSTANTS
  Byte <- MCByte
  Name <- MCName
  Lower <- MCLower
  KernalRom = "KERNAL.ROM"
  BasicRom = "BASIC.ROM"
  SectorSize = 2
  TypeMax = 2
  RomSize = 4
  Sources <- MCSources
INVARIANTS
  TypeOK
  FilesReadBack
  NeverBootsHalfLoaded
  LookupIsCurrent
