SPECIFICATION FairSpec
CONSTANTS
  Lba = {l1, l2}
  Data = {d1, d2}
  Timely = TRUE
INVARIANTS
  InStep
PROPERTIES
  ImplementsSectorStore
