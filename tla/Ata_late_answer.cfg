SPECIFICATION Spec
CONSTANTS
  Lba = {l1, l2}
  Data = {d1, d2}
  Timely = FALSE
INVARIANTS
  ReadOkMeansSector
