SPECIFICATION Spec
CONSTANTS
  Readers = {r1}
  Nobody = Nobody
  ReadsFully = FALSE
  BufUnits = 6
  Records = 2
  Pipe = 6
  Base = 2
PROPERTY FullReadsWhole
CHECK_DEADLOCK FALSE
