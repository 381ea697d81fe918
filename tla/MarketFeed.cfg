SPECIFICATION FairSpec
CONSTANTS
  Readers = {r1, r2}
  Nobody = Nobody
  ReadsFully = TRUE
  BufUnits = 5
  Records = 5
  Pipe = 11
  Base = 3
INVARIANT PlacesAgree
PROPERTY FramesWhole
PROPERTY EverybodyEnds
CHECK_DEADLOCK FALSE
