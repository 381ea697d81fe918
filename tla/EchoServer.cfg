SPECIFICATION FairSpec
CONSTANTS
  Clients = {c1, c2}
  Polite = {c1}
  BufSize = 2
  SockBuf = 2
  MaxBytes = 4
INVARIANT EchoesInOrder
PROPERTY EndsComplete
PROPERTY Echoed
PROPERTY SessionsEnd
CHECK_DEADLOCK FALSE
