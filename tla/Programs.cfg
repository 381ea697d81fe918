SPECIFICATION ProgramSpec
CONSTANTS
  SIZE = 10
  Wrap = 32
  Requests = {0, 1, 3, 4, 13, 19}
  Locals = {u1, u2, u3}
  Objects = {o1, o2, o3}
  Null = Null
  MovesUp = FALSE
  Writers = {w1, w2}
  Readers = {r1, r2}
  WordLen = 3
  ReadLen = 2
  MaxWords = 2
  MaxKills = 2
  Values = {v1, v2}
  Raw = Raw
  Capacity = 2
  Modulus = 4
  ZeroInitialized = TRUE
  MayThrow = TRUE
  MaxPushes = 6
INVARIANT Tiled
INVARIANT OneOwner
INVARIANT PrintsWords
INVARIANT ThreadSafe
INVARIANT ScriptOutcome
PROPERTY ImplementsFifo1
CHECK_DEADLOCK FALSE
