SPECIFICATION Spec
CONSTANTS
  Threads = {t1, t2, t3}
  Inserts = 2
  Null = Null
SYMMETRY ThreadSymmetry
INVARIANT PrintsSnapshot
INVARIANT LockFree
PROPERTY ImplementsPrependList
CHECK_DEADLOCK FALSE
