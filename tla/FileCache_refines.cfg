SPECIFICATION Spec
CONSTANTS
  f1 = f1
  f2 = f2
  h1 = h1
  h2 = h2
  None = None
  Files = {f1, f2}
  Handles = {h1, h2}
  Data <- MCData
  ReadSizes = {1, 2}
  MaxSize <- MCMaxSize
  RMS_CACHE_LIMIT = 4
  Overhead = 1
INVARIANTS BlocksSortedApart LockedWhileOpen
PROPERTIES ImplementsFile
SYMMETRY Twins
CHECK_DEADLOCK FALSE
