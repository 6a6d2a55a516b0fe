SPECIFICATION Spec
CONSTANTS
  Closed = Closed
  Null = Null
  Data <- MCData
  Ids = {1, 2, 3}
  STORAGE_SUITE_LIMIT = 13
  DB_HEADER_SIZE = 1
  Pad = 9
  MaxFile = 12
INVARIANTS BlocksTile HeaderExact IndexSound FullOnlyWhenFull
PROPERTIES ImplementsMap
CHECK_DEADLOCK FALSE
