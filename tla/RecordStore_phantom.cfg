SPECIFICATION Spec
CONSTANTS
  Closed = Closed
  Null = Null
  Data <- IdLikeData
  Ids = {1, 2, 3}
  STORAGE_SUITE_LIMIT = 13
  DB_HEADER_SIZE = 1
  Pad = 9
  MaxFile = 12
INVARIANT NoPhantomRecord
CHECK_DEADLOCK FALSE
