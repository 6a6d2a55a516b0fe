SPECIFICATION Spec
CONSTANTS
  k1 = k1
  k2 = k2
  t1 = t1
  t2 = t2
  t3 = t3
  a = a
  b = b
  Null = Null
  Threads = {t1, t2, t3}
  Tasks = {k1}
  Objects = {a, b}
  TaskOf <- MCTaskOf
  HomeOf <- MCHomeOf
  ThreadObj <- MCThreadObj
  IsolateObjs = {b}
  FirstThreads = {t1}
  MaxReentry = 1
  Suspendable = {k1}
  JavaSuspends = {k1}
  Haltable = {k1}
INVARIANTS TypeOK OnOneList WaitersHaveLocker OwnsWhatItEntered SuspendedStaysOff
PROPERTIES FirstComeFirstServed
SYMMETRY Twins
CHECK_DEADLOCK FALSE
