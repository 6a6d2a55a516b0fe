SPECIFICATION FairSpec
CONSTANTS
  k1 = k1
  k2 = k2
  t1 = t1
  t2 = t2
  t3 = t3
  a = a
  b = b
  Null = Null
  Threads = {t1, t2, t3}
  Tasks = {k1, k2}
  Objects = {a, b}
  TaskOf <- MCTaskOf
  HomeOf <- MCHomeOf
  ThreadObj <- MCThreadObj
  IsolateObjs = {}
  FirstThreads = {t1, t2, t3}
  MaxReentry = 0
  Suspendable = {k1}
  JavaSuspends = {}
  Haltable = {k1, k2}
PROPERTIES StoppedTaskEnds
CHECK_DEADLOCK FALSE
