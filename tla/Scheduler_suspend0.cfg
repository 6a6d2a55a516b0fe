SPECIFICATION FairSpec
CONSTANTS
  k1 = k1
  k2 = k2
  t1 = t1
  t2 = t2
  t3 = t3
  a = a
  b = b
  Null = Null
  Threads = {t1, t2}
  Tasks = {k1}
  Objects = {a, b}
  TaskOf <- MCTaskOf
  HomeOf <- MCHomeOf
  ThreadObj <- MCThreadObj
  IsolateObjs = {}
  FirstThreads = {t1, t2}
  MaxReentry = 0
  Suspendable = {}
  JavaSuspends = {k1}
  Haltable = {k1}
PROPERTIES StoppedTaskEnds
CHECK_DEADLOCK FALSE
