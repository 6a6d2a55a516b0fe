SPECIFICATION FairSpec
CONSTANTS
  A = A
  B = B
  n1 = n1
  n2 = n2
  n3 = n3
  j1 = j1
  c1 = c1
  c2 = c2
  None = None
  Isolates = {A}
  Ams = A
  MAX_EVENTS = 2
  NativeEvents = {n1, n2}
  JavaEvents = {j1}
  Callers = {c1}
  CallerIso <- MCCallerIso
  TypeOf <- MCTypeOf
  MayStop = {}
  MayThrow = {}
INVARIANTS RingExact NoLostNotify ListWellFormed WaitingEventIsQueued InOrderOnce
PROPERTIES EventsGetHandled ShutdownReturns
CHECK_DEADLOCK FALSE
