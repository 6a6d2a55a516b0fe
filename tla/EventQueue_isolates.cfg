SPECIFICATION Spec
CONSTANTS
  A = A
  B = B
  n1 = n1
  n2 = n2
  n3 = n3
  j1 = j1
  c1 = c1
  c2 = c2
  None = None
  Isolates = {A, B}
  Ams = A
  MAX_EVENTS = 2
  NativeEvents = {n1}
  JavaEvents = {}
  Callers = {}
  CallerIso <- MCCallerIso
  TypeOf <- MCTypeOf
  MayStop = {B}
  MayThrow = {A, B}
INVARIANTS TypeOK NoLostNativeWakeup UnblocksBlockedThread
CHECK_DEADLOCK FALSE
