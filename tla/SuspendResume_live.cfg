SPECIFICATION FairSpec
CONSTANTS
  am = am
  m1 = m1
  None = None
  Midlets = {am, m1}
  AppManager = am
  MaxInputs = 2
INVARIANTS TypeOK TimerWhileSuspending RequestNotLost DependencyHasProxy
PROPERTIES  ManagerComesBack
CHECK_DEADLOCK FALSE
