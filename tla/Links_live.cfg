SPECIFICATION FairSpec
CONSTANTS
  A = A
  B = B
  a1 = a1
  a2 = a2
  b1 = b1
  la1 = la1
  la2 = la2
  lb1 = lb1
  lb2 = lb2
  r1 = r1
  r2 = r2
  m1 = m1
  m2 = m2
  Null = Null
  Isolates = {A, B}
  Threads = {a1, a2, b1}
  ThreadIso <- MCThreadIso
  LinkObjs = {la1, lb1}
  LinkIso <- MCLinkIso
  RPs = {r1}
  Data = {m1}
  Sendable = {}
  MaxPortal = 1
  Endpoints <- AtoB
  PortalTargets = {B}
  Droppable = {}
  MayStop = {A}
PROPERTIES ClosedReleases Rendezvous
CHECK_DEADLOCK FALSE
