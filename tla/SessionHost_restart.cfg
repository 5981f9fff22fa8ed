\* Daemons one after the other, which die while they are up; calls time out.
SPECIFICATION FairHostSpec
CONSTANTS
  Nil = Nil
  d1 = d1  h1 = h1  h2 = h2  t1 = t1
  Daemons = {d1}
  Hosts = {h1, h2}
  Terminals = {t1}
  NumConns = 3
  Overlap = FALSE
  DieAt = {"up", "calling"}
  CallsTimeOut = TRUE
  MaxMishaps = 2
  MaxCaches = 1
CHECK_DEADLOCK FALSE
INVARIANTS
  HostTypeOK
  LeavesEmpty
  AdoptedHostStays
  TerminalsReachable
PROPERTIES
  NeedlessExits
