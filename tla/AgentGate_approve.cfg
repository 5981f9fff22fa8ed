\* One dangerous command, two owners deciding, one fault, one crash.
SPECIFICATION Spec
CONSTANTS
  None = None
  Local = Local
  a1 = a1  a2 = a2  o1 = o1  o2 = o2  s1 = s1  s2 = s2  h1 = h1  h2 = h2  e1 = e1  e2 = e2
  Agents = {a1}
  Owners = {o1, o2}
  Sessions = {s1}
  Hosts = {h1}
  Execs = {e1}
  Dangerous = {e1}
  TTL = 1
  MaxClock = 1
  MaxFaults = 1
  MaxCrashes = 1
INVARIANTS
  TypeOK
  AuditBeforeDispatch
  AtMostOnce
  OneEnd
PROPERTIES
  DangerNeedsConsent
  ImplementsLedger
SYMMETRY OwnersSymmetry
