\* Every part of Services, one in each behaviour.
SPECIFICATION FairSpec
CONSTANTS
  Secrets = {"s", "t"}
  OldFormats <- OldOnes
  MaxBackups = 2
  MaxVaults = 5
  FilePlans <- VaultPlans
  Updates = {1, 2}
  Sections = {"A", "B", "C"}
  Asks <- PlainAsks
  Documents <- NoteDocuments
  Runs = {1, 2}
  Ids = {"a", "b"}
  Home = "a"
  HostNames = {"n", "b"}
  Commands <- CtlCommands
  MaxEdits = 1
  Calls = {1, 2}
  Daemons = {1, 2}
  CallPlans <- ClientPlans
  WireRoom = 1
  QueueRoom = 1
  EventRoom = 1
  ChannelRoom = 2
  MaxFrames = 1
  MaxEvents = 1
  MaxKeys = 1
  Uses = {1, 2}
  LoginPlans <- SshPlans
  Inherits = FALSE
  Rows = {1, 2}
  MaxWrites = 2
  Capacity = 3
  Pollings = {TRUE}
  MaxSends = 5
  Agents = {a1}
  Owners = {o1}
  Sessions = {s1}
  Machines = {h1}
  Execs = {e1}
  Dangerous = {e1}
  TTL = 1
  MaxClock = 2
  MaxFaults = 0
  MaxCrashes = 0
  Local = Local
  Nil = nobody
INVARIANTS
  TypeOK
  AskersAreToldTheTruth
  DeliveredWhole
PROPERTIES
  NothingIsUndone
  EveryoneReturns
CHECK_DEADLOCK FALSE
