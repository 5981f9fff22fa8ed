\* Two tabs and a daemon that comes and goes.
SPECIFICATION FairSpec
CONSTANTS
  Tabs = {1, 2}
  MaxSessions = 4
  MaxClients = 3
  Plans <- RestorePlans
INVARIANT TabsAgree
PROPERTIES ComesBackAsItWas Recovers
CHECK_DEADLOCK FALSE
