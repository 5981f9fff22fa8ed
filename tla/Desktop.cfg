\* Every part of Desktop, one in each behaviour.
SPECIFICATION FairDesktopSpec
CONSTANTS
  Passphrases = {"s", "t"}
  MaxMishaps = 2
  MaxTries = 2
  Trusts = {"ask", "trusted"}
  MaxHosts = 4
  EditorPlans <- OwnersEdits
  Hosts = {1, 2}
  MaxAsks = 2
  MaxCopies = 2
  MaxMoves = 2
  Approvals = {1, 2}
  PanelPlans <- OwnersDecisions
  Paths = {"p"}
  Looks = {"x", "y"}
  BackupFiles = {"f", "g"}
  Disk <- OldBackups
  SettingsPlans <- OwnersSettings
  Depth = 1
  HomeDir = 1
  SftpPlans <- OwnersTransfers
  Count = 4
  Filters <- RowFilters
  Terminals = {1, 2}
  Sizes = {1, 2, 3}
  OpenSize = 1
  Blinking = TRUE
  ViewPlans <- OwnersViews
  ScreenRows = 2
  History = 2
  Jumps <- Turns
  TextPlans <- OwnersSelections
INVARIANTS
  DesktopTypeOK
  DragsSelectTheirSpan
  TerminalIsTrue
PROPERTIES
  ScreensSettle
CHECK_DEADLOCK FALSE
