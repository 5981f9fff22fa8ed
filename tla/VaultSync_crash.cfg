\* Restores and crashes anywhere but between writing a downloaded vault and its baseline.
SPECIFICATION Spec
CONSTANTS
  None = None
  d1 = d1  d2 = d2
  Devices = {d1, d2}
  Races = {}
  Mishaps = {"save", "restore"}
  CrashAt = {"idle", "check", "rename", "save", "backup", "apply"}
  MaxEdits = 2
  MaxMishaps = 2
INVARIANTS
  TypeOK
  NothingLost
  SyncedMeansEqual
PROPERTIES
  NoBlindReplacement
SYMMETRY DeviceSymmetry
