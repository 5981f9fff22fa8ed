\* Racing writers, conflict files, failing calls, a restore, a deletion.
SPECIFICATION Spec
CONSTANTS
  None = None
  d1 = d1  d2 = d2
  Devices = {d1, d2}
  Races = {"overwrite", "copy"}
  Mishaps = {"apply", "save", "resolve", "cleanup", "restore", "delete"}
  CrashAt = {}
  MaxEdits = 1
  MaxMishaps = 2
INVARIANTS
  BaselineTrue
SYMMETRY DeviceSymmetry
