SPECIFICATION Spec
CHECK_DEADLOCK FALSE
CONSTANTS
  Sizes = {1, 3}
  HeaderSize = 1
  PrefixSize = 1
  MaxFileSize = 5
  MaxFiles = 2
  MaxDirs = 2
  MaxLevel = 0
  CrashAt = {"idle", "route", "open", "write", "index", "topindex", "stored"}
  MaxTries = 7
  MaxCrashes = 2
INVARIANTS
  AckedReadable
  NoHoles
  RetrySucceeds
  Restartable
PROPERTIES
  IdsFresh
