SPECIFICATION FilesFairSpec
CONSTANTS
  BackupLevels = 1
  CrashAt = {"open", "write", "end"}
  MaxStarted = 9
  MaxCrashes = 2
  MaxStops = 1
INVARIANTS
  BackupsKept
PROPERTIES
  FilesInSync
  RecoversLatest
  ServerComesUp
