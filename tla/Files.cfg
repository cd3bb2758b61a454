CONSTANTS
  Pids = {p1, p2, p3}
  NoPid = NoPid
  MaxLives = 4
  MaxGuardCrashes = 1
  Events = {e1, e2, e3}
  NoEvent = NoEvent
  MaxSegments = 3
  MaxLogCrashes = 2
  MaxFailures = 1
  MaxForks = 2
  MaxBoots = 3
  MaxFaults = 2
SPECIFICATION FilesSpec
INVARIANTS
  FilesTypeOK
  LockIsExclusive
  OneNamedDaemon
  LogSafety
  OneWriter
  DiskNamesLive
PROPERTIES
  StaleLockIsCleared
  ImplementsDurableLog
  EveryOpEnds
CHECK_DEADLOCK FALSE
