\* Recorders of one path, in all the settings of MCSettings.
SPECIFICATION FairSpec
CONSTANTS
  Writers = {w1, w2, w3}
  Settings <- MCSettings
  MaxSuffix = 2
  MaxAttempts = 1
  MaxCrashes = 1
  NoFile = NoFile
  NoWriter = NoWriter
CHECK_DEADLOCK FALSE
INVARIANTS
  MutualExclusion
PROPERTIES
  RecordingIsAtomic
  AbandonedLockRecovered
