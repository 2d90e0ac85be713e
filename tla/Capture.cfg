CONSTANTS
  Sessions = {s1, s2}
  FrameSizes = {1, 2}
  MaxFrames = 3
  MaxFaults = 3
  ShortWrites = FALSE
SPECIFICATION FairSpec
CHECK_DEADLOCK FALSE
INVARIANTS
  NoAudioLost
  AdmittedIsWhole
  RecoveredAccount
PROPERTIES
  StartupAccounts
  ImplementsArchive
  LeftoversAreRecovered
