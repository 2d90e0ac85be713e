CONSTANTS
  Recordings = {r1, r2}
  MaxFaults = 1
  Outages = {}
SPECIFICATION FairSpec
INVARIANTS
  OnlyErrorsCount
  ErrorsAreBounded
  ArchiveStaysOut
PROPERTIES
  NoJobLost
  TerminalIsFinal
  EveryRecordingSettles
