CONSTANTS
  r1 = r1
  r2 = r2
  d1 = d1
  Recordings = {r1, r2}
  Digests = {d1}
  Content <- SameAudio
  Profiles = {f1}
  Procs = {p1, p2}
  Faults = {"orphanImport", "rmtreeStops"}
  NoLock = NoLock
  Deleter = Deleter
  Preview = Preview
SPECIFICATION FairSpec
PROPERTIES
  EditsPreserved
  ResultIsReused
  LockIsReleased
