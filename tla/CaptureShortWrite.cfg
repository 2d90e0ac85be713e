CONSTANTS
  Sessions = {s1, s2}
  FrameSizes = {1, 2, 4}
  MaxFrames = 3
  MaxFaults = 3
  ShortWrites = TRUE
SPECIFICATION Spec
SYMMETRY Symmetry
CHECK_DEADLOCK FALSE
INVARIANT
  AdmittedIsWhole
