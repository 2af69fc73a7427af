SPECIFICATION Spec
CONSTANTS
  Channels = 1
  Lines = 2
  MaxFd = 3
  SnapshotDisps = {"same"}
  Faults = {}
  Late = FALSE
INVARIANT SnapshotNotCritical
CHECK_DEADLOCK FALSE
