SPECIFICATION FairSpec
CONSTANTS
  Channels = 2
  Lines = 1
  MaxFd = 3
  SnapshotDisps = {"none", "same"}
  Faults = {"connect", "socket"}
  Late = FALSE
INVARIANTS TypeOK Registered NoLostEdge ReadsOwn AllClosed
PROPERTIES DataRead ShutdownEnds
\* The client has stopped, or an exception has ended it.
CHECK_DEADLOCK FALSE
