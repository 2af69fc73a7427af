SPECIFICATION FairSpec
CONSTANTS
  Channels = 2
  Lines = 1
  MaxFd = 4
  SnapshotDisps = {"none", "same"}
  MaxRequests = 2
INVARIANTS Registered Obeyed ReadsOwn WatchedWithoutSnapshot
\* The client has stopped.
CHECK_DEADLOCK FALSE
PROPERTIES DataRead
