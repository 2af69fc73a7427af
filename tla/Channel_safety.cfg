\* Every fault of the connection and of the snapshot; begin_recovery takes
\* every gap; the starting thread is not preempted between login and timer.
SPECIFICATION Spec
CONSTANTS
  MaxMsg = 3
  MaxCount = 2
  MaxHeld = 3
  RejectSize = 1
  Accepts = {1, 3}
  Faults <- ConnectionFaults
  StartRace = FALSE
INVARIANTS TypeOK RefreshIsolated AppliedOnce FeedContiguous OneLogin
PROPERTIES GiveUpFinal RequestBelowQueue FeedSpec
\* The feed of the instance is finite and the client waits for packets.
CHECK_DEADLOCK FALSE
