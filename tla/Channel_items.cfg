\* Nothing goes wrong: the snapshot is complete, the multicast has begun.
SPECIFICATION Spec
CONSTANTS
  MaxMsg = 2
  MaxCount = 2
  MaxHeld = 2
  RejectSize = 1
  Accepts = {1}
  Faults <- NoFaults
  StartRace = FALSE
INVARIANTS SkipsOnlySeen
\* The feed of the instance is finite and the client waits for packets.
CHECK_DEADLOCK FALSE
