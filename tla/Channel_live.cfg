\* The exchange answers, perhaps with a refusal or too late.
SPECIFICATION AnsweredSpec
CONSTANTS
  MaxMsg = 2
  MaxCount = 2
  MaxHeld = 2
  RejectSize = 1
  Accepts = {1}
  Faults <- LateFaults
  StartRace = FALSE
PROPERTIES RefreshEnds
\* The feed of the instance is finite and the client waits for packets.
CHECK_DEADLOCK FALSE
