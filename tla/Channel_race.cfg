\* The starting thread may be preempted around its login.
SPECIFICATION Spec
CONSTANTS
  MaxMsg = 2
  MaxCount = 2
  MaxHeld = 2
  RejectSize = 1
  Accepts = {1}
  Faults <- ConnectionFaults
  StartRace = TRUE
PROPERTIES DontTryAgain
\* The feed of the instance is finite and the client waits for packets.
CHECK_DEADLOCK FALSE
