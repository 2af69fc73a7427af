\* Every queue of at most three packets of four messages, at every position.
SPECIFICATION LoopSpec
CONSTANTS
  MaxMsg = 4
  MaxCount = 3
  MaxHeld = 3
  RejectSize = 1
  Accepts = {1}
  Faults = {"request"}
  StartRace = FALSE
PROPERTIES LoopIsProcessMDQ LoopEnds
\* The loop returns.
CHECK_DEADLOCK FALSE
