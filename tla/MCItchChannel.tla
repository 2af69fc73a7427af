--------------------------- MODULE MCItchChannel ---------------------------
(* Instances of ItchChannel for TLC: the faults of each run.               *)
EXTENDS ItchChannel

NoFaults == {}

(* All but a gap that is never recovered.                                  *)
ConnectionFaults == AllFaults \ {"norecovery"}

(* The exchange is there and plays its part, perhaps too late.             *)
LateFaults == {"reject", "timeout", "norecovery"}
=============================================================================
