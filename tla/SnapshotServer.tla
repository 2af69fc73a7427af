--------------------------- MODULE SnapshotServer ---------------------------
(***************************************************************************)
(* What the exchange promises to a client that takes a snapshot from it:   *)
(* items in order from the first message on, without a hole, and an end    *)
(* that is due as soon as they have reached the multicast, or the login    *)
(* asks for what it has not reached, and never before.  No item goes out   *)
(* while the end is due, but the multicast moves on: the end names the     *)
(* next message to take from it at the moment the end is sent.  A client   *)
(* may ask again and is served from where the items stopped.  The promise  *)
(* ends when the connection does, when a login is refused, or when a       *)
(* message of the server could not be sent.                                *)
(***************************************************************************)
EXTENDS Integers

CONSTANT Asked   \* the message a login asks for

VARIABLES
  phase,  \* "idle", "streaming", "due" (the end must be next), "ended", "off"
  upto,   \* the items sent are 1 .. upto
  claim,  \* the message the last end named, -1 before the first
  feed    \* the next message of the multicast, 0 before it begins

vars == <<phase, upto, claim, feed>>

Init == phase = "idle" /\ upto = 0 /\ claim = -1 /\ feed = 0

(* The end is due once next, the next message to serve, is one the         *)
(* multicast has not passed.                                               *)
Serve(next) == phase' = IF next >= feed THEN "due" ELSE "streaming"

Accept ==
  /\ phase \in {"idle", "streaming", "ended"}
  /\ Serve(Asked)
  /\ UNCHANGED <<upto, claim, feed>>

Item ==
  /\ phase = "streaming"
  /\ upto' = upto + 1
  /\ Serve(upto' + 1)
  /\ UNCHANGED <<claim, feed>>

End == phase = "due" /\ phase' = "ended" /\ claim' = feed /\ UNCHANGED <<upto, feed>>

Advance == feed' > feed /\ UNCHANGED <<phase, upto, claim>>

Break ==
  /\ phase # "off" /\ phase' = "off"
  /\ upto' = 0 /\ claim' = -1
  /\ UNCHANGED feed

Next == Accept \/ Item \/ End \/ Advance \/ Break

Spec == Init /\ [][Next]_vars
=============================================================================
