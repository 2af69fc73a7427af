---------------------------- MODULE OrderedFeed ----------------------------
(***************************************************************************)
(* What a channel of the client promises to the order book behind it.      *)
(* Nothing of the multicast reaches the book while the feed is closed.     *)
(* Once it opens, at whatever message comes first, messages are delivered  *)
(* in order, each once, and without a hole unless the channel may decline  *)
(* to recover a gap.  A channel that gives its snapshot up before the feed *)
(* opens promises nothing; one that has opened never does.                 *)
(***************************************************************************)
EXTENDS Integers

CONSTANTS
  MaxMsg,   \* last message of the feed
  MayLose   \* TRUE: a gap may be skipped

VARIABLES
  mode,      \* "closed", "open" or "loose"
  cursor,    \* the next message, 0 while the feed is not open
  delivered  \* the messages delivered

vars == <<mode, cursor, delivered>>

Init == mode = "closed" /\ cursor = 0 /\ delivered = {}

Pass(from, to) ==
  /\ from < to
  /\ delivered' = delivered \cup (from .. to - 1)
  /\ cursor' = to
  /\ mode' = "open"

Open(from, to) == mode = "closed" /\ Pass(from, to)

Deliver(from, to) ==
  /\ mode = "open"
  /\ from = cursor \/ (MayLose /\ from > cursor)
  /\ Pass(from, to)

GiveUp == mode = "closed" /\ mode' = "loose" /\ UNCHANGED <<cursor, delivered>>

Next ==
  \/ GiveUp
  \/ \E from, to \in 1 .. MaxMsg + 1 : Open(from, to) \/ Deliver(from, to)

Spec == Init /\ [][Next]_vars
=============================================================================
