-------------------------- MODULE ItchChannelFeed --------------------------
(***************************************************************************)
(* The steps of a channel as an order book sees them: the retransmission   *)
(* request of process_MDQ lies below what stays queued, and the channel    *)
(* implements OrderedFeed.                                                 *)
(***************************************************************************)
EXTENDS ItchChannelProofs

----------------------------------------------------------------------------
(* The request asks for at least one message, and only for messages below  *)
(* every packet the loop leaves in the queue.                              *)
LEMMA RequestOfMDQ ==
  ASSUME TypeOK, ProcessMDQ, retransmit'.on
  PROVE  /\ retransmit'.from <= retransmit'.to
         /\ \A p \in Packets : queue'[p] > 0 => p.seq > retransmit'.to
<1>1. PICK f \in Positions :
        /\ KeepFrom(f + 1)
        /\ \/ Beyond(f) # {} /\ RequestRetransmit(f)
           \/ Beyond(f) = {} /\ retransmit' = [retransmit EXCEPT !.on = FALSE]
  BY DEF ProcessMDQ
<1>2. [retransmit EXCEPT !.on = FALSE].on = FALSE
  BY DEF TypeOK
<1>3. PICK top \in Beyond(f) :
        /\ \A p \in Beyond(f) : top.seq <= p.seq
        /\ retransmit' = [on |-> TRUE, from |-> f, to |-> RequestUpTo(top)]
  BY <1>1, <1>2 DEF RequestRetransmit
<1>4. top.seq \in Msgs /\ top.seq > f /\ f \in Positions
  BY PacketShape DEF Beyond, Held
<1>5. retransmit'.from = f /\ retransmit'.to = top.seq - 1
  BY <1>3 DEF RequestUpTo
<1>6. ASSUME NEW p \in Packets, queue'[p] > 0
      PROVE  p.seq > retransmit'.to
  <2>1. p.seq >= f + 1 /\ queue[p] > 0
    BY <1>1, <1>6 DEF KeepFrom
  <2>2. p.seq \in Msgs
    BY PacketShape
  <2>3. p \in Beyond(f)
    BY <2>1, <2>2, <1>4, BoundAssumption DEF Beyond, Held, Msgs, Positions
  <2> QED
    BY <2>2, <2>3, <1>3, <1>4, <1>5, BoundAssumption DEF Msgs
<1> QED
  BY <1>4, <1>5, <1>6, BoundAssumption DEF Msgs, Positions

(* Only process_MDQ writes the request.                                    *)
LEMMA RequestStep ==
  TypeOK /\ [Next]_vars =>
    [retransmit' # retransmit /\ retransmit'.on =>
       /\ retransmit'.from <= retransmit'.to
       /\ \A p \in Packets : queue'[p] > 0 => p.seq > retransmit'.to]_vars
<1> SUFFICES ASSUME TypeOK, [Next]_vars, retransmit' # retransmit, retransmit'.on
             PROVE  /\ retransmit'.from <= retransmit'.to
                    /\ \A p \in Packets : queue'[p] > 0 => p.seq > retransmit'.to
  OBVIOUS
<1> USE DEF feed, state, socket, stream
<1>1. ProcessMDQ
  <2>1. CASE Start
    BY <2>1 DEF Start, Connect, ConnectFails, Reject, StartLogin, StartSend, StartSendFails, StartArm
  <2>2. CASE Parse
    BY <2>2 DEF Parse, ParseHeartbeat, ParseInRefresh, ParseGap, ParseApply
  <2>3. CASE Answer
    BY <2>3 DEF Answer, RecvAccept, RecvReject, Reject, RecvItem, RecvEnd
  <2>4. CASE Read
    BY <2>4 DEF Read, ReadTimeout, Reject, ReadLogin, ReadLoginFails, ReadNothing
  <2>5. CASE RecvOther \/ Eof \/ TimePasses
    BY <2>5 DEF RecvOther, Eof, TimePasses
  <2>6. CASE UNCHANGED vars
    BY <2>6 DEF vars
  <2> QED
    BY <2>1, <2>2, <2>3, <2>4, <2>5, <2>6 DEF Next
<1> QED
  BY <1>1, RequestOfMDQ

(* A request never reaches into what is still queued.                      *)
THEOREM RequestsBelowQueue == Spec => RequestBelowQueue
BY TypeCorrect, RequestStep, PTL DEF Spec, RequestBelowQueue

----------------------------------------------------------------------------
(* The channel implements OrderedFeed.                                     *)

LEMMA FeedInit == Init => Feed!Init
BY DEF Init, Feed!Init, FeedMode, FeedCursor, FeedDelivered

(* A step that leaves the four variables of the mapping alone, or moves    *)
(* seq_no before the feed opens, is a stutter of OrderedFeed.              *)
LEMMA FeedStutter ==
  ASSUME Inv, last_update' = last_update, live' = live,
         (ending = "abandoned") <=> (ending' = "abandoned"),
         seq_no' = seq_no \/ ~ last_update \/ ending = "abandoned"
  PROVE  UNCHANGED Feed!vars
<1>1. FeedMode' = FeedMode
  BY DEF FeedMode
<1>2. FeedCursor' = FeedCursor /\ FeedDelivered' = FeedDelivered
  BY <1>1 DEF FeedMode, FeedCursor, FeedDelivered
<1> QED
  BY <1>1, <1>2 DEF Feed!vars

(* Abandoning the snapshot gives the promise up, before the feed opens, or *)
(* changes nothing when it was given up already.                           *)
LEMMA FeedReject ==
  ASSUME Inv, ending # "complete", ending' = "abandoned"
  PROVE  [Feed!Next]_(Feed!vars)
<1>1. FeedMode' = "loose" /\ FeedCursor' = 0 /\ FeedDelivered' = {}
  BY DEF FeedMode, FeedCursor, FeedDelivered
<1>2. CASE ending = "abandoned"
  <2>1. FeedMode = "loose" /\ FeedCursor = 0 /\ FeedDelivered = {}
    BY <1>2 DEF FeedMode, FeedCursor, FeedDelivered
  <2> QED
    BY <1>1, <2>1 DEF Feed!vars
<1>3. CASE ending = "none"
  <2>1. in_refresh /\ ~ last_update /\ live = {}
    BY <1>3 DEF Inv, Phase, Closed
  <2>2. FeedMode = "closed" /\ FeedCursor = 0 /\ FeedDelivered = {}
    BY <1>3, <2>1 DEF FeedMode, FeedCursor, FeedDelivered
  <2> QED
    BY <1>1, <2>2 DEF Feed!Next, Feed!GiveUp
<1> QED
  BY <1>2, <1>3 DEF Inv, TypeOK

(* A packet applied opens the feed at its first message, or delivers from  *)
(* the cursor on, or, when a gap may be skipped, from beyond it.           *)
LEMMA FeedApply ==
  ASSUME Inv, NEW p \in Packets, ParseApply(p)
  PROVE  [Feed!Next]_(Feed!vars)
<1>1. PICK f \in p.next .. MaxMsg + 1 :
        live' = live \cup (FirstNew(p) .. f - 1) /\ seq_no' = f
  BY DEF ParseApply, Applied
<1>2. /\ p.seq \in Msgs /\ p.next \in Positions /\ p.seq < p.next
      /\ seq_no \in Positions /\ p.next > seq_no
      /\ f \in 1 .. MaxMsg + 1 /\ f >= p.next
  BY <1>1, PacketShape, BoundAssumption DEF Inv, TypeOK, ParseApply, Fresh, Positions
<1>3. last_update' = TRUE /\ ending' = ending /\ ~ in_refresh
  BY DEF ParseApply, HoldsBack
<1>4. CASE ending = "abandoned"
  BY <1>3, <1>4 DEF FeedMode, FeedCursor, FeedDelivered, Feed!vars
<1>5. CASE ending # "abandoned" /\ ~ last_update
  <2>1. FeedMode = "closed" /\ FeedDelivered = live /\ live = {}
    BY <1>5 DEF FeedMode, FeedDelivered, Inv, InOrder
  <2>2. FirstNew(p) = p.seq
    BY <1>2, <1>5, BoundAssumption DEF FirstNew, Cursor, Msgs
  <2>3. FeedMode' = "open" /\ FeedCursor' = f /\ FeedDelivered' = p.seq .. f - 1
    BY <1>1, <1>3, <1>5, <2>1, <2>2 DEF FeedMode, FeedCursor, FeedDelivered
  <2>4. p.seq \in 1 .. MaxMsg + 1 /\ p.seq < f
    BY <1>2, BoundAssumption DEF Msgs, Positions
  <2>5. Feed!Open(p.seq, f)
    BY <2>1, <2>3, <2>4 DEF Feed!Open, Feed!Pass
  <2> QED
    BY <1>2, <2>4, <2>5 DEF Feed!Next
<1>6. CASE ending # "abandoned" /\ last_update
  <2>1. FeedMode = "open" /\ FeedCursor = seq_no /\ FeedDelivered = live
    BY <1>6 DEF FeedMode, FeedCursor, FeedDelivered
  <2>2. /\ FeedMode' = "open" /\ FeedCursor' = f
        /\ FeedDelivered' = live \cup (FirstNew(p) .. f - 1)
    BY <1>1, <1>3, <1>6 DEF FeedMode, FeedCursor, FeedDelivered
  <2>3. FirstNew(p) = seq_no \/ ("norecovery" \in Faults /\ FirstNew(p) > seq_no)
    <3>1. ~ IsGap(p) \/ "norecovery" \in Faults
      BY DEF ParseApply
    <3> QED
      BY <1>2, <1>6, <3>1, BoundAssumption DEF IsGap, FirstNew, Cursor, Msgs, Positions
  <2>4. FirstNew(p) \in 1 .. MaxMsg + 1 /\ FirstNew(p) < f
    BY <1>2, <1>6, BoundAssumption DEF FirstNew, Cursor, Msgs, Positions
  <2>5. Feed!Deliver(FirstNew(p), f)
    BY <2>1, <2>2, <2>3, <2>4 DEF Feed!Deliver, Feed!Pass
  <2> QED
    BY <1>2, <2>4, <2>5 DEF Feed!Next
<1> QED
  BY <1>4, <1>5, <1>6

LEMMA FeedStep == ~ StartRace /\ Inv /\ [Next]_vars => [Feed!Next]_(Feed!vars)
<1> SUFFICES ASSUME ~ StartRace, Inv, [Next]_vars
             PROVE  [Feed!Next]_(Feed!vars)
  OBVIOUS
<1> USE DEF feed, state, socket, stream
<1>1. CASE Connect \/ StartLogin \/ StartSend \/ StartSendFails \/ StartArm
  BY <1>1, FeedStutter DEF Connect, StartLogin, StartSend, StartSendFails, StartArm
<1>2. CASE ConnectFails
  <2>1. CASE Reject(FALSE)
    <3>1. ending # "complete"
      BY <1>2 DEF ConnectFails, Inv, Starting, Phase
    <3> QED
      BY <2>1, <3>1, FeedReject DEF Reject
  <2>2. CASE UNCHANGED <<feed, state, socket, ending>>
    BY <2>2, FeedStutter
  <2> QED
    BY <1>2, <2>1, <2>2 DEF ConnectFails
<1>3. ASSUME NEW p \in Frames, ParseHeartbeat(p)
      PROVE  [Feed!Next]_(Feed!vars)
  <2>1. ~ last_update
    <3>1. p.next \in Positions /\ seq_no \in Positions
      BY DEF Frames, Inv, TypeOK
    <3> QED
      BY <1>3, <3>1, BoundAssumption DEF ParseHeartbeat, Cursor, Positions
  <2> QED
    BY <1>3, <2>1, FeedStutter DEF ParseHeartbeat
<1>4. ASSUME NEW p \in Packets, ParseInRefresh(p) \/ ParseGap(p) \/ ParseApply(p)
      PROVE  [Feed!Next]_(Feed!vars)
  <2>1. CASE ParseInRefresh(p)
    <3>1. ~ last_update
      BY <2>1 DEF ParseInRefresh, HoldsBack, Inv, Closed
    <3> QED
      BY <2>1, <3>1, FeedStutter DEF ParseInRefresh
  <2>2. CASE ParseGap(p)
    BY <2>2, FeedStutter DEF ParseGap
  <2>3. CASE ParseApply(p)
    BY <2>3, FeedApply
  <2> QED
    BY <1>4, <2>1, <2>2, <2>3
<1>5. ASSUME NEW n \in Positions, RecvAccept(n) \/ RecvEnd(n)
      PROVE  [Feed!Next]_(Feed!vars)
  <2>1. ending \in {"none", "abandoned"}
    BY <1>5 DEF RecvAccept, RecvEnd, Inv, TypeOK, Ended
  <2>2. ~ last_update \/ ending = "abandoned"
    BY <2>1 DEF Inv, Phase, Closed
  <2>3. /\ last_update' = last_update /\ live' = live
        /\ (ending = "abandoned") <=> (ending' = "abandoned")
    BY <1>5, <2>1 DEF RecvAccept, RecvEnd
  <2> QED
    BY <2>2, <2>3, FeedStutter
<1>6. CASE RecvReject \/ ReadTimeout
  <2>1. ending # "complete"
    BY <1>6 DEF RecvReject, ReadTimeout, TimedOut, Inv, Ended, Phase
  <2>2. ending' = "abandoned"
    BY <1>6 DEF RecvReject, ReadTimeout, Reject
  <2> QED
    BY <2>1, <2>2, FeedReject
<1>7. CASE RecvItem \/ RecvOther
  BY <1>7, FeedStutter DEF RecvItem, RecvOther
<1>8. CASE ReadLogin \/ ReadLoginFails \/ ReadNothing
  BY <1>8, FeedStutter DEF ReadLogin, ReadLoginFails, ReadNothing
<1>9. CASE Eof \/ TimePasses \/ UNCHANGED vars
  BY <1>9, FeedStutter DEF Eof, TimePasses, vars
<1>10. \A n \in Accepts : n \in Positions
  BY AcceptAssumption DEF Positions
<1> QED
  BY <1>1, <1>2, <1>3, <1>4, <1>5, <1>6, <1>7, <1>8, <1>9, <1>10
  DEF Next, Start, Parse, Answer, Read

(* The promise of OrderedFeed: nothing before the feed opens, then every   *)
(* message in order, once, without a hole that is not declined; and only a *)
(* feed that has not opened can be given up.                               *)
THEOREM FeedImplemented ==
  ASSUME ~ StartRace
  PROVE  Spec => FeedSpec
<1>1. Inv /\ [Next]_vars => [Feed!Next]_(Feed!vars)
  BY FeedStep
<1> QED
  BY <1>1, FeedInit, InvHolds, PTL DEF Spec, FeedSpec, Feed!Spec
=============================================================================
