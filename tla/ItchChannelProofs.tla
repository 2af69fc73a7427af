------------------------- MODULE ItchChannelProofs -------------------------
(***************************************************************************)
(* Theorems about ItchChannel: type correctness, the safety invariants and *)
(* that the refresh is given up for good, for every bound and every set of *)
(* faults.  All but type correctness assume that the starting thread is    *)
(* not preempted between its login and its timer.                          *)
(***************************************************************************)
EXTENDS ItchChannel, TLAPS

(* The interval a packet covers.                                           *)
LEMMA PacketShape ==
  ASSUME NEW p \in Packets
  PROVE  /\ p.seq \in Msgs /\ p.next \in Positions
         /\ p.seq < p.next
         /\ Carries(p) \subseteq Msgs
<1>1. p \in [seq : Positions, next : Positions] /\ p.seq < p.next
  BY DEF Packets, Frames
<1>2. p.seq \in Positions /\ p.next \in Positions
  BY <1>1
<1> QED
  BY <1>1, <1>2, BoundAssumption DEF Msgs, Positions, Carries

(* The queue stays a bag of packets when a packet is pushed.               *)
LEMMA PushType ==
  ASSUME TypeOK, NEW p \in Packets, Push(p)
  PROVE  queue' \in [Packets -> Nat]
BY DEF TypeOK, Push

(* ... and when the ones below a position are dropped.                     *)
LEMMA KeepType ==
  ASSUME TypeOK, NEW n, KeepFrom(n)
  PROVE  queue' \in [Packets -> Nat]
BY DEF TypeOK, KeepFrom

(* The state process_MDQ leaves.                                           *)
LEMMA MDQType ==
  ASSUME TypeOK, ProcessMDQ
  PROVE  /\ seq_no' \in Positions
         /\ queue' \in [Packets -> Nat]
         /\ live' \subseteq Msgs /\ twice' \subseteq Msgs
         /\ retransmit' \in [on : BOOLEAN, from : Positions, to : 0 .. MaxMsg]
         /\ in_refresh' = FALSE
         /\ last_update' = last_update
<1>1. PICK f \in Positions :
        /\ DrainStop(f)
        /\ Applied((seq_no .. f - 1) \cup UNION { Carries(p) : p \in Heads(f) }, HeadTwice(f))
        /\ seq_no' = f
        /\ KeepFrom(f + 1)
        /\ \/ Beyond(f) # {} /\ RequestRetransmit(f)
           \/ Beyond(f) = {} /\ retransmit' = [retransmit EXCEPT !.on = FALSE]
        /\ LeaveRefresh
        /\ UNCHANGED last_update
  BY DEF ProcessMDQ
<1>2. queue' \in [Packets -> Nat]
  BY <1>1, KeepType
<1>3. live' \subseteq Msgs /\ twice' \subseteq Msgs
  <2>1. \A p \in Heads(f) : Carries(p) \subseteq Msgs
    BY PacketShape DEF Heads, Held
  <2>2. UNION { Carries(p) : p \in Heads(f) } \subseteq Msgs
    BY <2>1
  <2>3. seq_no .. f - 1 \subseteq Msgs
    BY BoundAssumption DEF TypeOK, Positions, Msgs
  <2>4. HeadTwice(f) \subseteq Msgs
    BY DEF HeadTwice
  <2> QED
    BY <1>1, <2>2, <2>3, <2>4 DEF Applied, TypeOK
<1>4. retransmit' \in [on : BOOLEAN, from : Positions, to : 0 .. MaxMsg]
  <2>1. CASE RequestRetransmit(f)
    <3>1. PICK top \in Beyond(f) :
            \/ retransmit' = [on |-> TRUE, from |-> f, to |-> RequestUpTo(top)]
            \/ retransmit' = [retransmit EXCEPT !.on = FALSE]
      BY <2>1 DEF RequestRetransmit
    <3>2. top \in Packets
      BY DEF Beyond, Held
    <3>3. RequestUpTo(top) \in 0 .. MaxMsg
      BY <3>2, PacketShape, BoundAssumption DEF RequestUpTo, Msgs
    <3>4. CASE retransmit' = [on |-> TRUE, from |-> f, to |-> RequestUpTo(top)]
      BY <3>3, <3>4
    <3>5. CASE retransmit' = [retransmit EXCEPT !.on = FALSE]
      BY <3>5 DEF TypeOK
    <3> QED
      BY <3>1, <3>4, <3>5
  <2>2. CASE retransmit' = [retransmit EXCEPT !.on = FALSE]
    BY <2>2 DEF TypeOK
  <2> QED
    BY <1>1, <2>1, <2>2
<1> QED
  BY <1>1, <1>2, <1>3, <1>4 DEF LeaveRefresh

(* The state process_snapshot_reject leaves.                               *)
LEMMA RejectType ==
  ASSUME TypeOK, NEW on \in BOOLEAN, Reject(on)
  PROVE  /\ seq_no' \in Positions /\ last_update' \in BOOLEAN
         /\ queue' \in [Packets -> Nat]
         /\ live' \subseteq Msgs /\ twice' \subseteq Msgs
         /\ retransmit' \in [on : BOOLEAN, from : Positions, to : 0 .. MaxMsg]
         /\ in_refresh' \in BOOLEAN /\ rejected' \in BOOLEAN
         /\ snapshot_is_on' \in BOOLEAN /\ connected' \in BOOLEAN
         /\ logins' \in Nat
         /\ ending' \in {"none", "complete", "abandoned"}
<1>1. ProcessMDQ
  BY DEF Reject
<1>2. snapshot_is_on' \in BOOLEAN
  BY DEF Reject, Logout, TypeOK
<1>3. last_update' \in BOOLEAN /\ in_refresh' \in BOOLEAN
  BY <1>1, MDQType DEF TypeOK
<1> QED
  BY <1>1, <1>2, <1>3, MDQType DEF Reject, TypeOK

(* TypeOK is inductive.                                                    *)
LEMMA TypeInit == Init => TypeOK
<1> SUFFICES ASSUME Init
             PROVE  TypeOK
  OBVIOUS
<1>1. 1 \in Positions /\ 0 \in 0 .. MaxMsg
  BY BoundAssumption DEF Positions
<1>2. retransmit \in [on : BOOLEAN, from : Positions, to : 0 .. MaxMsg]
  BY <1>1 DEF Init
<1>3. queue \in [Packets -> Nat]
  BY DEF Init
<1> QED
  BY <1>1, <1>2, <1>3 DEF Init, TypeOK

LEMMA TypeStep == TypeOK /\ [Next]_vars => TypeOK'
<1> SUFFICES ASSUME TypeOK, [Next]_vars
             PROVE  TypeOK'
  OBVIOUS
<1> USE DEF feed, state, socket, stream
<1>1. CASE Connect
  BY <1>1 DEF Connect, TypeOK
<1>2. CASE ConnectFails
  <2>1. CASE Reject(FALSE) /\ UNCHANGED timer
    <3>1. UNCHANGED <<stream, tcp>> /\ start' = "done"
      BY <1>2 DEF ConnectFails
    <3> QED
      BY <2>1, <3>1, RejectType DEF TypeOK
  <2>2. CASE UNCHANGED <<feed, state, socket, ending>>
    BY <1>2, <2>2 DEF ConnectFails, TypeOK
  <2> QED
    BY <1>2, <2>1, <2>2 DEF ConnectFails
<1>3. CASE StartLogin
  BY <1>3 DEF StartLogin, TypeOK
<1>4. CASE StartSend
  BY <1>4 DEF StartSend, SendLogin, TypeOK
<1>5. CASE StartSendFails
  BY <1>5 DEF StartSendFails, TypeOK
<1>6. CASE StartArm
  BY <1>6 DEF StartArm, TypeOK
<1>7. ASSUME NEW p \in Frames, ParseHeartbeat(p)
      PROVE  TypeOK'
  <2>1. p.seq \in Positions
    BY DEF Frames
  <2> QED
    BY <1>7, <2>1 DEF ParseHeartbeat, Cursor, TypeOK
<1>8. ASSUME NEW p \in Packets, ParseInRefresh(p)
      PROVE  TypeOK'
  <2>1. Cursor(p) \in Positions
    BY PacketShape, BoundAssumption DEF Cursor, TypeOK, Msgs, Positions
  <2>2. queue' \in [Packets -> Nat]
    BY <1>8, PushType DEF ParseInRefresh
  <2> QED
    BY <1>8, <2>1, <2>2 DEF ParseInRefresh, TypeOK
<1>9. ASSUME NEW p \in Packets, ParseGap(p)
      PROVE  TypeOK'
  <2>1. queue' \in [Packets -> Nat]
    BY <1>9, PushType DEF ParseGap
  <2> QED
    BY <1>9, <2>1 DEF ParseGap, TypeOK
<1>10. ASSUME NEW p \in Packets, ParseApply(p)
       PROVE  TypeOK'
  <2>1. PICK f \in p.next .. MaxMsg + 1 :
          /\ Applied(FirstNew(p) .. f - 1, {})
          /\ seq_no' = f
          /\ KeepFrom(f)
    BY <1>10 DEF ParseApply
  <2>2. f \in Positions /\ FirstNew(p) \in Positions
    BY PacketShape, BoundAssumption DEF FirstNew, Cursor, TypeOK, Positions, Msgs
  <2>3. FirstNew(p) .. f - 1 \subseteq Msgs
    BY <2>2, BoundAssumption DEF Positions, Msgs
  <2>4. queue' \in [Packets -> Nat]
    BY <2>1, KeepType
  <2>5. live' \subseteq Msgs /\ twice' \subseteq Msgs
    BY <2>1, <2>3 DEF Applied, TypeOK
  <2> QED
    BY <1>10, <2>1, <2>2, <2>4, <2>5 DEF ParseApply, TypeOK
<1>11. ASSUME NEW n \in Accepts, RecvAccept(n)
       PROVE  TypeOK'
  BY <1>11, AcceptAssumption DEF RecvAccept, TcpData, TypeOK, Positions
<1>12. CASE RecvReject
  <2>1. Reject(TRUE)
    BY <1>12 DEF RecvReject
  <2> QED
    BY <1>12, <2>1, RejectType DEF RecvReject, TcpData, TypeOK
<1>13. CASE RecvItem
  <2>1. snapshot_msg_received' \in 0 .. MaxMsg /\ snap' \subseteq Msgs
    <3>1. /\ snapshot_msg_received \in 0 .. MaxMsg /\ snap \subseteq Msgs
          /\ snapshot_msg_received < MaxMsg
          /\ snapshot_msg_received' = snapshot_msg_received + 1
          /\ snap' \subseteq snap \cup {snapshot_msg_received + 1}
      BY <1>13 DEF RecvItem, TypeOK
    <3> QED
      BY <3>1, BoundAssumption DEF Msgs
  <2> QED
    BY <1>13, <2>1 DEF RecvItem, TcpData, TypeOK
<1>14. ASSUME NEW n \in Positions, RecvEnd(n)
       PROVE  TypeOK'
  <2>1. snapshot_is_on' \in BOOLEAN
    BY <1>14 DEF RecvEnd, Logout, TypeOK
  <2>2. ending' \in {"none", "complete", "abandoned"}
    BY <1>14 DEF RecvEnd, TypeOK
  <2> QED
    BY <1>14, <2>1, <2>2 DEF RecvEnd, TcpData, LeaveRefresh, TypeOK
<1>15. CASE RecvOther
  BY <1>15 DEF RecvOther, TcpData, TypeOK
<1>16. CASE ReadTimeout
  <2>1. Reject(snapshot_is_on) /\ snapshot_is_on \in BOOLEAN
    BY <1>16 DEF ReadTimeout, TypeOK
  <2> QED
    BY <1>16, <2>1, RejectType DEF ReadTimeout, ReadTurn, TypeOK
<1>17. CASE ReadLogin
  BY <1>17 DEF ReadLogin, ReadTurn, SendLogin, TypeOK
<1>18. CASE ReadLoginFails
  BY <1>18 DEF ReadLoginFails, ReadTurn, TypeOK
<1>19. CASE ReadNothing
  BY <1>19 DEF ReadNothing, ReadTurn, TypeOK
<1>20. CASE Eof
  BY <1>20 DEF Eof, TypeOK
<1>21. CASE TimePasses
  BY <1>21 DEF TimePasses, TypeOK
<1>22. CASE UNCHANGED vars
  BY <1>22 DEF vars, TypeOK
<1> QED
  BY <1>1, <1>2, <1>3, <1>4, <1>5, <1>6, <1>7, <1>8, <1>9, <1>10, <1>11, <1>12,
     <1>13, <1>14, <1>15, <1>16, <1>17, <1>18, <1>19, <1>20, <1>21, <1>22
  DEF Next, Start, Parse, Answer, Read

(* Every variable keeps its type: in particular seq_no stays within the    *)
(* feed and a request asks for messages of the feed.                       *)
THEOREM TypeCorrect == Spec => []TypeOK
<1> QED
  BY TypeInit, TypeStep, PTL DEF Spec

----------------------------------------------------------------------------
(* The inductive invariant.                                                *)

LEMMA InvInit == Init => Inv
BY TypeInit DEF Init, Inv, Phase, Closed, Starting, Session, Ended, InOrder

(* Rejecting the snapshot, from any step but the starting thread's.        *)
LEMMA RejectInv ==
  ASSUME Inv, NEW on \in BOOLEAN, Reject(on), start' \notin {"connect", "send", "arm"}
  PROVE  Phase' /\ Closed' /\ Starting' /\ Session' /\ Ended' /\ InOrder'
<1>1. in_refresh' = FALSE /\ rejected' = TRUE /\ ending' = "abandoned" /\ logins' = logins
  BY MDQType DEF Reject, Inv
<1> QED
  BY <1>1 DEF Inv, Phase, Closed, Starting, Session, Ended, InOrder

(* A packet held back or lost, or a heartbeat, applies nothing.            *)
LEMMA NotAppliedInv ==
  ASSUME Inv, NEW p \in Frames,
         \/ p.next > seq_no /\ p.next <= Cursor(p) /\ seq_no' = Cursor(p)
         \/ in_refresh /\ seq_no' = Cursor(p)
         \/ seq_no' = seq_no,
         UNCHANGED <<last_update, live, twice, in_refresh, rejected, retransmit,
                     snapshot_is_on, connected, logins, server, start, tcp, ending>>
  PROVE  Phase' /\ Closed' /\ Starting' /\ Session' /\ Ended' /\ InOrder'
<1>1. Phase' /\ Closed' /\ Starting' /\ Session' /\ Ended'
  BY DEF Inv, Phase, Closed, Starting, Session, Ended
<1>2. seq_no' = seq_no \/ ~ last_update
  <2>1. p.next \in Positions /\ seq_no \in Positions
    BY DEF Frames, Inv, TypeOK
  <2>2. CASE p.next > seq_no /\ p.next <= Cursor(p) /\ seq_no' = Cursor(p)
    BY <2>1, <2>2, BoundAssumption DEF Cursor, Positions
  <2>3. CASE in_refresh
    BY <2>3 DEF Inv, Closed
  <2> QED
    BY <2>2, <2>3
<1>3. InOrder'
  BY <1>2 DEF Inv, InOrder
<1> QED
  BY <1>1, <1>3

(* A packet applied extends the run that ends at seq_no.                   *)
LEMMA ApplyInOrder ==
  ASSUME Inv, NEW p \in Packets, ParseApply(p)
  PROVE  InOrder'
<1> SUFFICES ASSUME ending # "abandoned"
             PROVE  InOrder'
  BY DEF InOrder, ParseApply
<1>1. PICK f \in p.next .. MaxMsg + 1 :
        /\ live' = live \cup (FirstNew(p) .. f - 1)
        /\ twice' = twice \cup (live \cap (FirstNew(p) .. f - 1))
        /\ seq_no' = f
  BY DEF ParseApply, Applied
<1>2. /\ p.seq \in Msgs /\ p.next \in Positions /\ p.seq < p.next
      /\ seq_no \in Positions /\ live \subseteq Msgs
      /\ f \in Nat /\ f >= p.next
      /\ p.next > seq_no /\ p.next > Cursor(p)
  BY <1>1, PacketShape, BoundAssumption DEF Inv, TypeOK, ParseApply, Fresh, Positions
<1>3. last_update' = TRUE
  BY DEF ParseApply
<1>4. twice = {} /\ (~ last_update => live = {})
  BY DEF Inv, InOrder
<1>5. \A m \in live :
        m < seq_no /\ ("norecovery" \notin Faults => m .. seq_no - 1 \subseteq live)
  BY DEF Inv, InOrder
<1>6. CASE ~ last_update
  <2>1. live = {} /\ FirstNew(p) = p.seq
    BY <1>4, <1>6, <1>2, BoundAssumption DEF FirstNew, Cursor, Msgs
  <2>2. live' = p.seq .. f - 1 /\ twice' = {}
    BY <1>1, <1>4, <2>1
  <2>3. \A m \in live' : m < seq_no' /\ m .. seq_no' - 1 \subseteq live'
    BY <1>1, <1>2, <2>2, BoundAssumption DEF Msgs
  <2> QED
    BY <1>3, <2>2, <2>3 DEF InOrder
<1>7. CASE last_update
  <2>1. Cursor(p) = seq_no /\ FirstNew(p) >= seq_no /\ FirstNew(p) \in Nat
    BY <1>2, <1>7, BoundAssumption DEF FirstNew, Cursor, Msgs, Positions
  <2>2. live \cap (FirstNew(p) .. f - 1) = {}
    BY <1>2, <1>5, <2>1, BoundAssumption DEF Positions, Msgs
  <2>3. \A m \in live' : m < seq_no'
    BY <1>1, <1>2, <1>5, <2>1, BoundAssumption DEF Positions, Msgs
  <2>4. ASSUME "norecovery" \notin Faults, NEW m \in live'
        PROVE  m .. seq_no' - 1 \subseteq live'
    <3>1. FirstNew(p) = seq_no
      <4>1. ~ IsGap(p)
        BY <2>4 DEF ParseApply
      <4> QED
        BY <1>2, <2>1, <4>1, BoundAssumption DEF IsGap, FirstNew, Positions, Msgs
    <3>2. live' = live \cup (seq_no .. f - 1)
      BY <1>1, <3>1
    <3>3. CASE m \in live
      <4>1. m .. seq_no - 1 \subseteq live /\ m \in Nat
        BY <1>2, <1>5, <2>4, <3>3, BoundAssumption DEF Msgs
      <4>2. m .. f - 1 \subseteq (m .. seq_no - 1) \cup (seq_no .. f - 1)
        BY <1>2, <4>1, BoundAssumption DEF Positions
      <4> QED
        BY <1>1, <3>2, <4>1, <4>2
    <3>4. CASE m \in seq_no .. f - 1
      BY <1>1, <1>2, <3>2, <3>4, BoundAssumption DEF Positions
    <3> QED
      BY <2>4, <3>2, <3>3, <3>4
  <2> QED
    BY <1>1, <1>3, <1>4, <2>2, <2>3, <2>4 DEF InOrder
<1> QED
  BY <1>6, <1>7

LEMMA InvStep == ~ StartRace /\ Inv /\ [Next]_vars => Inv'
<1> SUFFICES ASSUME ~ StartRace, Inv, [Next]_vars
             PROVE  Phase' /\ Closed' /\ Starting' /\ Session' /\ Ended' /\ InOrder'
  BY TypeStep DEF Inv
<1>0. TypeOK /\ Phase /\ Closed /\ Starting /\ Session /\ Ended /\ InOrder
  BY DEF Inv
<1> USE DEF feed, state, socket, stream
<1>1. CASE Connect
  BY <1>0, <1>1 DEF Connect, Phase, Closed, Starting, Session, Ended, InOrder
<1>2. CASE ConnectFails
  <2>1. start' = "done"
    BY <1>2 DEF ConnectFails
  <2>2. CASE Reject(FALSE)
    BY <2>1, <2>2, RejectInv
  <2>3. CASE UNCHANGED <<feed, state, socket, ending>>
    BY <1>0, <1>2, <2>3 DEF ConnectFails, Phase, Closed, Starting, Session, Ended, InOrder
  <2> QED
    BY <1>2, <2>2, <2>3 DEF ConnectFails
<1>3. CASE StartLogin
  BY <1>0, <1>3 DEF StartLogin, Phase, Closed, Starting, Session, Ended, InOrder
<1>4. CASE StartSend
  BY <1>0, <1>4 DEF StartSend, SendLogin, Phase, Closed, Starting, Session, Ended, InOrder
<1>5. CASE StartSendFails
  BY <1>0, <1>5 DEF StartSendFails, Phase, Closed, Starting, Session, Ended, InOrder
<1>6. CASE StartArm
  BY <1>0, <1>6 DEF StartArm, Phase, Closed, Starting, Session, Ended, InOrder
<1>7. ASSUME NEW p \in Frames, ParseHeartbeat(p)
      PROVE  Phase' /\ Closed' /\ Starting' /\ Session' /\ Ended' /\ InOrder'
  BY <1>7, NotAppliedInv DEF ParseHeartbeat
<1>8. ASSUME NEW p \in Packets, ParseInRefresh(p)
      PROVE  Phase' /\ Closed' /\ Starting' /\ Session' /\ Ended' /\ InOrder'
  <2>1. p \in Frames
    BY DEF Packets
  <2> QED
    BY <1>8, <2>1, NotAppliedInv DEF ParseInRefresh, HoldsBack
<1>9. ASSUME NEW p \in Packets, ParseGap(p)
      PROVE  Phase' /\ Closed' /\ Starting' /\ Session' /\ Ended' /\ InOrder'
  <2>1. p \in Frames
    BY DEF Packets
  <2> QED
    BY <1>9, <2>1, NotAppliedInv DEF ParseGap
<1>10. ASSUME NEW p \in Packets, ParseApply(p)
       PROVE  Phase' /\ Closed' /\ Starting' /\ Session' /\ Ended' /\ InOrder'
  <2>1. Phase' /\ Closed' /\ Starting' /\ Session' /\ Ended'
    BY <1>0, <1>10 DEF ParseApply, HoldsBack, Phase, Closed, Starting, Session, Ended
  <2> QED
    BY <1>10, <2>1, ApplyInOrder
<1>11. ASSUME NEW n \in Accepts, RecvAccept(n)
       PROVE  Phase' /\ Closed' /\ Starting' /\ Session' /\ Ended' /\ InOrder'
  <2>1. ending # "complete"
    BY <1>0, <1>11 DEF RecvAccept, Ended
  <2>2. ending \in {"none", "complete", "abandoned"}
    BY <1>0 DEF TypeOK
  <2> QED
    BY <1>0, <1>11, <2>1, <2>2
    DEF RecvAccept, TcpData, DispatcherRuns, Phase, Closed, Starting, Session, Ended, InOrder
<1>12. CASE RecvReject
  <2>1. Reject(TRUE) /\ start' \notin {"connect", "send", "arm"}
    BY <1>0, <1>12 DEF RecvReject, TcpData, DispatcherRuns, Starting
  <2> QED
    BY <2>1, RejectInv
<1>13. CASE RecvItem
  BY <1>0, <1>13
  DEF RecvItem, TcpData, DispatcherRuns, Phase, Closed, Starting, Session, Ended, InOrder
<1>14. ASSUME NEW n \in Positions, RecvEnd(n)
       PROVE  Phase' /\ Closed' /\ Starting' /\ Session' /\ Ended' /\ InOrder'
  <2>1. ending \in {"none", "abandoned"}
    BY <1>0, <1>14 DEF RecvEnd, Ended, TypeOK
  <2>2. Phase' /\ Closed' /\ Starting' /\ Session'
    BY <1>0, <1>14, <2>1
    DEF RecvEnd, TcpData, DispatcherRuns, LeaveRefresh, Phase, Closed, Starting, Session
  <2>3. Ended' /\ InOrder'
    BY <1>0, <1>14, <2>1 DEF RecvEnd, Phase, Closed, Ended, InOrder
  <2> QED
    BY <2>2, <2>3
<1>15. CASE RecvOther
  BY <1>0, <1>15
  DEF RecvOther, TcpData, DispatcherRuns, Phase, Closed, Starting, Session, Ended, InOrder
<1>16. CASE ReadTimeout
  <2>1. Reject(snapshot_is_on) /\ snapshot_is_on \in BOOLEAN
    BY <1>0, <1>16 DEF ReadTimeout, TypeOK
  <2>2. start' \notin {"connect", "send", "arm"}
    BY <1>0, <1>16 DEF ReadTimeout, ReadTurn, DispatcherRuns, Starting
  <2> QED
    BY <2>1, <2>2, RejectInv
<1>17. CASE ReadLogin
  <2>1. ~ rejected /\ ~ snapshot_is_on /\ logins = 0 /\ in_refresh
    BY <1>0, <1>17 DEF ReadLogin, MayLogin, Session, Phase, TypeOK
  <2> QED
    BY <1>0, <1>17, <2>1
    DEF ReadLogin, ReadTurn, DispatcherRuns, SendLogin,
        Phase, Closed, Starting, Session, Ended, InOrder
<1>18. CASE ReadLoginFails
  BY <1>0, <1>18
  DEF ReadLoginFails, ReadTurn, DispatcherRuns, Phase, Closed, Starting, Session, Ended, InOrder
<1>19. CASE ReadNothing
  BY <1>0, <1>19
  DEF ReadNothing, ReadTurn, DispatcherRuns, Phase, Closed, Starting, Session, Ended, InOrder
<1>20. CASE Eof
  BY <1>0, <1>20
  DEF Eof, DispatcherRuns, Phase, Closed, Starting, Session, Ended, InOrder
<1>21. CASE TimePasses
  BY <1>0, <1>21 DEF TimePasses, Phase, Closed, Starting, Session, Ended, InOrder
<1>22. CASE UNCHANGED vars
  BY <1>0, <1>22 DEF vars, Phase, Closed, Starting, Session, Ended, InOrder
<1> QED
  BY <1>1, <1>2, <1>3, <1>4, <1>5, <1>6, <1>7, <1>8, <1>9, <1>10, <1>11, <1>12,
     <1>13, <1>14, <1>15, <1>16, <1>17, <1>18, <1>19, <1>20, <1>21, <1>22
  DEF Next, Start, Parse, Answer, Read

THEOREM InvHolds ==
  ASSUME ~ StartRace
  PROVE  Spec => []Inv
<1>1. Inv /\ [Next]_vars => Inv'
  BY InvStep
<1> QED
  BY <1>1, InvInit, PTL DEF Spec

----------------------------------------------------------------------------
(* The safety properties of the runs.                                      *)

(* No multicast message reaches the book during the refresh, and a refresh *)
(* that is on has not been given up.                                       *)
THEOREM RefreshIsolation ==
  ASSUME ~ StartRace
  PROVE  Spec => []RefreshIsolated
<1>1. Inv => RefreshIsolated
  BY DEF Inv, Phase, Closed, RefreshIsolated
<1> QED
  BY <1>1, InvHolds, PTL

(* A channel whose snapshot was not abandoned applies each message of the  *)
(* multicast at most once.                                                 *)
THEOREM OnceOnly ==
  ASSUME ~ StartRace
  PROVE  Spec => []AppliedOnce
<1>1. Inv => AppliedOnce
  BY DEF Inv, InOrder, AppliedOnce
<1> QED
  BY <1>1, InvHolds, PTL

(* After a complete snapshot the messages applied form one run without a   *)
(* hole that ends at seq_no.                                               *)
THEOREM NoHole ==
  ASSUME ~ StartRace
  PROVE  Spec => []FeedContiguous
<1>1. Inv => FeedContiguous
  BY DEF Inv, InOrder, FeedContiguous
<1> QED
  BY <1>1, InvHolds, PTL

(* Two threads may send the login; it is sent once.                        *)
THEOREM LoginOnce ==
  ASSUME ~ StartRace
  PROVE  Spec => []OneLogin
<1>1. Inv => OneLogin
  BY DEF Inv, Session, OneLogin
<1> QED
  BY <1>1, InvHolds, PTL

(* A refresh that has been given up, or has ended, is over for good: the   *)
(* step behind GiveUpFinal.                                                *)
LEMMA GiveUpStep ==
  ~ StartRace /\ Inv /\ [Next]_vars =>
    [rejected => rejected' /\ ~ in_refresh' /\ logins' = logins]_vars
<1> SUFFICES ASSUME ~ StartRace, Inv, [Next]_vars, rejected
             PROVE  rejected' /\ ~ in_refresh' /\ logins' = logins
  OBVIOUS
<1>0. ~ in_refresh /\ start \notin {"connect", "send", "arm"}
  BY DEF Inv, Phase, Starting
<1> USE DEF feed, state, socket, stream
<1>1. CASE Start
  <2>1. CASE StartLogin
    BY <1>0, <2>1 DEF StartLogin
  <2>2. ~ Connect /\ ~ ConnectFails /\ ~ StartSend /\ ~ StartSendFails /\ ~ StartArm
    BY <1>0 DEF Connect, ConnectFails, StartSend, StartSendFails, StartArm
  <2> QED
    BY <1>1, <2>1, <2>2 DEF Start
<1>2. CASE Parse
  <2>1. UNCHANGED <<state, socket>>
    BY <1>2 DEF Parse, ParseHeartbeat, ParseInRefresh, ParseGap, ParseApply
  <2> QED
    BY <1>0, <2>1
<1>3. ASSUME NEW on \in BOOLEAN, Reject(on)
      PROVE  rejected' /\ ~ in_refresh' /\ logins' = logins
  BY <1>3, MDQType DEF Reject, Inv
<1>4. CASE Answer
  <2>1. CASE RecvReject
    BY <1>3, <2>1 DEF RecvReject
  <2>2. CASE RecvItem
    BY <1>0, <2>2 DEF RecvItem
  <2>3. ASSUME NEW n \in Accepts, RecvAccept(n)
        PROVE  rejected' /\ ~ in_refresh' /\ logins' = logins
    BY <1>0, <2>3 DEF RecvAccept
  <2>4. ASSUME NEW n \in Positions, RecvEnd(n)
        PROVE  rejected' /\ ~ in_refresh' /\ logins' = logins
    BY <2>4 DEF RecvEnd, LeaveRefresh
  <2> QED
    BY <1>4, <2>1, <2>2, <2>3, <2>4 DEF Answer
<1>5. CASE RecvOther
  BY <1>0, <1>5 DEF RecvOther
<1>6. CASE Read
  <2>1. ~ ReadTimeout /\ ~ ReadLogin
    BY <1>0 DEF ReadTimeout, TimedOut, ReadLogin, MayLogin
  <2>2. ReadLoginFails \/ ReadNothing
    BY <1>6, <2>1 DEF Read
  <2>3. UNCHANGED <<state, socket>>
    BY <2>2 DEF ReadLoginFails, ReadNothing
  <2> QED
    BY <1>0, <2>3
<1>7. CASE Eof \/ TimePasses
  <2>1. UNCHANGED <<in_refresh, rejected, socket>>
    BY <1>7 DEF Eof, TimePasses
  <2> QED
    BY <1>0, <2>1
<1>8. CASE UNCHANGED vars
  BY <1>0, <1>8 DEF vars
<1> QED
  BY <1>1, <1>2, <1>4, <1>5, <1>6, <1>7, <1>8 DEF Next

THEOREM GiveUpForGood ==
  ASSUME ~ StartRace
  PROVE  Spec => GiveUpFinal
<1>1. Inv /\ [Next]_vars =>
        [rejected => rejected' /\ ~ in_refresh' /\ logins' = logins]_vars
  BY GiveUpStep
<1> QED
  BY <1>1, InvHolds, PTL DEF Spec, GiveUpFinal
=============================================================================
