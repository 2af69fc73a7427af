--------------------------- MODULE ExchangeProofs ---------------------------
(***************************************************************************)
(* Theorems about Exchange, for every size of feed, packet and drop, every *)
(* number of logins and every set of faults.                               *)
(***************************************************************************)
EXTENDS Exchange, WellFoundedInduction, TLAPS

----------------------------------------------------------------------------
(* Retransmission.                                                         *)

(* A set of messages that is not empty has a least one.                    *)
LEMMA LeastExists ==
  ASSUME NEW S \in SUBSET Nat, S # {}
  PROVE  \E f \in S : Least(f, S)
<1> DEFINE R == { ss \in Nat \X Nat : ss[1] < ss[2] }
<1>1. IsWellFoundedOn(R, Nat)
  <2>1. R = OpToRel(<, Nat)
    BY DEF OpToRel
  <2> QED
    BY <2>1, NatLessThanWellFounded
<1> HIDE DEF R
<1>2. PICK f \in S : \A g \in S : <<g, f>> \notin R
  BY <1>1, WFMin
<1>3. ASSUME NEW g \in S
      PROVE  f <= g
  <2>1. g < f => <<g, f>> \in R
    BY DEF R
  <2> QED
    BY <1>2, <2>1
<1> QED
  BY <1>3 DEF Least

(* If a bundle begins at or after from, a request from there is served.    *)
LEMMA BundlesFound ==
  ASSUME NEW from \in Msgs, NEW to \in Msgs,
         NEW b \in Bundles, b >= from
  PROVE  BundlesFor(from, to) # {}
<1> DEFINE S == { h \in Bundles : h >= from }
<1>1. S \in SUBSET Nat /\ S # {}
  BY DEF Bundles, Msgs
<1>2. PICK h \in S : Least(h, S)
  BY <1>1, LeastExists
<1>3. \A g \in Bundles : ~ (from <= g /\ g < h)
  BY <1>2 DEF Least, Bundles, Msgs
<1> QED
  BY <1>2, <1>3 DEF BundlesFor

(* What create_recovery_list leaves in the list lies in the request, and   *)
(* begins with its first message.                                          *)
LEMMA RecoveryListShape ==
  ASSUME NEW from \in Msgs, NEW to \in Msgs, from <= to
  PROVE  /\ RecoveryList(from, to) \subseteq from .. to
         /\ RecoveryList(from, to) # {} => Least(from, RecoveryList(from, to))
<1> DEFINE B == BundlesFor(from, to)
<1>1. B \in SUBSET Nat /\ B \subseteq Bundles
  BY DEF BundlesFor, Bundles, Msgs
<1>2. ASSUME NEW h \in B, ~ Least(h, B), ~ Greatest(h, B)
      PROVE  h \in from .. to
  <2>1. PICK g \in B : h < g
    BY <1>1, <1>2 DEF Greatest
  <2>2. from <= h /\ h <= to
    BY <1>1, <2>1 DEF BundlesFor
  <2> QED
    BY <1>1, <2>2 DEF Msgs
<1>3. RecoveryList(from, to) \subseteq from .. to
  BY <1>2 DEF RecoveryList, Msgs
<1>4. ASSUME RecoveryList(from, to) # {}
      PROVE  from \in RecoveryList(from, to)
  <2>1. B # {}
    BY <1>4 DEF RecoveryList
  <2>2. PICK h \in B : Least(h, B)
    BY <1>1, <2>1, LeastExists
  <2> QED
    BY <2>2 DEF RecoveryList
<1> QED
  BY <1>3, <1>4 DEF Least, Msgs

(* One recovery packet takes the messages recovered from one entry of the  *)
(* list to the next, and the last one to the end of the request.           *)
LEMMA RecoverShape ==
  ASSUME NEW a \in Msgs, NEW end \in Msgs, NEW list \in SUBSET (a .. end),
         NEW before,
         \A f \in list : Least(f, list) => before = a .. f - 1,
         Recover(list, end, before)
  PROVE  /\ recovery' \subseteq a .. end
         /\ recovered' \subseteq a .. end
         /\ \/ recovery' = {} /\ recovery_end' = 0 /\ recovered' = a .. end
            \/ /\ recovery' # {} /\ recovery_end' = end /\ recovered' # {}
               /\ \A f \in recovery' : Least(f, recovery') => recovered' = a .. f - 1
<1>1. PICK f \in list :
        /\ Least(f, list)
        /\ recovery' = list \ {f}
        /\ \/ /\ list = {f}
              /\ recovered' = before \cup (f .. end)
              /\ recovery_end' = 0
           \/ \E g \in list \ {f} :
                /\ Least(g, list \ {f})
                /\ recovered' = before \cup (f .. g - 1)
                /\ recovery_end' = end
  BY DEF Recover, Popped
<1>2. before = a .. f - 1 /\ f \in a .. end
  BY <1>1
<1>3. CASE /\ list = {f}
           /\ recovered' = before \cup (f .. end)
           /\ recovery_end' = 0
  <2>1. recovered' = a .. end
    BY <1>2, <1>3 DEF Msgs
  <2> QED
    BY <1>1, <1>3, <2>1
<1>4. CASE \E g \in list \ {f} :
             /\ Least(g, list \ {f})
             /\ recovered' = before \cup (f .. g - 1)
             /\ recovery_end' = end
  <2>1. PICK g \in list \ {f} :
          /\ Least(g, list \ {f})
          /\ recovered' = before \cup (f .. g - 1)
          /\ recovery_end' = end
    BY <1>4
  <2>2. f < g /\ g \in a .. end
    BY <1>1, <1>2, <2>1 DEF Least, Msgs
  <2>3. recovered' = a .. g - 1
    BY <1>2, <2>1, <2>2 DEF Msgs
  <2>4. f \in recovered'
    BY <1>2, <2>2, <2>3 DEF Msgs
  <2>5. \A h \in recovery' : Least(h, recovery') => h = g
    BY <1>1, <2>1 DEF Least, Msgs
  <2>6. recovered' \subseteq a .. end
    BY <2>2, <2>3 DEF Msgs
  <2> QED
    BY <1>1, <2>1, <2>3, <2>4, <2>5, <2>6
<1> QED
  BY <1>1, <1>3, <1>4

----------------------------------------------------------------------------
(* Types and retransmission: whatever the two threads do.                  *)

Answering == TypeOK /\ Retransmitting /\ RecoveryExact

(* Both hold at the start, and every step keeps them.                      *)
LEMMA AnsweringInit == Init => Answering
<1> SUFFICES ASSUME Init
             PROVE  Answering
  OBVIOUS
<1>1. next_drop \in Nat
  BY SizeAssumption DEF Init
<1>2. TypeOK
  BY <1>1, SizeAssumption DEF Init, TypeOK, Positions, Msgs, NoClaim
<1>3. Retransmitting /\ RecoveryExact
  BY DEF Init, Retransmitting, RecoveryExact
<1> QED
  BY <1>2, <1>3 DEF Answering

(* Multicast and snapshot keep the types.                                  *)
LEMMA TypeKept ==
  ASSUME TypeOK, Multicast \/ Snapshot
  PROVE  TypeOK'
<1> USE DEF mcast, session, retransmission
<1>1. CASE SendPacket
  <2>1. LastOfPacket \in Msgs /\ next_packet .. LastOfPacket \subseteq Msgs
    BY <1>1, SizeAssumption DEF SendPacket, McastTurn, LastOfPacket, TypeOK, Positions, Msgs
  <2> QED
    BY <1>1, <2>1, SizeAssumption DEF SendPacket, TypeOK, Positions, Msgs
<1>2. CASE DropPacket
  <2>1. LastOfPacket \in Msgs /\ next_packet .. LastOfPacket \subseteq Msgs
    BY <1>2, SizeAssumption DEF DropPacket, McastTurn, LastOfPacket, TypeOK, Positions, Msgs
  <2>2. next_drop' \in Nat
    BY <1>2, SizeAssumption DEF DropPacket, TypeOK
  <2> QED
    BY <1>2, <2>1, <2>2, SizeAssumption DEF DropPacket, AfterDrop, TypeOK, Positions, Msgs
<1>3. CASE Login
  <2>1. kept' \in BOOLEAN
    BY <1>3, Zenon DEF Login, TypeOK
  <2>2. /\ main' \in {"poll", "item", "end", "end_login"} /\ logins' \in Nat
        /\ tested' \in 0 .. LastMsg + 1
    BY <1>3 DEF Login, TypeOK
  <2> QED
    BY <1>3, <2>1, <2>2 DEF Login, TypeOK
<1>4. CASE LoginRefused
  <2>1. open' \in BOOLEAN
    BY <1>4, Zenon DEF LoginRefused, TypeOK
  <2>2. main' \in {"poll", "item", "end", "end_login"} /\ logins' \in Nat
    BY <1>4 DEF LoginRefused, TypeOK
  <2> QED
    BY <1>4, <2>1, <2>2 DEF LoginRefused, TypeOK
<1>5. CASE Logout
  BY <1>5 DEF Logout, TypeOK
<1>6. CASE SendEnd
  BY <1>6 DEF SendEnd, AfterEnd, TypeOK
<1>7. CASE SendEndFails
  BY <1>7 DEF SendEndFails, TypeOK
<1>8. CASE SendItem
  <2>1. next_out \in Msgs /\ next_out + 1 \in Positions
    BY <1>8, SizeAssumption DEF SendItem, TypeOK, Positions, Msgs
  <2> QED
    BY <1>8, <2>1 DEF SendItem, TypeOK
<1>9. CASE SendItemFails
  BY <1>9 DEF SendItemFails, TypeOK
<1> QED
  BY <1>1, <1>2, <1>3, <1>4, <1>5, <1>6, <1>7, <1>8, <1>9 DEF Multicast, Snapshot

(* A packet of a request that runs from a to end leaves it answered so far. *)
LEMMA PacketAnswers ==
  ASSUME NEW a \in Msgs, NEW end \in Msgs,
         asked' = a .. end, a <= end,
         recovery' \subseteq a .. end,
         recovered' \subseteq a .. end,
         \/ recovery' = {} /\ recovery_end' = 0 /\ recovered' = a .. end
         \/ /\ recovery' # {} /\ recovery_end' = end /\ recovered' # {}
            /\ \A f \in recovery' : Least(f, recovery') => recovered' = a .. f - 1
  PROVE  /\ asked' \subseteq Msgs /\ recovery' \subseteq Msgs /\ recovered' \subseteq Msgs
         /\ recovery_end' \in 0 .. LastMsg
         /\ Retransmitting' /\ RecoveryExact'
<1>1. asked' \subseteq Msgs /\ a \in asked' /\ end > 0
  BY SizeAssumption DEF Msgs
<1>2. recovery' \subseteq asked' /\ recovered' \subseteq asked'
  BY Zenon
<1>3. recovery_end' \in 0 .. LastMsg
  BY SizeAssumption DEF Msgs
<1>4. CASE recovery' = {} /\ recovery_end' = 0 /\ recovered' = a .. end
  <2>1. Retransmitting'
    BY <1>4 DEF Retransmitting
  <2>2. recovered' = asked' /\ recovered' # {}
    BY <1>1, <1>4, Zenon
  <2>3. RecoveryExact'
    BY <2>2, Zenon DEF RecoveryExact
  <2> QED
    BY <1>1, <1>2, <1>3, <2>1, <2>3
<1>5. CASE /\ recovery' # {} /\ recovery_end' = end /\ recovered' # {}
           /\ \A f \in recovery' : Least(f, recovery') => recovered' = a .. f - 1
  <2>1. ~ (recovery_end' = 0)
    BY <1>1, <1>5
  <2>2. asked' = a .. recovery_end'
    BY <1>5
  <2>3. Retransmitting'
    BY <1>1, <1>2, <1>5, <2>1, <2>2, Zenon DEF Retransmitting
  <2>4. RecoveryExact'
    BY <1>2, <2>1 DEF RecoveryExact
  <2> QED
    BY <1>1, <1>2, <1>3, <2>3, <2>4
<1> QED
  BY <1>4, <1>5

(* A request, answered at once as far as its first packet or not at all.   *)
LEMMA RequestAnswering ==
  ASSUME Answering, NEW from \in Msgs, NEW to \in Msgs, Request(from, to)
  PROVE  Answering'
<1> USE DEF mcast, session
<1>1. asked' = from .. to /\ from <= to /\ asked' \subseteq Msgs
  BY SizeAssumption DEF Request, Msgs
<1>2. CASE Recover(RecoveryList(from, to), to, {})
  <2>1. RecoveryList(from, to) # {}
    BY <1>2 DEF Recover
  <2>2. RecoveryList(from, to) \in SUBSET (from .. to)
    BY <1>1, RecoveryListShape
  <2>3. Least(from, RecoveryList(from, to))
    BY <1>1, <2>1, RecoveryListShape
  <2>4. \A f \in RecoveryList(from, to) :
          Least(f, RecoveryList(from, to)) => {} = from .. f - 1
    BY <2>2, <2>3 DEF Least, Msgs
  <2>5. /\ recovery' \subseteq from .. to
        /\ recovered' \subseteq from .. to
        /\ \/ recovery' = {} /\ recovery_end' = 0 /\ recovered' = from .. to
           \/ /\ recovery' # {} /\ recovery_end' = to /\ recovered' # {}
              /\ \A f \in recovery' : Least(f, recovery') => recovered' = from .. f - 1
    BY <1>2, <2>2, <2>4, RecoverShape
  <2>6. /\ asked' \subseteq Msgs /\ recovery' \subseteq Msgs /\ recovered' \subseteq Msgs
        /\ recovery_end' \in 0 .. LastMsg
        /\ Retransmitting' /\ RecoveryExact'
    BY <1>1, <2>5, PacketAnswers
  <2>7. TypeOK'
    BY <2>6 DEF Answering, TypeOK, Request
  <2> QED
    BY <2>6, <2>7 DEF Answering
<1>3. CASE /\ RecoveryList(from, to) = {}
           /\ recovery_end' = 0 /\ recovered' = {} /\ UNCHANGED recovery
  <2>1. \A h \in Bundles : ~ (h >= from)
    BY <1>3, BundlesFound DEF RecoveryList
  <2>2. \A h \in Bundles, m \in asked' : h < m
    BY <1>1, <2>1 DEF Bundles, Msgs
  <2>3. recovery = {}
    BY DEF Request, Answering, Retransmitting
  <2>4. TypeOK'
    BY <1>1, <1>3 DEF Answering, TypeOK, Request
  <2>5. Retransmitting'
    BY <1>3, <2>3 DEF Retransmitting
  <2>6. RecoveryExact'
    BY <1>3, <2>2 DEF RecoveryExact
  <2> QED
    BY <2>4, <2>5, <2>6 DEF Answering
<1> QED
  BY <1>2, <1>3 DEF Request

(* The next packet of a request.                                           *)
LEMMA RecoverNextAnswering ==
  ASSUME Answering, RecoverNext
  PROVE  Answering'
<1> USE DEF mcast, session
<1>1. PICK a \in asked :
        /\ asked = a .. recovery_end
        /\ recovery \subseteq asked
        /\ \A f \in recovery : Least(f, recovery) => recovered = a .. f - 1
  BY DEF Answering, Retransmitting, RecoverNext
<1>2. a \in Msgs /\ recovery_end \in Msgs
  BY <1>1 DEF Answering, TypeOK, RecoverNext, Msgs
<1>3. /\ recovery' \subseteq a .. recovery_end
      /\ recovered' \subseteq a .. recovery_end
      /\ \/ recovery' = {} /\ recovery_end' = 0 /\ recovered' = a .. recovery_end
         \/ /\ recovery' # {} /\ recovery_end' = recovery_end /\ recovered' # {}
            /\ \A f \in recovery' : Least(f, recovery') => recovered' = a .. f - 1
  <2>1. recovery \in SUBSET (a .. recovery_end)
    BY <1>1
  <2>2. Recover(recovery, recovery_end, recovered)
    BY DEF RecoverNext
  <2>3. \A f \in recovery : Least(f, recovery) => recovered = a .. f - 1
    BY <1>1
  <2> HIDE DEF mcast, session
  <2> QED
    BY <1>2, <2>1, <2>2, <2>3, RecoverShape, SMTT(60)
<1>4. asked' = a .. recovery_end /\ a <= recovery_end
  BY <1>1, <1>2 DEF RecoverNext, Msgs
<1>5. /\ asked' \subseteq Msgs /\ recovery' \subseteq Msgs /\ recovered' \subseteq Msgs
      /\ recovery_end' \in 0 .. LastMsg
      /\ Retransmitting' /\ RecoveryExact'
  BY <1>2, <1>3, <1>4, PacketAnswers
<1>6. TypeOK'
  BY <1>5 DEF Answering, TypeOK, RecoverNext
<1> QED
  BY <1>5, <1>6 DEF Answering

(* Answering is inductive.                                                 *)
LEMMA AnsweringStep == Answering /\ [Next]_vars => Answering'
<1> SUFFICES ASSUME Answering, [Next]_vars
             PROVE  Answering'
  OBVIOUS
<1>1. CASE Multicast \/ Snapshot
  <2>1. TypeOK'
    BY <1>1, TypeKept DEF Answering
  <2>2. UNCHANGED retransmission
    BY <1>1 DEF Multicast, Snapshot, SendPacket, DropPacket, Login, LoginRefused, Logout,
                SendEnd, SendEndFails, SendItem, SendItemFails
  <2> QED
    BY <2>1, <2>2 DEF Answering, retransmission, Retransmitting, RecoveryExact, Least
<1>2. CASE RecoverNext
  BY <1>2, RecoverNextAnswering
<1>3. ASSUME NEW from \in Msgs, NEW to \in Msgs, Request(from, to)
      PROVE  Answering'
  BY <1>3, RequestAnswering
<1>4. CASE UNCHANGED vars
  BY <1>4 DEF Answering, TypeOK, Retransmitting, RecoveryExact, Least,
              vars, mcast, session, retransmission
<1> QED
  BY <1>1, <1>2, <1>3, <1>4 DEF Next, Retransmission

(* TypeOK is an invariant, whatever the two threads do.                    *)
THEOREM ExchangeTypeCorrect == Spec => []TypeOK
<1>1. Spec => []Answering
  BY AnsweringInit, AnsweringStep, PTL DEF Spec
<1>2. Answering => TypeOK
  BY DEF Answering
<1> QED
  BY <1>1, <1>2, PTL

(* Retransmissions are exact: what send_recovery_packet sends is what was  *)
(* asked for.                                                              *)
THEOREM Retransmits == Spec => []RecoveryExact
<1>1. Spec => []Answering
  BY AnsweringInit, AnsweringStep, PTL DEF Spec
<1>2. Answering => RecoveryExact
  BY DEF Answering
<1> QED
  BY <1>1, <1>2, PTL

----------------------------------------------------------------------------
(* The snapshot: whatever the multicast thread does between the test of    *)
(* main and its end message.                                               *)

Joined == TypeOK /\ Serving /\ Passed

(* Nothing has been sent at the start.                                     *)
LEMMA JoinedInit == Init => Joined
<1> SUFFICES ASSUME Init
             PROVE  Joined
  OBVIOUS
<1>1. TypeOK
  BY AnsweringInit DEF Answering
<1>2. 1 .. next_out - 1 = {} /\ FirstSeqno .. next_packet - 1 = {}
  BY SizeAssumption DEF Init
<1>3. Serving /\ Passed
  BY <1>2, SizeAssumption DEF Init, Serving, Passed, Ending
<1> QED
  BY <1>1, <1>3 DEF Joined

(* The multicast only moves its own position, and on.                      *)
LEMMA JoinedMulticast ==
  ASSUME Joined, Multicast
  PROVE  Serving' /\ Passed' /\ (next_mcast' = next_mcast \/ next_mcast' > next_mcast)
<1> USE SizeAssumption DEF Joined, TypeOK, Positions
<1>1. /\ LastOfPacket \in Nat /\ next_packet <= LastOfPacket
      /\ LastOfPacket + 1 > FirstSeqno
      /\ LastOfPacket + 1 > next_mcast
  BY DEF Passed, Multicast, SendPacket, DropPacket, McastTurn, LastOfPacket, Msgs
<1>2. next_packet' = LastOfPacket + 1 /\ UNCHANGED <<session, main>>
  BY DEF Multicast, SendPacket, DropPacket, AfterDrop
<1>3. next_mcast' = LastOfPacket + 1 \/ next_mcast' = next_mcast
  BY DEF Multicast, SendPacket, DropPacket
<1>4. sent' \cup dropped' = (sent \cup dropped) \cup (next_packet .. LastOfPacket)
  BY DEF Multicast, SendPacket, DropPacket
<1>5. Serving'
  BY <1>2 DEF Serving, Ending, session
<1>6. Passed'
  BY <1>1, <1>2, <1>3, <1>4 DEF Passed, session
<1> QED
  BY <1>1, <1>3, <1>5, <1>6

(* main tests a position the items have reached, or the login is ahead of. *)
LEMMA JoinedSnapshot ==
  ASSUME Joined, Snapshot
  PROVE  Serving' /\ Passed'
<1> USE SizeAssumption DEF Joined, mcast
<1>1. CASE Login
  BY <1>1 DEF Login, ClientTurn, TypeOK, Serving, Passed, Ending
<1>2. CASE LoginRefused
  BY <1>2 DEF LoginRefused, ClientTurn, TypeOK, Serving, Passed, Ending
<1>3. CASE Logout
  BY <1>3 DEF Logout, ClientTurn, TypeOK, Serving, Passed, Ending
<1>4. CASE SendEnd
  BY <1>4 DEF SendEnd, AfterEnd, TypeOK, Serving, Passed, Ending
<1>5. CASE SendEndFails
  BY <1>5 DEF SendEndFails, TypeOK, Serving, Passed, Ending
<1>6. CASE SendItem
  <2>1. items' = 1 .. next_out' - 1
    BY <1>6 DEF SendItem, TypeOK, Serving, Positions
  <2>2. tested' > Asked => tested' <= next_out'
    BY <1>6 DEF SendItem, SnapshotOver, TypeOK, Serving, Positions
  <2>3. Serving'
    BY <1>6, <2>1, <2>2 DEF SendItem, ItemTurn, TypeOK, Serving, Ending, Positions
  <2> QED
    BY <1>6, <2>3 DEF SendItem, Passed
<1>7. CASE SendItemFails
  BY <1>7 DEF SendItemFails, session, TypeOK, Serving, Passed, Ending
<1> QED
  BY <1>1, <1>2, <1>3, <1>4, <1>5, <1>6, <1>7 DEF Snapshot

(* Joined is inductive, beside Answering.                                  *)
LEMMA JoinedStep == Answering /\ Joined /\ [Next]_vars => Joined'
<1> SUFFICES ASSUME Answering, Joined, [Next]_vars
             PROVE  Joined'
  OBVIOUS
<1>1. TypeOK'
  BY AnsweringStep DEF Answering
<1>2. CASE Multicast
  BY <1>1, <1>2, JoinedMulticast DEF Joined
<1>3. CASE Snapshot
  BY <1>1, <1>3, JoinedSnapshot DEF Joined
<1>4. CASE Retransmission \/ UNCHANGED vars
  <2>1. UNCHANGED <<mcast, session, main>>
    BY <1>4 DEF Retransmission, RecoverNext, Request, vars
  <2> QED
    BY <1>1, <2>1 DEF Joined, Serving, Passed, Ending, mcast, session
<1> QED
  BY <1>2, <1>3, <1>4 DEF Next

(* Inv is an invariant of the two threads of the exchange.                 *)
THEOREM ExchangeInvHolds == Spec => []Inv
<1>1. Spec => []Answering
  BY AnsweringInit, AnsweringStep, PTL DEF Spec
<1>2. Answering /\ Joined /\ [Next]_vars => Joined'
  BY JoinedStep
<1>3. Spec => []Joined
  BY <1>1, <1>2, JoinedInit, PTL DEF Spec
<1>4. Answering /\ Joined => Inv
  BY DEF Answering, Joined, Inv
<1> QED
  BY <1>1, <1>3, <1>4, PTL

(* Snapshot and multicast join at the position main tested, and together   *)
(* miss only what was dropped on purpose.                                  *)
THEOREM HandsOver == Spec => []HandOver
<1>1. Inv => HandOver
  <2> SUFFICES ASSUME Inv, tested > 0, NEW m \in Asked .. next_packet - 1
               PROVE  IF m < tested THEN m \in items ELSE m \in sent \cup dropped
    BY DEF HandOver
  <2> USE SizeAssumption DEF Inv, TypeOK, Positions
  <2>1. m \in Nat /\ Asked <= m /\ m <= next_packet - 1 /\ 1 <= m
    OBVIOUS
  <2>2. FirstSeqno < tested
    BY DEF Passed
  <2>3. CASE m < tested
    BY <2>1, <2>3 DEF Serving
  <2>4. CASE ~ (m < tested)
    BY <2>1, <2>2, <2>4 DEF Passed, Msgs
  <2> QED
    BY <2>3, <2>4
<1> QED
  BY <1>1, ExchangeInvHolds, PTL

----------------------------------------------------------------------------
(* The refinement of SnapshotServer.                                       *)

(* A channel begins as an idle server.                                     *)
LEMMA ServerInit == Init => Server!Init
<1> SUFFICES ASSUME Init
             PROVE  Server!Init
  OBVIOUS
<1>1. /\ ~ Broken /\ ~ Ending /\ next_out - 1 = 0 /\ claim = NoClaim
      /\ snapshot = "none" /\ next_mcast = 0
  BY DEF Init, Broken, Ending
<1> QED
  BY <1>1 DEF Server!Init, NoClaim

(* What SnapshotServer sees of a channel, broken or not.                   *)
LEMMA ServerBreaks ==
  ASSUME Broken', UNCHANGED next_mcast
  PROVE  [Server!Next]_(Server!vars)
<1>1. CASE Broken
  BY <1>1 DEF Server!vars
<1>2. CASE ~ Broken
  <2>1. Server!Break
    BY <1>2 DEF Server!Break, NoClaim
  <2> QED
    BY <2>1 DEF Server!Next
<1> QED
  BY <1>1, <1>2

(* A step that touches none of these is a stutter of the server.           *)
LEMMA ServerSees ==
  ASSUME UNCHANGED <<snapshot, next_out, claim, kept, open, next_mcast, Ending>>
  PROVE  UNCHANGED (Server!vars)
BY DEF Server!vars, Broken

(* Every step of the channel is one of SnapshotServer, or none.            *)
LEMMA ServerStep == Joined /\ [Next]_vars => [Server!Next]_(Server!vars)
<1> SUFFICES ASSUME Joined, [Next]_vars
             PROVE  [Server!Next]_(Server!vars)
  OBVIOUS
<1>1. CASE Snapshot /\ Broken'
  <2>1. UNCHANGED next_mcast
    BY <1>1 DEF Snapshot, Login, LoginRefused, Logout, SendEnd, SendEndFails, SendItem,
                SendItemFails, mcast
  <2> QED
    BY <1>1, <2>1, ServerBreaks
<1>2. CASE ~ Broken' /\ Login
  <2>1. /\ ~ Broken /\ ~ Ending /\ snapshot' = "on" /\ UNCHANGED <<next_out, claim, next_mcast>>
    BY <1>2, Zenon DEF Login, Broken, ClientTurn, Joined, TypeOK, mcast, Ending
  <2>2. snapshot \in {"none", "on", "ended"}
    BY DEF Joined, TypeOK
  <2>3. Ending' <=> Asked >= next_mcast
    BY <1>2, SizeAssumption DEF Login, Ending, Joined, TypeOK
  <2> QED
    BY <1>2, <2>1, <2>2, <2>3 DEF Server!Next, Server!Accept, Server!Serve, Server!vars
<1>3. CASE ~ Broken' /\ SendEnd
  <2>1. /\ ~ Broken /\ ~ Ending' /\ snapshot' = "ended"
        /\ claim' = next_mcast /\ UNCHANGED <<next_out, next_mcast>>
    BY <1>3 DEF SendEnd, AfterEnd, Broken, Ending, mcast
  <2>2. Server!End
    BY <1>3, <2>1 DEF Server!End, SendEnd
  <2> QED
    BY <2>2 DEF Server!Next
<1>4. CASE ~ Broken' /\ SendItem
  <2>1. /\ ~ Broken /\ ~ Ending /\ snapshot = "on" /\ UNCHANGED <<snapshot, claim, next_mcast>>
        /\ next_out' = next_out + 1
    BY <1>4 DEF SendItem, ItemTurn, Broken, Ending, Joined, Serving, mcast
  <2>2. next_out' - 1 = (next_out - 1) + 1 /\ (next_out' - 1) + 1 = next_out + 1
    BY <2>1 DEF Joined, TypeOK, Positions
  <2>3. Ending' <=> next_out + 1 >= next_mcast
    BY <1>4 DEF SendItem, SnapshotOver, Ending
  <2>4. Server!Item
    BY <1>4, <2>1, <2>2, <2>3 DEF Server!Item, Server!Serve
  <2> QED
    BY <2>4 DEF Server!Next
<1>5. CASE LoginRefused \/ Logout \/ SendEndFails
  <2>1. Broken'
    BY <1>5 DEF LoginRefused, Logout, SendEndFails, Broken
  <2> QED
    BY <1>1, <1>5, <2>1 DEF Snapshot
<1>6. CASE Multicast
  <2>1. next_mcast' = next_mcast \/ next_mcast' > next_mcast
    BY <1>6, JoinedMulticast
  <2>2. UNCHANGED <<snapshot, next_out, claim, kept, open, Ending>>
    BY <1>6 DEF Multicast, SendPacket, DropPacket, session, Ending
  <2> QED
    BY <2>1, <2>2, ServerSees DEF Server!Next, Server!Advance, Server!vars, Broken
<1>7. CASE Retransmission \/ SendItemFails \/ UNCHANGED vars
  <2>1. UNCHANGED <<snapshot, next_out, claim, kept, open, next_mcast, Ending>>
    BY <1>7 DEF Retransmission, Request, RecoverNext, SendItemFails, session, mcast, vars, Ending
  <2> QED
    BY <2>1, ServerSees
<1> QED
  BY <1>1, <1>2, <1>3, <1>4, <1>5, <1>6, <1>7 DEF Next, Snapshot

(* The channel keeps the promise of SnapshotServer.                        *)
THEOREM ServerImplemented == Spec => ServerSpec
<1>1. Inv => Joined
  BY DEF Inv, Joined
<1>2. Inv /\ [Next]_vars => [Server!Next]_(Server!vars)
  BY <1>1, ServerStep
<1> QED
  BY <1>2, ServerInit, ExchangeInvHolds, PTL DEF Spec, ServerSpec, Server!Spec
=============================================================================
