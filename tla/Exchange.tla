------------------------------ MODULE Exchange ------------------------------
(***************************************************************************)
(* One channel of the exchange simulator (ASX_Test_Handler, driven by      *)
(* start_exchange of pcap_simulator).  Two threads share it without a      *)
(* lock:                                                                   *)
(*   - the multicast thread, start_multicast, which sends the feed packet  *)
(*     by packet from FirstSeqno on and drops one now and then;            *)
(*   - the main loop, poll_one and check_write_event in turn, which        *)
(*     answers logins, streams the snapshot over TCP and serves requests   *)
(*     for retransmission.                                                 *)
(* The messages of the feed, 1 .. LastMsg, are loaded before either runs.  *)
(* Heartbeats, bodies, and the pace of the sends are left out: whatever    *)
(* waits for a time may happen at any time.                                *)
(*                                                                         *)
(* An operator Name_Variant, before the operator Name, is what Name would  *)
(* be under a plausible mistake in the code.                               *)
(***************************************************************************)
EXTENDS Integers, FiniteSets

CONSTANTS
  LastMsg,     \* messages of the channel in the data file
  PacketSize,  \* m_packet_size: messages in a multicast packet, and in a bundle
  FirstSeqno,  \* m_first_seqno: where the multicast begins
  DropEvery,   \* m_drop_packet_frequency
  Asked,       \* seqno of the login, 1 in the client of the repository
  MaxLogins,   \* logins on the connection (bound)
  Faults       \* what may go wrong in this instance, a subset of AllFaults

AllFaults ==
  { "send",      \* a non-blocking send on the snapshot socket fails
    "refused" }  \* a login with an unknown user or password

ASSUME SizeAssumption ==
  /\ LastMsg \in Nat \ {0}
  /\ PacketSize \in Nat \ {0}
  /\ FirstSeqno \in 1 .. LastMsg
  /\ DropEvery \in Nat \ {0}
  /\ Asked \in Nat \ {0}
  /\ MaxLogins \in Nat

ASSUME FaultAssumption == Faults \subseteq AllFaults

Msgs == 1 .. LastMsg
Positions == 1 .. LastMsg + 1
NoClaim == -1

(* pack_seqno_list: the first message of each bundle; a bundle that would  *)
(* begin at the very last message is left out.                             *)
Bundles == { m \in Msgs : (m - 1) % PacketSize = 0 /\ m < LastMsg }

VARIABLES
  next_packet,   \* next_packet_seqno, of the multicast thread
  next_drop,     \* m_next_drop_seqno
  next_mcast,    \* next_mcast_packet, written by multicast and read by main
  next_out,      \* next_out_seqno, the next item of the snapshot
  snapshot,      \* snapshot_last_seqno: "none" is 0, "on" positive, "ended" -1
  open,          \* snapshot_skt is open
  main,          \* where the main loop is: "poll"; "item", on its way to
                 \* send_snapshot_message; "end" and "end_login", past the test
                 \* of next_mcast_packet in send_snapshot_message, confirm_login
  recovery,      \* recovery_packet_seqno_list: where the packets to send begin
  recovery_end,  \* recovery_end_seqno, 0 when no request is being served
  items,         \* history: messages sent as items
  tested,        \* history: next_mcast when main last found the snapshot over
  claim,         \* history: the number in the last end message
  kept,          \* history: no login refused, no message lost
  logins,        \* history: logins received
  sent,          \* history: messages sent on the multicast
  dropped,       \* history: messages dropped on purpose
  asked,         \* history: the messages of the last request
  recovered      \* history: those of them sent again

mcast == <<next_packet, next_drop, next_mcast, sent, dropped>>
session == <<next_out, snapshot, open, items, tested, claim, kept, logins>>
retransmission == <<recovery, recovery_end, asked, recovered>>
vars == <<mcast, session, main, retransmission>>

TypeOK ==
  /\ next_packet \in Positions
  /\ next_drop \in Nat
  /\ next_mcast \in 0 .. LastMsg + 1
  /\ next_out \in Positions
  /\ snapshot \in {"none", "on", "ended"}
  /\ open \in BOOLEAN
  /\ main \in {"poll", "item", "end", "end_login"}
  /\ recovery \subseteq Msgs /\ recovery_end \in 0 .. LastMsg
  /\ items \subseteq Msgs
  /\ tested \in 0 .. LastMsg + 1
  /\ claim \in {NoClaim} \cup 0 .. LastMsg + 1
  /\ kept \in BOOLEAN
  /\ logins \in Nat
  /\ sent \subseteq Msgs /\ dropped \subseteq Msgs
  /\ asked \subseteq Msgs /\ recovered \subseteq Msgs

----------------------------------------------------------------------------
(* The multicast thread: send_next_packet, at any time.                    *)

LastOfPacket == next_packet + PacketSize - 1

(* Bound: the code goes on past the last message of the list.              *)
McastTurn == LastOfPacket <= LastMsg

SendPacket ==
  /\ McastTurn
  /\ LastOfPacket <= next_drop
  /\ next_packet' = LastOfPacket + 1
  /\ next_mcast' = LastOfPacket + 1
  /\ sent' = sent \cup (next_packet .. LastOfPacket)
  /\ UNCHANGED <<next_drop, dropped, session, main, retransmission>>

(* The skip to a random position is overwritten by                         *)
(* update_channel_seqno_time; next_mcast_packet stays behind the drop.     *)
AfterDrop_Random(last) == last + 11
AfterDrop(last) == last + 1

DropPacket ==
  /\ McastTurn
  /\ LastOfPacket > next_drop
  /\ next_packet' = AfterDrop(LastOfPacket)
  /\ next_drop' = next_drop + DropEvery
  /\ dropped' = dropped \cup (next_packet .. LastOfPacket)
  /\ UNCHANGED <<next_mcast, sent, session, main, retransmission>>

----------------------------------------------------------------------------
(* The main loop, the snapshot: process_client_data and check_write_event. *)

(* Past the test that found the snapshot over, before the end is sent: the *)
(* end reads next_mcast_packet again.                                      *)
Ending == main \in {"end", "end_login"}

ClientTurn == main = "poll" /\ open

(* confirm_login, to the test of next_mcast_packet; the accept may be lost *)
Login ==
  /\ ClientTurn
  /\ logins < MaxLogins /\ logins' = logins + 1
  /\ snapshot' = "on"
  /\ \/ Asked >= next_mcast /\ main' = "end_login" /\ tested' = next_mcast
     \/ Asked < next_mcast /\ main' = "item" /\ UNCHANGED tested
  /\ \/ UNCHANGED kept
     \/ "send" \in Faults /\ kept' = FALSE
  /\ UNCHANGED <<mcast, next_out, open, items, claim, retransmission>>

(* A refused client is told nothing, and send_snapshot_message called all  *)
(* the same; it closes the socket when the snapshot is long over.          *)
LoginRefused ==
  /\ ClientTurn
  /\ "refused" \in Faults
  /\ logins < MaxLogins /\ logins' = logins + 1
  /\ kept' = FALSE
  /\ \/ snapshot = "ended" /\ open' \in BOOLEAN /\ UNCHANGED main
     \/ snapshot # "ended" /\ main' = "item" /\ UNCHANGED open
  /\ UNCHANGED <<mcast, next_out, snapshot, items, tested, claim, retransmission>>

Logout ==
  /\ ClientTurn
  /\ logins > 0
  /\ open' = FALSE
  /\ UNCHANGED <<mcast, next_out, snapshot, items, tested, claim, kept, logins, main,
                 retransmission>>

(* send_end_snapshot, for a snapshot that is over or for a login that is   *)
(* ahead of the multicast.                                                 *)
AfterEnd_Forgotten == UNCHANGED snapshot
AfterEnd == snapshot' = "ended"

SendEnd ==
  /\ Ending
  /\ main' = "poll"
  /\ claim' = next_mcast
  /\ AfterEnd
  /\ UNCHANGED <<mcast, next_out, open, items, tested, kept, logins, retransmission>>

(* The end is not sent again: send_snapshot_message sets its mark all the  *)
(* same; after a login the items go on.                                    *)
SendEndFails ==
  /\ "send" \in Faults
  /\ \/ main = "end" /\ main' = "poll" /\ snapshot' = "ended"
     \/ main = "end_login" /\ main' = "item" /\ UNCHANGED snapshot
  /\ kept' = FALSE
  /\ UNCHANGED <<mcast, next_out, open, items, tested, claim, logins, retransmission>>

(* send_snapshot_message, to the test of next_mcast_packet                 *)
ItemTurn == main = "item" \/ (main = "poll" /\ snapshot = "on")
SnapshotOver_OneEarly(next) == next + 1 >= next_mcast
SnapshotOver(next) == next >= next_mcast

SendItem ==
  /\ ItemTurn /\ open
  /\ next_out <= LastMsg
  /\ next_out' = next_out + 1
  /\ items' = items \cup {next_out}
  /\ IF SnapshotOver(next_out + 1)
     THEN main' = "end" /\ tested' = next_mcast
     ELSE main' = "poll" /\ UNCHANGED tested
  /\ UNCHANGED <<mcast, snapshot, open, claim, kept, logins, retransmission>>

(* Tried again at the next turn of the loop.                               *)
SendItemFails ==
  /\ main = "item" /\ main' = "poll"
  /\ "send" \in Faults
  /\ UNCHANGED <<mcast, session, retransmission>>

----------------------------------------------------------------------------
(* The main loop, retransmission: parse and check_write_event.             *)

Least(f, S) == f \in S /\ \A g \in S : f <= g
Greatest(f, S) == f \in S /\ \A g \in S : g <= f

(* create_recovery_list: the bundles from the first message asked for, up  *)
(* to and with the first that begins past the last one.  The first entry   *)
(* is then moved back to from and the last, if it is another, to to.       *)
BundlesFor(from, to) ==
  { h \in Bundles : h >= from /\ \A g \in Bundles : from <= g /\ g < h => g <= to }
RecoveryList_EndKept(from, to) ==
  { IF Least(h, BundlesFor(from, to)) THEN from ELSE h : h \in BundlesFor(from, to) }
RecoveryList(from, to) ==
  { IF Least(h, BundlesFor(from, to)) THEN from
    ELSE IF Greatest(h, BundlesFor(from, to)) THEN to ELSE h
    : h \in BundlesFor(from, to) }

(* send_recovery_packet: from the first entry of the list to the next one, *)
(* or to the end.  Two equal entries, an empty packet, are one here.       *)
Popped_Kept(list, f) == list
Popped(list, f) == list \ {f}

Recover(list, end, before) ==
  \E f \in list :
    /\ Least(f, list)
    /\ recovery' = Popped(list, f)
    /\ \/ /\ list = {f}
          /\ recovered' = before \cup (f .. end)
          /\ recovery_end' = 0
       \/ \E g \in list \ {f} :
            /\ Least(g, list \ {f})
            /\ recovered' = before \cup (f .. g - 1)
            /\ recovery_end' = end

(* Bound: the client asks for what it has missed below a packet it got,    *)
(* and has one request served at a time.                                   *)
Request(from, to) ==
  /\ main = "poll"
  /\ recovery_end = 0
  /\ from <= to /\ to < next_mcast
  /\ asked' = from .. to
  /\ \/ Recover(RecoveryList(from, to), to, {})
     \/ /\ RecoveryList(from, to) = {}
        /\ recovery_end' = 0 /\ recovered' = {} /\ UNCHANGED recovery
  /\ UNCHANGED <<mcast, session, main>>

RecoverNext ==
  /\ main = "poll"
  /\ recovery_end > 0
  /\ Recover(recovery, recovery_end, recovered)
  /\ UNCHANGED <<mcast, session, main, asked>>

----------------------------------------------------------------------------
Init ==
  /\ next_packet = FirstSeqno
  /\ next_drop = DropEvery * ((FirstSeqno + DropEvery - 1) \div DropEvery)
  /\ next_mcast = 0
  /\ next_out = 1 /\ snapshot = "none" /\ open = TRUE
  /\ main = "poll"
  /\ recovery = {} /\ recovery_end = 0
  /\ items = {} /\ tested = 0 /\ claim = NoClaim /\ kept = TRUE /\ logins = 0
  /\ sent = {} /\ dropped = {} /\ asked = {} /\ recovered = {}

Multicast == SendPacket \/ DropPacket
Snapshot ==
  Login \/ LoginRefused \/ Logout \/ SendEnd \/ SendEndFails \/ SendItem \/ SendItemFails
Retransmission == RecoverNext \/ \E from, to \in Msgs : Request(from, to)

Next == Multicast \/ Snapshot \/ Retransmission

Spec == Init /\ [][Next]_vars

(* The thread of main goes on between its steps; check_write_event comes   *)
(* to the channel at every turn of the loop, and the pause between two     *)
(* recovery packets passes.                                                *)
Busy == Snapshot /\ main # "poll"
FairSpec == Spec /\ WF_vars(Busy) /\ SF_vars(RecoverNext)

----------------------------------------------------------------------------
(* Safety.                                                                 *)

(* Snapshot and multicast join where main tested next_mcast_packet, though *)
(* the multicast thread runs on before the end is sent, and after it: what *)
(* a login asked for below that position was an item, and what the feed    *)
(* has reached from there on was sent or dropped on purpose.  A test that  *)
(* found no multicast yet (0) promises nothing.                            *)
HandOver ==
  tested > 0 => \A m \in Asked .. next_packet - 1 :
                  IF m < tested THEN m \in items ELSE m \in sent \cup dropped

(* A request is answered with the messages asked for and no other, and     *)
(* with all of them when it is done, unless it begins past the last        *)
(* bundle, when there is no answer at all.                                 *)
RecoveryExact ==
  /\ recovered \subseteq asked
  /\ recovery_end = 0 => recovered \in {{}, asked}
  /\ recovery_end = 0 /\ recovered = {} => \A h \in Bundles, m \in asked : h < m

(* The channel keeps the promise of SnapshotServer.                        *)
Broken == ~ kept \/ ~ open
Server == INSTANCE SnapshotServer WITH
  phase <- IF Broken THEN "off"
           ELSE IF Ending THEN "due"
           ELSE IF snapshot = "on" THEN "streaming"
           ELSE IF snapshot = "ended" THEN "ended" ELSE "idle",
  upto <- IF Broken THEN 0 ELSE next_out - 1,
  claim <- IF Broken THEN NoClaim ELSE claim,
  feed <- next_mcast

ServerSpec == Server!Spec

(* Why: main has tested a position the items have reached, the multicast   *)
(* only moves on from there, and it accounts for every message it passes.  *)
Serving ==
  /\ items = 1 .. next_out - 1
  /\ tested > Asked => tested <= next_out
  /\ main = "end_login" => snapshot = "on"
  /\ Ending \/ main = "item" => open
  /\ Ending /\ kept => snapshot = "on"
  /\ main = "item" => snapshot # "ended"
  /\ main = "item" /\ kept => snapshot = "on"
  /\ snapshot = "none" /\ kept => next_out = 1
Passed ==
  /\ FirstSeqno <= next_packet
  /\ sent \cup dropped = FirstSeqno .. next_packet - 1
  /\ next_mcast = 0 \/ FirstSeqno < next_mcast
  /\ next_mcast <= next_packet
  /\ tested = 0 \/ FirstSeqno < tested
Retransmitting ==
  /\ recovery_end = 0 <=> recovery = {}
  /\ recovery_end > 0 =>
       /\ asked # {} /\ recovered # {}
       /\ \E a \in asked :
            /\ asked = a .. recovery_end
            /\ recovery \subseteq asked
            /\ \A f \in recovery : Least(f, recovery) => recovered = a .. f - 1

Inv == TypeOK /\ Serving /\ Passed /\ Retransmitting /\ RecoveryExact

----------------------------------------------------------------------------
(* Liveness.                                                               *)

(* A request that has begun to be answered is answered in full.            *)
RequestAnswered == recovery_end > 0 ~> recovery_end = 0 /\ recovered = asked

=============================================================================
