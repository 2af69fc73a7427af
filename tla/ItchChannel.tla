---------------------------- MODULE ItchChannel ----------------------------
(***************************************************************************)
(* One channel of the ASX ITCH client (ASX_ITCH_1_1_Handler, default       *)
(* build): the multicast feed, the TCP snapshot ("refresh") that precedes  *)
(* it, and the queue that holds multicast packets back until the snapshot  *)
(* is over.  Three parties act on it:                                      *)
(*   - the thread in ASX_ITCH_Session::start, inside try_connect_snapshot; *)
(*   - the dispatcher thread, which calls parse for a multicast packet and *)
(*     read for the bytes, or the write wake-up, of the TCP socket;        *)
(*   - the environment: packets lost, repeated and reordered, the snapshot *)
(*     server, the clock.                                                  *)
(* Messages of the feed are their sequence numbers.  Heartbeats sent to    *)
(* the server, sessions, the recorder and the message bodies are left out. *)
(*                                                                         *)
(* An operator Name_Variant, before the operator Name, is what Name would  *)
(* be under a plausible mistake in the code.                               *)
(***************************************************************************)
EXTENDS Integers, FiniteSets, Functions

CONSTANTS
  MaxMsg,      \* last message of the feed (bound)
  MaxCount,    \* most messages in one packet (bound)
  MaxHeld,     \* most packets held in the queue (bound)
  RejectSize,  \* a failed connect gives up when the queue is longer (5 in the code)
  Accepts,     \* numbers an 'A' of the server may carry; the login asks for 1
  Faults,      \* what may go wrong in this instance, a subset of AllFaults
  StartRace    \* TRUE: the dispatcher may run while the starting thread is
               \* between its test of snapshot_is_on and its last assignment

AllFaults ==
  { "connect",     \* connect_tcp to the snapshot server fails
    "send",        \* a send on the snapshot socket fails
    "reject",      \* the server answers a login with 'J'
    "timeout",     \* m_snapshot_timeout_time passes
    "eof",         \* the server closes before its snapshot is complete
    "request",     \* sendto of a retransmission request fails
    "norecovery" } \* begin_recovery declines, the gap is skipped

ASSUME BoundAssumption ==
  /\ MaxMsg \in Nat \ {0}
  /\ MaxCount \in Nat \ {0}
  /\ MaxHeld \in Nat \ {0}
  /\ RejectSize \in Nat

ASSUME AcceptAssumption == Accepts \subseteq 1 .. MaxMsg + 1

ASSUME FaultAssumption == Faults \subseteq AllFaults /\ StartRace \in BOOLEAN

Msgs == 1 .. MaxMsg
Positions == 1 .. MaxMsg + 1

(* A downstream packet holds messages seq .. next-1; with next = seq it is *)
(* a heartbeat.                                                            *)
Frames == { p \in [seq : Positions, next : Positions] :
              p.seq <= p.next /\ p.next <= p.seq + MaxCount }
Packets == { p \in Frames : p.seq < p.next }
Carries(p) == p.seq .. p.next - 1

VARIABLES
  seq_no,        \* channel_info::seq_no, the next message expected
  last_update,   \* channel_info::last_update.is_set()
  queue,         \* channel_info::queue: copies of each packet held
  in_refresh,    \* Channel_State::m_in_refresh_state
  rejected,      \* Channel_State::m_refresh_rejected
  timer,         \* Channel_State::m_snapshot_timeout_time: "off" is 0
  retransmit,    \* m_in_retransmit_state, m_recovery_seqno, m_recovery_end_seqno
  snapshot_is_on,
  connected,     \* snapshot_socket.connected()
  snapshot_msg_received,
  start,         \* where the starting thread is in try_connect_snapshot
  tcp,           \* the dispatcher and the TCP descriptor: nothing to do, a
                 \* wake-up pending, or in the read loop of poll_one
  server,        \* the snapshot server, as its messages show it
  live,          \* history: messages applied from multicast packets
  twice,         \* history: those of them applied more than once
  snap,          \* history: messages applied from the snapshot
  logins,        \* history: logins sent
  ending         \* history: how the refresh ended

feed == <<seq_no, last_update, queue, live, twice>>
state == <<in_refresh, rejected, timer, retransmit>>
socket == <<snapshot_is_on, connected, logins>>
stream == <<server, snapshot_msg_received, snap>>
vars == <<feed, state, socket, stream, start, tcp, ending>>

TypeOK ==
  /\ seq_no \in Positions
  /\ last_update \in BOOLEAN
  /\ queue \in [Packets -> Nat]
  /\ in_refresh \in BOOLEAN /\ rejected \in BOOLEAN
  /\ timer \in {"off", "armed", "expired"}
  /\ retransmit \in [on : BOOLEAN, from : Positions, to : 0 .. MaxMsg]
  /\ snapshot_is_on \in BOOLEAN /\ connected \in BOOLEAN
  /\ snapshot_msg_received \in 0 .. MaxMsg
  /\ start \in {"connect", "login", "send", "arm", "done"}
  /\ tcp \in {"quiet", "woken", "reading"}
  /\ server \in {"idle", "asked", "streaming", "ended", "closed"}
  /\ live \subseteq Msgs /\ twice \subseteq Msgs /\ snap \subseteq Msgs
  /\ logins \in Nat
  /\ ending \in {"none", "complete", "abandoned"}

----------------------------------------------------------------------------
(* The queue and the messages handed to parse_message.                     *)

Held == { p \in Packets : queue[p] > 0 }
Size == FoldFunction(LAMBDA n, m : n + m, 0, queue)
Push(p) == Size < MaxHeld /\ queue' = [queue EXCEPT ![p] = @ + 1]
KeepFrom(n) == queue' = [p \in Packets |-> IF p.seq >= n THEN queue[p] ELSE 0]

(* once: the messages applied at least once; more: those applied again in  *)
(* the same call.                                                          *)
Applied(once, more) ==
  /\ live' = live \cup once
  /\ twice' = twice \cup (live \cap once) \cup more

Covered(s) == \E p \in Held : s \in Carries(p)
Straddled_FromHere(s) == \E p \in Held : p.seq <= s /\ s < p.next
Straddled(s) == \E p \in Held : p.seq < s /\ s < p.next

(* channel_info::process_recovery (library): from c, the queued packets    *)
(* that continue the feed carry it to f.                                   *)
Contiguous(c, f) ==
  /\ \A s \in c .. f - 1 : Covered(s)
  /\ ~ Covered(f)

(* The loop of process_MDQ pops packets in order of seq.  One that starts  *)
(* below seq_no and reaches past it carries seq_no to its end; one that    *)
(* starts at seq_no goes to parse2, which applies it and leaves seq_no     *)
(* where it is; the first that starts above seq_no ends the loop with a    *)
(* retransmission request.  MdqLoop checks this closed form.               *)
DrainStop(f) ==
  /\ f >= seq_no
  /\ \A s \in seq_no .. f - 1 : Straddled(s)
  /\ ~ Straddled(f)

Heads(f) == { p \in Held : p.seq = f }
Beyond(f) == { p \in Held : p.seq > f }
HeadTwice(f) ==
  { m \in Msgs : \E p, q \in Heads(f) :
      m \in Carries(p) \cap Carries(q) /\ (p # q \/ queue[p] > 1) }

RequestUpTo_TopToo(p) == p.seq
RequestUpTo_TopsEnd(p) == p.next
RequestUpTo(p) == p.seq - 1

RequestRetransmit(f) ==
  \E top \in Beyond(f) :
    /\ \A p \in Beyond(f) : top.seq <= p.seq
    /\ \/ retransmit' = [on |-> TRUE, from |-> f, to |-> RequestUpTo(top)]
       \/ "request" \in Faults /\ retransmit' = [retransmit EXCEPT !.on = FALSE]

LeaveRefresh_Forgotten == UNCHANGED in_refresh
LeaveRefresh == in_refresh' = FALSE

ProcessMDQ ==
  \E f \in Positions :
    /\ DrainStop(f)
    /\ Applied((seq_no .. f - 1) \cup UNION { Carries(p) : p \in Heads(f) }, HeadTwice(f))
    /\ seq_no' = f
    /\ KeepFrom(f + 1)
    /\ \/ Beyond(f) # {} /\ RequestRetransmit(f)
       \/ Beyond(f) = {} /\ retransmit' = [retransmit EXCEPT !.on = FALSE]
    /\ LeaveRefresh
    /\ UNCHANGED last_update

(* send_tcp_logout: a session that is not on, or has no socket, is left    *)
(* alone; on is snapshot_is_on when it is called.                          *)
Logout(on) ==
  \/ snapshot_is_on' = (on /\ ~ connected)
  \/ "send" \in Faults /\ snapshot_is_on' = on

(* process_snapshot_reject *)
Reject(on) ==
  /\ Logout(on)
  /\ rejected' = TRUE
  /\ ending' = "abandoned"
  /\ ProcessMDQ
  /\ UNCHANGED <<connected, logins>>

(* send_snapshot_login, past its tests *)
SendLogin ==
  /\ snapshot_is_on' = TRUE
  /\ in_refresh' = TRUE
  /\ logins' = logins + 1
  /\ server' = IF server = "closed" THEN "closed" ELSE "asked"

----------------------------------------------------------------------------
(* The starting thread: try_connect_snapshot, called by                    *)
(* update_channel_state for a channel it has just created.                 *)

Connect ==
  /\ start = "connect"
  /\ start' = "login" /\ connected' = TRUE
  /\ snapshot_is_on' = FALSE
  /\ tcp' = "woken"        \* EPOLLOUT of the descriptor just added
  /\ UNCHANGED <<feed, state, stream, logins, ending>>

ConnectFails ==
  /\ "connect" \in Faults
  /\ start = "connect"
  /\ start' = "done"
  /\ \/ /\ Size > RejectSize
        /\ Reject(FALSE)
        /\ UNCHANGED timer
     \/ /\ Size <= RejectSize
        /\ UNCHANGED <<feed, state, socket, ending>>
  /\ UNCHANGED <<stream, tcp>>

(* The tests at the head of send_snapshot_login.                           *)
StartLogin ==
  /\ start = "login"
  /\ start' = IF rejected THEN "done" ELSE IF snapshot_is_on THEN "arm" ELSE "send"
  /\ UNCHANGED <<feed, state, socket, stream, tcp, ending>>

StartSend ==
  /\ start = "send"
  /\ SendLogin
  /\ start' = "arm"
  /\ UNCHANGED <<feed, rejected, timer, retransmit, connected,
                 snapshot_msg_received, snap, tcp, ending>>

StartSendFails ==
  /\ "send" \in Faults
  /\ start = "send"
  /\ start' = "done"
  /\ UNCHANGED <<feed, state, socket, stream, tcp, ending>>

StartArm ==
  /\ start = "arm"
  /\ start' = "done"
  /\ in_refresh' = TRUE
  /\ timer' = "armed"
  /\ UNCHANGED <<feed, rejected, retransmit, socket, stream, tcp, ending>>

----------------------------------------------------------------------------
(* The dispatcher thread, multicast packets: parse.                        *)

DispatcherRuns == StartRace \/ start \notin {"send", "arm"}
UdpTurn == DispatcherRuns /\ tcp # "reading"

(* Until a packet has been applied every packet moves seq_no to its own    *)
(* sequence number.                                                        *)
Cursor_Restarts(p) == p.seq
Cursor(p) == IF last_update THEN seq_no ELSE p.seq
Fresh(p) == p.next > seq_no /\ p.next > Cursor(p)
IsGap_OneAllowed(p) == p.seq > Cursor(p) + 1
IsGap(p) == p.seq > Cursor(p)
HoldsBack_OnlyInSession == in_refresh /\ snapshot_is_on
HoldsBack == in_refresh
FirstNew_WholePacket(p) == p.seq
FirstNew(p) == IF p.seq < Cursor(p) THEN Cursor(p) ELSE p.seq

ParseHeartbeat(p) ==
  /\ UdpTurn
  /\ p.next > seq_no /\ p.next <= Cursor(p)
  /\ seq_no' = Cursor(p)
  /\ UNCHANGED <<last_update, queue, live, twice, state, socket, stream, start, tcp, ending>>

ParseInRefresh(p) ==
  /\ UdpTurn
  /\ Fresh(p) /\ HoldsBack
  /\ Push(p)
  /\ seq_no' = Cursor(p)
  /\ UNCHANGED <<last_update, live, twice, state, socket, stream, start, tcp, ending>>

(* begin_recovery (library) keeps the packet in the queue.                 *)
ParseGap(p) ==
  /\ UdpTurn
  /\ Fresh(p) /\ ~ HoldsBack
  /\ IsGap(p)
  /\ Push(p)
  /\ UNCHANGED <<seq_no, last_update, live, twice, state, socket, stream, start, tcp, ending>>

ParseApply(p) ==
  /\ UdpTurn
  /\ Fresh(p) /\ ~ HoldsBack
  /\ ~ IsGap(p) \/ "norecovery" \in Faults
  /\ \E f \in p.next .. MaxMsg + 1 :
       /\ Contiguous(p.next, f)
       /\ Applied(FirstNew(p) .. f - 1, {})
       /\ seq_no' = f
       /\ KeepFrom(f)
  /\ last_update' = TRUE
  /\ UNCHANGED <<state, socket, stream, start, tcp, ending>>

----------------------------------------------------------------------------
(* The dispatcher thread, snapshot stream: read with data, so              *)
(* parse_tcp_data and execute_tcp_data, for each message of the server.    *)
(* Whatever the type, parse_tcp_data first sets snapshot_is_on.            *)

TcpData ==
  /\ DispatcherRuns
  /\ connected
  /\ tcp' = "reading"

(* 'A' *)
RecvAccept(n) ==
  /\ TcpData
  /\ server = "asked" /\ server' = "streaming"
  /\ seq_no' = n
  /\ timer' = "armed"
  /\ snapshot_is_on' = TRUE
  /\ UNCHANGED <<last_update, queue, live, twice, in_refresh, rejected, retransmit,
                 connected, logins, snapshot_msg_received, snap, start, ending>>

(* 'J' *)
RecvReject ==
  /\ TcpData
  /\ "reject" \in Faults
  /\ server = "asked" /\ server' = "ended"
  /\ Reject(TRUE)
  /\ UNCHANGED <<timer, snapshot_msg_received, snap, start>>

(* 'S', an item: passed to parse2 as message snapshot_msg_received.        *)
ItemIsNew(k) == k >= seq_no

RecvItem ==
  /\ TcpData
  /\ server = "streaming"
  /\ snapshot_msg_received < MaxMsg
  /\ snapshot_msg_received' = snapshot_msg_received + 1
  /\ snap' = snap \cup { k \in {snapshot_msg_received + 1} : ItemIsNew(k) }
  /\ snapshot_is_on' = TRUE
  /\ UNCHANGED <<feed, state, connected, logins, server, start, ending>>

(* 'S' 'G', the end of the snapshot: the queue is not drained.             *)
RecvEnd(n) ==
  /\ TcpData
  /\ server = "streaming" /\ server' = "ended"
  /\ Logout(TRUE)
  /\ seq_no' = n
  /\ LeaveRefresh
  /\ rejected' = TRUE
  /\ ending' = IF ending = "none" THEN "complete" ELSE ending
  /\ UNCHANGED <<last_update, queue, live, twice, timer, retransmit, connected,
                 logins, snapshot_msg_received, snap, start>>

(* 'Z', '+', the server's heartbeats and the first bytes of a message      *)
(* change nothing else.                                                    *)
RecvOther ==
  /\ TcpData
  /\ server \in {"asked", "streaming", "ended"}
  /\ snapshot_is_on' = TRUE
  /\ UNCHANGED <<feed, state, connected, logins, stream, start, ending>>

(* read with no data, at the end of the loop of poll_one or for the        *)
(* wake-up of a descriptor ready to be written: the only place where the   *)
(* snapshot timeout is looked at.                                          *)
ReadTurn == DispatcherRuns /\ tcp # "quiet" /\ tcp' = "quiet"
TimedOut == in_refresh /\ timer = "expired"
MayLogin_Again == ~ rejected /\ connected
MayLogin_AfterReject == ~ snapshot_is_on /\ connected
MayLogin == ~ snapshot_is_on /\ ~ rejected /\ connected

ReadTimeout ==
  /\ ReadTurn
  /\ TimedOut
  /\ Reject(snapshot_is_on)
  /\ UNCHANGED <<timer, stream, start>>

ReadLogin ==
  /\ ReadTurn
  /\ ~ TimedOut /\ MayLogin
  /\ SendLogin
  /\ UNCHANGED <<feed, rejected, timer, retransmit, connected,
                 snapshot_msg_received, snap, start, ending>>

(* Tried again if the socket becomes ready to be written once more.        *)
ReadLoginFails ==
  /\ "send" \in Faults
  /\ ReadTurn
  /\ ~ TimedOut /\ MayLogin
  /\ UNCHANGED <<feed, state, socket, stream, start, ending>>

ReadNothing ==
  /\ ReadTurn
  /\ ~ TimedOut /\ ~ MayLogin
  /\ UNCHANGED <<feed, state, socket, stream, start, ending>>

----------------------------------------------------------------------------
(* The environment.                                                        *)

(* The dispatcher removes the descriptor, whatever part of a message is    *)
(* left in its buffer, and tells the handler nothing.                      *)
Eof ==
  /\ DispatcherRuns
  /\ connected
  /\ \/ server = "ended"
     \/ "eof" \in Faults /\ server \in {"asked", "streaming"}
  /\ server' = "closed" /\ tcp' = "quiet"
  /\ UNCHANGED <<feed, state, socket, snapshot_msg_received, snap, start, ending>>

TimePasses ==
  /\ "timeout" \in Faults
  /\ timer = "armed" /\ timer' = "expired"
  /\ UNCHANGED <<feed, in_refresh, rejected, retransmit, socket, stream, start, tcp, ending>>

----------------------------------------------------------------------------
Init ==
  /\ seq_no = 1 /\ last_update = FALSE
  /\ queue = [p \in Packets |-> 0]
  /\ in_refresh = TRUE /\ rejected = FALSE
  /\ timer = "off"
  /\ retransmit = [on |-> FALSE, from |-> 1, to |-> 0]
  /\ snapshot_is_on = FALSE /\ connected = FALSE
  /\ snapshot_msg_received = 0
  /\ start = "connect" /\ tcp = "quiet" /\ server = "idle"
  /\ live = {} /\ twice = {} /\ snap = {}
  /\ logins = 0 /\ ending = "none"

Start ==
  Connect \/ ConnectFails \/ StartLogin \/ StartSend \/ StartSendFails \/ StartArm

Parse ==
  \/ \E p \in Frames : ParseHeartbeat(p)
  \/ \E p \in Packets : ParseInRefresh(p) \/ ParseGap(p) \/ ParseApply(p)

Answer ==
  \/ \E n \in Accepts : RecvAccept(n)
  \/ RecvReject
  \/ RecvItem
  \/ \E n \in Positions : RecvEnd(n)
Read == ReadTimeout \/ ReadLogin \/ ReadLoginFails \/ ReadNothing

Next == Start \/ Parse \/ Answer \/ RecvOther \/ Read \/ Eof \/ TimePasses

Spec == Init /\ [][Next]_vars

(* The threads of the client run: the starting thread goes on, and the     *)
(* dispatcher takes the wake-ups of the descriptor.                        *)
ClientFairness == WF_vars(Start) /\ WF_vars(Read)
FairSpec == Spec /\ ClientFairness

(* The exchange answers each login and comes to the end of its snapshot.   *)
AnsweredSpec == FairSpec /\ WF_vars(Answer)

----------------------------------------------------------------------------
(* Safety.                                                                 *)

(* While the snapshot is being taken no multicast message reaches the      *)
(* book, no gap of the multicast is being recovered, and the refresh has   *)
(* not been given up: m_in_refresh_state and m_refresh_rejected are        *)
(* exclusive although two threads write them.                              *)
RefreshIsolated ==
  in_refresh => live = {} /\ ~ last_update /\ ~ retransmit.on /\ ~ rejected

(* parse, parse2 and process_recovery together apply a message of the      *)
(* multicast at most once, whatever copies and overlapping packets come,   *)
(* unless process_MDQ has drained the queue of an abandoned snapshot.      *)
AppliedOnce == ending # "abandoned" => twice = {}

(* After a snapshot that came to its end, and as long as begin_recovery    *)
(* takes every gap, the messages applied are one unbroken run that ends    *)
(* just below seq_no.                                                      *)
FeedContiguous ==
  ending = "complete" /\ last_update /\ "norecovery" \notin Faults =>
    \A m \in live : m < seq_no /\ m .. seq_no - 1 \subseteq live

(* The starting thread and the dispatcher both send the login when they    *)
(* find the session off; it is sent once.                                  *)
OneLogin == logins <= 1

(* A channel that has given its refresh up, or has had it to the end,      *)
(* never takes it up again: no queueing of live packets, no new login.     *)
GiveUpFinal ==
  [][rejected => rejected' /\ ~ in_refresh' /\ logins' = logins]_vars

(* A retransmission request asks for messages below every packet that      *)
(* process_MDQ leaves in the queue, and for at least one.                  *)
RequestBelowQueue ==
  [][retransmit' # retransmit /\ retransmit'.on =>
       /\ retransmit'.from <= retransmit'.to
       /\ \A p \in Packets : queue'[p] > 0 => p.seq > retransmit'.to]_vars

(* The channel keeps the promise of OrderedFeed: the feed is closed until  *)
(* a packet is applied, and loose once the snapshot has been abandoned.    *)
FeedMode ==
  IF ending = "abandoned" THEN "loose" ELSE IF last_update THEN "open" ELSE "closed"
FeedCursor == IF FeedMode = "open" THEN seq_no ELSE 0
FeedDelivered == IF FeedMode = "loose" THEN {} ELSE live

Feed == INSTANCE OrderedFeed WITH
  MayLose <- "norecovery" \in Faults,
  mode <- FeedMode, cursor <- FeedCursor, delivered <- FeedDelivered

FeedSpec == Feed!Spec

(* Why they hold, when the starting thread is not preempted between its    *)
(* login and its timer (~ StartRace): the flags of the refresh say how it  *)
(* ended; nothing has happened before it ends; the starting thread finds   *)
(* what it tested unchanged; a session has one login; nothing comes from   *)
(* the server after the end of the snapshot; the feed is in order.         *)
Phase == (in_refresh <=> ending = "none") /\ (rejected <=> ending # "none")
Closed == in_refresh => live = {} /\ twice = {} /\ ~ last_update /\ ~ retransmit.on
Starting ==
  /\ start = "connect" =>
       in_refresh /\ ~ connected /\ ~ snapshot_is_on /\ logins = 0 /\ tcp = "quiet"
  /\ start \in {"send", "arm"} => in_refresh
  /\ start = "send" => ~ snapshot_is_on
Session == logins = 0 \/ (logins = 1 /\ (snapshot_is_on \/ rejected))
Ended == ending = "complete" => server \in {"ended", "closed"} /\ ~ retransmit.on
InOrder ==
  ending # "abandoned" =>
    /\ twice = {}
    /\ ~ last_update => live = {}
    /\ \A m \in live :
         m < seq_no /\ ("norecovery" \notin Faults => m .. seq_no - 1 \subseteq live)

Inv == TypeOK /\ Phase /\ Closed /\ Starting /\ Session /\ Ended /\ InOrder

----------------------------------------------------------------------------
(* Liveness.                                                               *)

(* Once the exchange plays its part, with a snapshot, a refusal or an      *)
(* answer that comes too late, live packets are no longer held back.       *)
RefreshEnds == in_refresh ~> ~ in_refresh

----------------------------------------------------------------------------
(* What comments of the code say of it, and the code does not keep.        *)

(* ASX_ITCH_1_1_Handler.h, of m_refresh_rejected: "true indicate don't try *)
(* again".                                                                 *)
DontTryAgain == [][rejected => logins' = logins]_vars

(* parse2, of the messages below seq_no: "skip what we've already seen".   *)
(* Every snapshot item skipped has been applied before.                    *)
SkipsOnlySeen == 1 .. snapshot_msg_received \subseteq snap \cup live

(* ASX_ITCH_1_1_Handler.h, of m_snapshot_timeout_time: "if [it] is         *)
(* time_outed treat as snapshot_reject is received, m_refresh_rejected     *)
(* will be set".                                                           *)
TimeoutRejects == in_refresh /\ timer = "expired" ~> rejected
=============================================================================
