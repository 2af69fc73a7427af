------------------------------ MODULE MdqLoop ------------------------------
(***************************************************************************)
(* The loop of process_MDQ, one turn per step, on any queue and position,  *)
(* beside the closed form that ItchChannel uses for the whole call.  The   *)
(* loop works on its own copies of seq_no, of the queue and of the two     *)
(* histories; its last turn writes them to the channel, so that the step   *)
(* of the channel can be compared with ProcessMDQ.                         *)
(***************************************************************************)
EXTENDS ItchChannel

VARIABLE loop   \* [on, seq_no, queue, live, twice] of the running call

InLoop == { p \in Packets : loop.queue[p] > 0 }

(* queue.top(): the order of packets with the same seq is not specified.   *)
Top(p) == p \in InLoop /\ \A q \in InLoop : p.seq <= q.seq

Popped_Kept(p) == loop.queue
Popped(p) == [loop.queue EXCEPT ![p] = @ - 1]

ParseMessages(msgs) ==
  [live |-> loop.live \cup msgs, twice |-> loop.twice \cup (loop.live \cap msgs)]

Turn(p, position, msgs) ==
  /\ loop' = [loop EXCEPT !.seq_no = position, !.queue = Popped(p),
                          !.live = ParseMessages(msgs).live,
                          !.twice = ParseMessages(msgs).twice]
  /\ UNCHANGED vars

(* A packet that starts at seq_no: parse2 leaves seq_no alone.             *)
TurnWhole(p) ==
  /\ loop.on /\ Top(p)
  /\ p.seq = loop.seq_no
  /\ Turn(p, loop.seq_no, Carries(p))

(* One that starts below it and reaches past it: message by message.       *)
TurnPartial(p) ==
  /\ loop.on /\ Top(p)
  /\ p.seq < loop.seq_no /\ loop.seq_no < p.next
  /\ Turn(p, p.next, loop.seq_no .. p.next - 1)

TurnStale(p) ==
  /\ loop.on /\ Top(p)
  /\ p.next <= loop.seq_no
  /\ Turn(p, loop.seq_no, {})

Return(request) ==
  /\ loop' = [loop EXCEPT !.on = FALSE]
  /\ seq_no' = loop.seq_no /\ queue' = loop.queue
  /\ live' = loop.live /\ twice' = loop.twice
  /\ retransmit' = request
  /\ in_refresh' = FALSE
  /\ UNCHANGED <<last_update, rejected, timer, socket, stream, start, tcp, ending>>

(* A gap: ask for what lies before the top, which stays queued.            *)
ReturnGap(p) ==
  /\ loop.on /\ Top(p)
  /\ p.seq > loop.seq_no
  /\ \/ Return([on |-> TRUE, from |-> loop.seq_no, to |-> p.seq - 1])
     \/ "request" \in Faults /\ Return([retransmit EXCEPT !.on = FALSE])

ReturnEmpty ==
  /\ loop.on /\ InLoop = {}
  /\ Return([retransmit EXCEPT !.on = FALSE])

LoopInit ==
  /\ seq_no \in Positions
  /\ queue \in { q \in [Packets -> 0 .. 2] :
                   FoldFunction(LAMBDA n, m : n + m, 0, q) <= MaxHeld }
  /\ in_refresh = TRUE /\ rejected = TRUE
  /\ last_update = FALSE /\ timer = "off"
  /\ retransmit = [on |-> FALSE, from |-> 1, to |-> 0]
  /\ snapshot_is_on = FALSE /\ connected = FALSE /\ snapshot_msg_received = 0
  /\ start = "done" /\ tcp = "quiet" /\ server = "idle"
  /\ live \in { {}, {1} } /\ twice = {} /\ snap = {}
  /\ logins = 0 /\ ending = "abandoned"
  /\ loop = [on |-> TRUE, seq_no |-> seq_no, queue |-> queue, live |-> live, twice |-> twice]

LoopNext ==
  \/ \E p \in Packets : TurnWhole(p) \/ TurnPartial(p) \/ TurnStale(p) \/ ReturnGap(p)
  \/ ReturnEmpty

LoopSpec == LoopInit /\ [][LoopNext]_<<vars, loop>> /\ WF_<<vars, loop>>(LoopNext)

(* Whatever packets of the same seq come first, the call as a whole does   *)
(* to the channel what ProcessMDQ says.                                    *)
LoopIsProcessMDQ == [][loop'.on \/ ProcessMDQ]_<<vars, loop>>

(* The loop comes to an end on every queue.                                *)
LoopEnds == <>(~ loop.on)
=============================================================================
