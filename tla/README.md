# A verification project for the ASX ITCH client and its exchange simulator

The repository holds a market-data client for the ASX ITCH 1.1 protocol
(`src/MD_handler_parser`, `src/Connection_Handlers`) and a program that plays
recorded data back to it as the exchange would (`src/cwtest`). These modules
model the client's channel (the part that decides which message reaches the
order book, and when), what the client makes of each message, the dispatchers
that call it, and the exchange that feeds it, and prove the properties they
rest on.

## 1. Inventory

| Part | State | Operations | What makes it correct |
|---|---|---|---|
| Client channel, `ASX_ITCH_1_1_Handler` (one `asx_channel` and its `channel_info`) | `seq_no`, `last_update`, the packet queue, `Channel_State` (`m_in_refresh_state`, `m_refresh_rejected`, `m_snapshot_timeout_time`, the retransmission fields), `snapshot_is_on`, `snapshot_socket`, `snapshot_msg_received` | `parse` for a multicast packet; `read` for TCP data, or for nothing; `update_channel_state`, `try_connect_snapshot` at the start | each message applied once, in order, after the snapshot; the snapshot taken once and given up for good; packets not held back for ever |
| `EPoll_Dispatcher` | contexts, descriptor tables, TCP buffers, one mutex | `poll_one`, `add_*_fd`, `start`, `stop`, `mcast_join` | a callback for each event of a live descriptor and none for a dead one; whole TCP messages, in order |
| `ASX_ITCH_Session` | `is_started`, the dispatchers | `init`, `start`, `stop` | nothing is delivered before the channel exists or after it is gone |
| Exchange simulator, `ASX_Test_Handler` | per channel: multicast position, next drop, snapshot position, retransmission list, client socket | multicast thread; login, logout and data of the client; retransmission requests; the write events of the main loop | a snapshot is without a hole and joins the multicast; its end names what is still to come; a retransmission covers what was asked |
| `Simple_Dispatcher` | descriptors, buffers | `poll_one`, `to_write` | a request is cut out of the pipe whole, wherever the reads cut it; no edge is lost |
| `OpenOnload_Dispatcher` | the tables of `EPoll_Dispatcher`, a queue of requests, no lock | `start`, `stop`, `run_loop`, `poll_one` | requests obeyed in order; what is subscribed is watched |
| Start of the simulator, `pcap_simulator.cpp` | pipes, a shared byte `turn_on`, two processes | hello messages, wait loops | both processes get going |
| Message handlers of the client, order book | products, order ids, order table, one trade and one quote update, matches recorded | `parse_message` and the `parse..._X` functions, `start`, `stop`, `reset` | ids unique; the table is what the exchange has; quotes and trades are of the exchange's orders; the file gives the table back |
| `Handler` | alert counters, file positions | alert limit, record replay | no alert storm; every record read |
| `my_match.cpp` | two heaps of orders | add, cancel, match | best order first, quantities conserved |
| `Simple_MDManager`, `Snapshot_Session`, `SnapshotService`, `functions` | configuration | set-up | |
| File tools, earlier simulators and dated copies | | | |

**How they interact.** `ASX_ITCH_Session::init` adds the multicast lines to the
dispatcher and calls `update_channel_state`, which makes one `asx_channel` per
channel, connects to the snapshot server, adds the socket to the *same*
dispatcher that carries the multicast, starts it there and sends the login;
`start` starts what is left and calls it again, for nothing. In
`Simple_MDManager::start` the dispatchers' threads run only after that; but a
dispatcher that other providers use runs already when a provider is added, and
then two threads touch the channel from the beginning: the starting thread,
still in `try_connect_snapshot`, and the dispatcher
thread, which calls `parse` for each datagram and `read` for the
bytes of the socket. `poll_one` holds the dispatcher's mutex over a whole batch
of events, so two callbacks never overlap; the starting thread takes no lock at
all. When `parse` is called in the refresh it queues the packet; outside it, it
applies the packet, hands a gap to `begin_recovery`, or drops what is old. The
snapshot ends in one of three ways: an end message (`S` `G`), a refusal (`J`),
or the timeout; the last two drain the queue in `process_MDQ`, which may send a
retransmission request over UDP.

**What is hard.** The two threads at the start; the order of two sockets'
events; datagrams lost, repeated, reordered and overlapping; a timeout beside a
late answer; failed connects, sends and requests; a queue drained message by
message with four ways to treat a packet; 64-bit positions cut to 16-bit
counts. `PROJECT.json` lists each of these at its line, with the properties that
watch it.

## 2. Modules

| Module | Models | Lines of the code |
|---|---|---|
| `ItchChannel` | one channel of the client with its starting thread, its dispatcher thread, the network, the snapshot server and the clock | `ASX_ITCH_1_1_Handler.cpp`: `parse` to `process_MDQ`, `establish_refresh_connection` to `read`, `send_tcp_logout` to `send_retransmit_request`; `.h`: `Channel_State`, `asx_channel`; `EPoll_Dispatcher.cpp`: `poll_one` |
| `OrderedFeed` | abstract: what a channel promises to the order book | |
| `MdqLoop` | the loop of `process_MDQ`, one turn per step | 1589-1665 |
| `MCItchChannel` | the sets of faults of the runs | |
| `EPollDispatcher` | contexts, descriptor tables, lock, reader thread, the kernel's epoll | `EPoll_Dispatcher.cpp`: `add_fd` to `run_loop`, `add_tcp_fd` to `full_stop` |
| `ItchSession` | the main thread around it: start, lines stopped and started, shutdown | `ASX_ITCH_Session.cpp`: `init`, `start`; `update_channel_state`, `establish_refresh_connection`; `Simple_MDManager.cpp`: `start`, shutdown, `provider_change_admin` |
| `ItchChannelProofs`, `ItchChannelFeed` | theorems | |
| `Exchange` | one channel of the simulated exchange: multicast thread, snapshot, retransmission | `ASX_Test_Handler.cpp`: the loaded list, `start_multicast` to `send_next_packet`, `send_snapshot_message` to `send_recovery_packet`, `parse`, `confirm_login` to `send_end_snapshot`, `process_client_data`; `Snapshot_Handler.h`: the channel record |
| `SnapshotServer` | abstract: what an exchange promises to a client that takes a snapshot | |
| `ExchangeProofs` | theorems | |
| `OrderBook`, `MCOrderBook` | products, ids, the order table, the updates sent and the file recorded; the instances | `ASX_ITCH_1_1_Handler.cpp`: `get_unique_order_id` to `parseEQUILIBRIUM_PRICE_AUCTION_INFO_Z`, `send_quote_update`, `send_trade_update`, `reset`, `start`, `stop` |
| `OrderBookProofs`, `OrderBookUpdates` | theorems: the ids, products and the table; what is sent and recorded | |
| `OnloadDispatcher` | the kernel-bypass dispatcher under the session and the manager | `OpenOnload_Dispatcher.cpp`: `run` to `stop_sync` |
| `SimDispatcher` | the simulator's dispatcher and main loop on one channel's pipe and socket | `Simple_Dispatcher.cpp`: `poll_one`, `add_*_fd`, `start_sync`; `send_retransmit_request`; `pcap_simulator.cpp`: `start_exchange` |
| `ItchSessionProofs`, `OnloadProofs`, `SimDispatcherProofs` | theorems about the three dispatchers | |

### ItchChannel

*Data.* A message of the feed is its sequence number. A packet is the interval
`[seq, next)` it carries; a heartbeat is an empty one. `Frames` holds every
packet a lossy, repeating and reordering network may deliver at any time, so
`Parse` may happen with any of them in any state: no network variable is needed.
The queue is a bag of packets, as `MDBufferQueue` orders its entries by
sequence number only. Message bodies, session names, heartbeats to the server,
the recorder and logging are left out.

*State.* `seq_no`, `last_update`, `queue`, `in_refresh`, `rejected`, `timer`,
`retransmit`, `snapshot_is_on`, `connected` and `snapshot_msg_received` are the
variables of the code. `timer` is `m_snapshot_timeout_time` seen through the
clock: 0, in the future, in the past. `start` is the place of the starting
thread in `try_connect_snapshot`; `tcp` says whether the dispatcher is inside
the read loop of the socket, or will get to it. `server` is the snapshot server
as its messages show it. `live`, `twice`, `snap`, `logins` and `ending` are
history variables: they record and never guard a step.

*Actions.*

| Action | Code |
|---|---|
| `Connect`, `ConnectFails` | `establish_refresh_connection`, and what `try_connect_snapshot` does when it fails |
| `StartLogin`, `StartSend`, `StartSendFails`, `StartArm` | `send_snapshot_login` by the starting thread: its tests, its send, and the two assignments after it, four steps because no lock joins them |
| `ParseHeartbeat`, `ParseInRefresh`, `ParseGap`, `ParseApply` | the four ways through `parse`; old packets change nothing and are stutters |
| `RecvAccept`, `RecvReject`, `RecvItem`, `RecvEnd`, `RecvOther` | `parse_tcp_data` and `execute_tcp_data` for `A`, `J`, `S`, `S` `G` and the rest |
| `ReadTimeout`, `ReadLogin`, `ReadLoginFails`, `ReadNothing` | `read` with no data |
| `Eof`, `TimePasses` | the socket closed; the clock |

`Reject` is `process_snapshot_reject`, called from three places, with the whole
of `Logout` and `ProcessMDQ`. The loop of `process_MDQ` is one step: it stops at
the position `f` of `DrainStop`, applies what lies before `f` and every packet
that starts at `f`, drops what starts lower, and asks for what lies between `f`
and the first packet that starts higher. `MdqLoop` runs the real loop beside it.

*Outside `src/`.* `MDBufferQueue`, `channel_info::begin_recovery` and
`channel_info::process_recovery` belong to a library the repository does not
hold. They are modelled from how `parse` uses them: `begin_recovery` keeps the
packet and says true, or declines and lets `parse` skip the gap (the fault
`"norecovery"`); `process_recovery` applies the queued packets that continue the
feed. The snapshot server is free, within the protocol the client's code shows:
one answer to a login, items only after `A`, nothing but closing after the end.

*Two builds.* The model is of the default build. With `USE_MY` the end of the
snapshot drains the queue as well.

### OrderedFeed

Three modes. *closed*: nothing of the multicast reaches the book. *open*:
messages are delivered in order, each once, without a hole unless gaps may be
declined. *loose*: the refresh was abandoned before the feed opened; no promise.
The refinement mapping (`FeedMode`, `FeedCursor`, `FeedDelivered`) reads the mode
off `ending` and `last_update`. `OrderedFeed` never goes from open to loose,
so the refinement also says that a channel that has opened its feed cannot be
thrown back by a late refusal or timeout.

The promise is void after an abandoned refresh because `process_MDQ` breaks it:
a packet that starts at `seq_no` is applied by `parse2`, which leaves `seq_no`
alone, so copies of it are applied again, and the next packet looks like a gap.

### Exchange

*Threads.* `start_exchange` makes one thread for `start_multicast` and keeps its
own thread for the main loop, in which `poll_one` (reads: logins, logouts,
requests) and `check_write_event` (writes: snapshot items, recovery packets)
alternate. They share the channel record without a lock. The one shared variable
that decides anything is `next_mcast_packet`: the multicast thread writes it,
`send_snapshot_message` and `confirm_login` test it, and `send_end_snapshot`
reads it *again* for the number in the end message. `main` holds the place
between the test and the second reading; the multicast thread runs there as it
does anywhere.

*State.* `next_packet`, `next_drop`, `next_mcast`, `next_out`, `snapshot`,
`open`, `recovery`, `recovery_end` are the fields of the record; `items`, `tested`,
`claim`, `kept`, `logins`, `sent`, `dropped`, `asked`, `recovered` are history.
`recovery` is a set of starts although the code has a list: two equal entries
make a packet of no messages, which the model leaves out.

| Action | Code |
|---|---|
| `SendPacket`, `DropPacket` | one turn of `start_multicast` |
| `Login`, `LoginRefused`, `Logout` | `process_client_data`, with `confirm_login` up to its test |
| `SendItem`, `SendItemFails` | `send_snapshot_message` up to its test; `tested` is what it found in `next_mcast_packet` |
| `SendEnd`, `SendEndFails` | `send_end_snapshot`, for either of its callers |
| `Request` | `parse`, `create_recovery_list` and the first `send_recovery_packet` |
| `RecoverNext` | `check_write_event`, the next one |

*Bounds that are not in the code.* The multicast stops at the last full packet
of the list, where the code reads on past its end; requests are for messages
the multicast has passed, one at a time. A login before the first multicast
packet is ended at once with the number 0, as in the code.

### SnapshotServer

Items in order without a hole. The end is *due* as soon as the items, or the
login, have reached the multicast, and never before; no item goes out while it is
due. The multicast moves on all the same, and the end names the place it has
reached when the end is sent, which may be past the items: that is all the code
gives, and `HandOver` of `Exchange` says what a client can still rely on. A
client may ask again and is served from where the items stopped; the promise
ends with the connection, with a refused login, or with a message lost on a full
socket. `kept` and `open` tell the mapping when it has ended.

### EPollDispatcher and ItchSession

*Kernel.* A socket takes the lowest free number (`Opens`), so a number closed by
one thread comes back for another channel. `unread` and `closing` say what a
`recv` would find, `ready` which events have not been reported; epoll is
edge-triggered, so an event is made when data arrives or a descriptor is
watched, and never again for the same data.

*Dispatcher.* `added`, `fd`, `subscribed`, `fd_to_context` and `tcp_buffer` are
its tables. `add_fd` is two steps, `Watch` (up to `epoll_ctl`) and `Enter` (the
table), because the reader may run between them when the caller holds no lock.

*Reader.* `Wait` (`epoll_wait`, without the lock), `Lock`, `Take` (one event),
`Read` / `ReadNothing` / `ReadEof` (one turn of the loop of recvs), `Unlock`,
`Exit`. `m_started` is read once per turn of `run_loop`: a thread already in
`epoll_wait` handles one more batch after it is reset.

*Main thread.* `main` is its place.

| Action | Code |
|---|---|
| `Create`, `Created` | `update_channel_state` in `init`: `Connect` connects, `AddTcp`s and enters `start_sync` without the lock |
| `Establish`, `Established` | the session's `establish_refresh_connection`, which adds the socket a second time |
| `Start`, `Started` | `EPoll_Dispatcher::start` of each channel, with the lock |
| `SyncSkip`, `SyncLine`, `SyncTcp`, `SyncEnter`, `SyncFails`, `SyncEnd` | the loop of `start_sync`, a context at a time |
| `ManagerRuns`, `StartLine`, `StopLine`, `Shutdown`, `Join` | the manager |

The descriptor recorded for retransmission requests, the login itself and the bytes read are left out.
`Session::stop` is left out because it unsubscribes nothing: it names the lines
`B` and `A`, and contexts carry the name of the channel.

### OrderBook

*Data.* An order of the exchange is a key: an id, a book and a side, because the
exchange reuses ids across books and sides. `exch` is what the exchange has of
it; `Says` lets the exchange say only what its own book allows. A behaviour is
about one pair of orders (`Feeds`), chosen so that every pair shares something:
a side of a book, an id on two sides, an id in two books, a book that is not
cash.

*Steps.* An action is what a thread does between two accesses to shared state.

| Action | Code |
|---|---|
| `Take` | a message arrives: `get_symbol_info`, the product of a directory, the look-up in `m_order_id_hash`; `P` fills `m_trade` |
| `NewId` | the rest of `get_unique_order_id` |
| `Add`, `Delete`, `Replace`, `Execute`, `NotFound` | the order table under its lock, the record written, the part of `m_trade` filled there |
| `Send` | `send_trade_update`, `send_quote_update`, the auction update |
| `StartStop`, `Reset` | `start` and `stop`; `reset` |

`MDOrderBook` and the recorder are libraries that are not in the repository. The
table is a set of orders; its best level and whether an order is on it are
computed from the set, as the code uses them. The file is seen through what
replaying it gives (`Modified`, `Executed`).

*Numbers.* `new_size` is 32 bits in the code (`SizeMod`); the price multiplier
is `pow(10, 2 - decimals)` in an integer, which is 0 from three decimals on.

### OnloadDispatcher

It uses the tables, the kernel and the reader's `Take` and `Read` of
`EPollDispatcher`, which the class inherits. What differs: `start` and `stop`
append to `m_requests` (`Ask`) and the reader serves the queue between two polls
(`HandleRequest`); epoll is level-triggered (`Reported`), so nothing is an edge;
there is no lock; and `run_loop` closes the set that the constructor made and
begins with an empty one (`NewSet`). The session connects the snapshot and calls
`start_sync` for the channel on its own thread, before the reader exists
(`Started`); its `start` of a channel is a request.

### SimDispatcher

The simulator carries UDP over pipes. A pipe has no datagrams, so the client
ends a request with three bytes 0x01 and `poll_one` looks for them in what its
reads return. The rest of a request is binary and may hold bytes of that value
too: `Patterns` says at which places, and `IsMark` goes by the value, as the code
does. `Write` is a request with its boundary in one write;
`WriteRequest` and `WriteBoundary` are the form of `send_retransmit_request`
that uses two. `ReadPart`, `ReadMark` and `ReadEmpty` are a turn of the inner
loop, `Rest` what is done with what is left after two empty reads. `Heard` is
`parse`: it reads the header at the front of `m_buffer` and never looks at the
length it is given. The socket is a stream of messages with a logout at its end
(`ReadTcp`, `ReadTcpEmpty`, `ReadTcpEof`); `errno` is a variable because the end
of a stream leaves it as an earlier call set it, and the code tests it first.
What is sent is in `Exchange`.

## 3. Runs

| Run | Question | Instance | Result |
|---|---|---|---|
| `channel_safety` | the safety properties and the refinement | 3 messages, packets of 1-2, 3 packets held, all faults but declined gaps | holds, about 660 000 states |
| `channel_live` | do live packets get through in the end? | 2 messages, late or negative answers | holds |
| `mdq_loop` | is the one-step `ProcessMDQ` the loop? does the loop end? | 4 messages, packets of 1-3, every queue of at most 3 packets, every position | holds |
| `channel_race` | `DontTryAgain` | the starting thread may be preempted | violated |
| `channel_items` | `SkipsOnlySeen` | no fault at all | violated |
| `channel_timeout` | `TimeoutRejects` | silent server | violated |
| `exchange` | does the snapshot join the multicast, are requests answered exactly and in the end, the refinement | both threads, 9 messages in packets of 2 from message 4, two logins, refusals and failing sends | holds, 46 824 states |
| `session` | do the tables agree, is an edge lost, is a number read for another channel, are lines closed, is data read, does shutdown end? | 2 channels of one line, 3 descriptors, failing connects and sockets | holds, about 59 000 states |
| `session_start` | `SnapshotNotCritical` | one dispatcher for both, no fault | violated |
| `order_book` | are ids and products distinct, is the table what the exchange has, is the quote current, is a trade of the order executed, does the file give the table back? | pairs of orders out of five, two quantities, live and recording in four ways, one thread | holds, 975 758 states |
| `onload` | do set and tables agree without a lock, are requests obeyed, is a number read for another channel, are lines watched, is data read? | 2 channels of one line, 4 descriptors, with and without a snapshot dispatcher, 2 commands | holds, 151 513 states |
| `sim` | are requests and messages cut out whole, is an edge lost? | 2 requests of 7 bytes read by 7, 3, 1, bytes of the boundary's value at three sets of places; 2 messages of 2 bytes; hang-ups | holds, 471 764 states |

*Bounds.* `MaxMsg`, `MaxCount` and `MaxHeld` bound the feed, the packet and the
queue. Three messages with packets of one and two give every relation of a
packet to the position (old, straddling, next, ahead) and of two packets to each
other (disjoint, adjacent, overlapping, equal); three held packets give a drain
with a straddling packet, one at the position and one beyond, two copies
included. `RejectSize` is 5 in the code and 1 in the runs, so that a short queue
and a long one both occur. `Accepts` holds the number an `A` may carry: the
login asks for 1, the second value stands for a server that starts elsewhere.
In `exchange` the multicast begins inside a bundle (4 is not a multiple of 2
plus 1), so its packets and the bundles of a retransmission never line up; one
packet is dropped on the way; nine messages give requests of no, one, two and
more bundles, and a request past the last bundle. The second login is what
makes a snapshot go on after its end.
In `session` three descriptors for two lines and two connections make every number
be used again and let descriptors run out (a connect or a socket then fails);
one line per channel is enough, for the second is started and stopped by the
same loop. `Arrive` happens only where nothing is unread: more would only add
events.
In `order_book` a pair of orders is enough for every clause: two orders can
collide on an id or a product, share a best level, or be the two sides of a
match, and a third adds no relation. `SizeMod` 4 is above every quantity, as
2^32 is for the exchange's.
In `onload` four descriptors let two lines and two connections be open at once,
and two commands a stop and a start of one line while the other works.
In `sim` a request has 3 bytes of session, which the server does not look at,
and 4 of number and count (10 and 10 in the code); a read is for a request's
length, as in the code (20), so that the boundary of three bytes is always cut
by a read, and the reads halve down to 1 byte between the client's writes. Its
bytes have the boundary's value at two places inside, at the last, or at three
inside: of the first the frames must take no notice, the second leaves a byte of
the boundary in front of the next request, and the third is cut in two.
`CHECK_DEADLOCK FALSE`, because the feed of an instance is finite, and a client
with nothing to receive waits.

*Fairness.* `WF(Start)`: the starting thread is an ordinary thread with no
blocking call after the connect. `WF(Read)`: `run_loop` polls as long as it is
started and ends each TCP event with `read` of no data. `AnsweredSpec` adds
`WF(Answer)`: the exchange answers and comes to the end of its snapshot.
`channel_live` needs that last assumption; `channel_timeout` shows that without
it the property fails although the code has a timer for it. In
`channel_live` the connection does not fail, sends succeed and the server does
not close early: each of these alone keeps `m_in_refresh_state` set for ever.

In `exchange`, `WF(Busy)`: main does not stop between a test and the message
that follows it. `SF(RecoverNext)`: `check_write_event` comes to the channel at
every turn of the loop, but snapshot steps come between, so it is enabled again
and again and not for ever. No fairness is asked of the client or of the
multicast thread.

In `session`, `WF(MainStep)` and `WF(Poll)`: neither thread stops in the middle.
`SF(Lock)`: the lock is a spin lock held for short stretches, which the main
thread may take again and again but not for ever in every gap.
`SF(ReadNothing)`: a sender does not outrun the loop of recvs for ever. Nothing
is asked of the manager's commands or of the network.

In `onload`, `WF(Reader)`: the reader's loop does not stop; `SF(ReadTcpNothing)`:
a sender does not outrun the loop of reads for ever. In `sim`, `WF(Exchange)`: the
main loop polls until a flag nobody sets. Nothing is asked of the client.

**What the four violated runs show** (details in `PROJECT.json`, findings):

- `channel_race`: main tests `snapshot_is_on`; the dispatcher's write wake-up
  logs in; the server refuses; main sends its login, and `m_in_refresh_state` is
  set again on a channel that has given up.
- `channel_items`: a heartbeat or a packet held back during the snapshot moves
  `seq_no`, and `parse2` skips the snapshot items below it.
- `channel_timeout`: the deadline is tested only when the TCP descriptor wakes up.
- `session_start`: the handler has added and started the snapshot socket; the
  session adds it again, and `start` of the channel gives it to epoll a second
  time, which refuses. `start` ends in an exception, with the dispatchers of
  `cwtest/config/asx_test.cfg`.

Two more faults are stated by what a property leaves out. In `exchange` the end
may name a message past the position that main tested: a login that finds the
multicast not yet begun is told (a comment says so) that what it asks for is not
available, two packets may go out before the end is sent, and the client is to
skip messages that were never items; `HandOver` promises only what main tested.
In `sim` a request that holds three bytes 0x01, as one for message 65793 does,
is cut there, and what is left of it makes `parse` serve the header that is still
in the buffer again; `Framed` promises only the requests before it.

With `Late = TRUE`, a dispatcher that runs before the session is made, TLC finds
`NoLostEdge` violated (the reader drops an event between `Watch` and `Enter`) and
`Registered` (the end of a stream in the middle of the start). The theorems and
runs of this project that speak of one thread at the start are about
`Simple_MDManager::start`, which runs the dispatchers last.

The same may happen at the end of a snapshot: the end names what `send_end_snapshot`
finds, and the items reach only what `send_snapshot_message` had found before. No
line promises the opposite there. `HandOver` and `SnapshotServer` are stated for
the code as it is: between them, items and multicast have given every message to a
client that has been on the multicast since before the last item.

Facts that TLC or the code shows and no run is kept for. The "try again" that a comment expects after a failed connect (line
1871) has no caller. After the end of a snapshot, a second login sends one item
before the test of `next_mcast_packet`, which then lies ahead of the multicast.
With `TwoThreads` of `MCOrderBook`, TLC finds `IdsDistinct` and `TradeOfTheOrder` violated:
one id is given twice, and one thread sends the shared `m_trade` with what the other
put there. With
the kernel-bypass dispatcher, a channel whose snapshot connected is started in
the constructor's set, which `run_loop` closes: its lines stay subscribed and
are never watched, so `WatchedWithoutSnapshot` speaks of the other channels only
(`cwtest/config/asx_UAT.cfg`, line 191, uses this dispatcher;
`asx_test.cfg` has it in a comment, for production). And in `sim`,
`Framed` ends where the code does: before the first request that holds three bytes
of the boundary's value ahead of its last byte, and after the first whose last
byte has it, or whose boundary is written separately. From there on `parse` may
be given a stale header, and a request may be served twice or garbled. Two such
bytes, or three that are not together, do no harm.

## 4. Proofs

TLAPS proves, for every value of the constants (bounds, sets of faults, numbers
of channels, lines, descriptors and requests, lengths), of the client's channel:

| Theorem | Statement |
|---|---|
| `TypeCorrect` | `Spec => []TypeOK` |
| `InvHolds` | `Spec => []Inv` |
| `RefreshIsolation`, `OnceOnly`, `NoHole`, `LoginOnce` | the invariants of `channel_safety` |
| `GiveUpForGood` | `Spec => GiveUpFinal` |
| `RequestsBelowQueue` | `Spec => RequestBelowQueue` |
| `FeedImplemented` | `Spec => FeedSpec`, the refinement |

of the exchange's:

| Theorem | Statement |
|---|---|
| `ExchangeTypeCorrect` | `Spec => []TypeOK` |
| `Retransmits` | `Spec => []RecoveryExact` |
| `ExchangeInvHolds` | `Spec => []Inv` |
| `HandsOver` | `Spec => []HandOver` |
| `ServerImplemented` | `Spec => ServerSpec`, the refinement |

of the client's orders:

| Theorem | Statement |
|---|---|
| `Types` | `Spec => []TypeOK` |
| `DistinctProducts` | `DirectoryFirst = TRUE` implies `Spec => []ProductsDistinct` |
| `DistinctIds`, `TableMirrors` | `OneThread` and `Exact` imply `Spec => []IdsDistinct` and `Spec => []Mirror` |
| `QuoteIsTheInside` | `OneThread` implies `Spec => []QuoteCurrent` |
| `FileMirrors` | `OneThread` and `Exact` imply `Spec => []ReplayMirrors` |
| `ExecutionsTrade` | `OneThread` and `Exact` imply `Spec => TradeOfTheOrder` |

of the session with the epoll dispatcher:

| Theorem | Statement |
|---|---|
| `SessionTypes` | `Spec => []TypeOK` |
| `TablesAgree` | `Late = FALSE` implies `Spec => []Registered` |
| `EdgesKept` | `Late = FALSE` implies `Spec => []NoLostEdge` |
| `NeverAnothersMessage` | `Late = FALSE` implies `Spec => []ReadsOwn` |
| `NoLineLeftOpen` | `Late = FALSE` implies `Spec => []AllClosed` |

of the session with the kernel-bypass dispatcher:

| Theorem | Statement |
|---|---|
| `TablesAgree`, `NeverAnothersMessage` | `Spec => []Registered`, `Spec => []ReadsOwn` |
| `LastAskedIsDone` | `Spec => []Obeyed` |
| `LinesWatched` | `Spec => []WatchedWithoutSnapshot` |

and of the simulator's dispatcher:

| Theorem | Statement |
|---|---|
| `BuffersBounded` | `Spec => []TypeOK`: neither buffer overflows |
| `PipeIsFramed` | `Spec => []Framed` |
| `StreamIsCut` | `Spec => []StreamFramed` |

*Assumptions.* The constants' assumptions; and, for all but `TypeCorrect` and
`RequestsBelowQueue`, `~ StartRace`: the starting thread is not preempted between
its test of `snapshot_is_on` and its last assignment. With the race the theorems
are false, and `channel_race` shows why: the assumption is the price of the
missing lock, not a convenience. The theorems of the exchange assume nothing of its two
threads. The orders need `OneThread` and `Exact` (below). The session's theorems but
its types assume `Late = FALSE`, that the dispatcher runs after the session is
made, as `Simple_MDManager::start` has it; with `Late = TRUE` TLC finds
`Registered` and `NoLostEdge` violated. The theorems about the kernel-bypass
dispatcher and the simulator's assume nothing more.

*The inductive invariant of the client.* `Inv` has six parts besides types. None of the four
safety properties is inductive alone. That nothing live is applied in the
refresh needs that the flags agree on how it ended (`Phase`) and that the
starting thread cannot set `m_in_refresh_state` again (`Starting`). One login
needs that a session with a login behind it is either on or rejected
(`Session`), because the two tests of `send_snapshot_login` are all that stands
before the send. That a complete snapshot is never followed by an abandoned one
needs that the server says nothing after its end (`Ended`) and that a timeout
needs `in_refresh`. Order needs the whole history below `seq_no` (`InOrder`).
`Closed` ties the first to the last: at the moment the refresh ends there is
nothing to be out of order with. `channel_safety`'s constants were used to check
`Inv` with TLC before it was proved.

*Shape.* `InvStep` has one step per action. The hard ones are `Reject`
(`RejectInv`: through the drain of the queue, which `MDQType` types) and
`ParseApply` (`ApplyInOrder`: the run from `FirstNew` to the end `process_recovery`
reaches extends the old run by an interval that begins at `seq_no`). The
refinement goes through three lemmas, one per kind of step: a stutter
(`FeedStutter`), giving up (`FeedReject`), applying (`FeedApply`).

*The exchange.* Two independent invariants. `Answering` (types, `Retransmitting`,
`RecoveryExact`) needs nothing of the threads: while a request is served, the
messages recovered are those from its first to the least entry left in the list.
That the list begins with the first message asked for is `RecoveryListShape`;
that a request finds a bundle whenever one begins at or after its first message
is `BundlesFound`; both rest on `LeastExists`, that a set of numbers has a least
element, from the well-foundedness of `<`. `Joined` (types, `Serving`, `Passed`)
is about the two threads. The multicast thread may run after main's test, so
nothing can be said of what `next_mcast` is when the end is sent; what does not
change is the position that was tested. `Serving`: it lies at or below the next
item (or is no more than the login asked for), and the items are all below that.
`Passed`: the multicast has sent or dropped every message from its first to where
it is, and the position tested is one it had reached. `HandOver` is the two
together. In the refinement a step to a broken channel is the one action
`Break` (`ServerBreaks`); a packet is `Advance`, a dropped one a stutter, since
`next_mcast_packet` stays behind it; and what touches neither snapshot nor
connection nor `next_mcast` is a stutter (`ServerSees`).

*The orders.* Three invariants, each on the one before. `TInv` types the state and
says what a thread holds where it is. `PInv` says that no product is above the
number of entries, and that a cash book with an entry has its product: a new
product is then the number of entries with its own, larger than every other. A
book that gets its entry before its directory would break this, which is why
`DirectoryFirst` is needed. `MInv` says that no id is above `m_order_id`, that a
thread about to enter an id has the next one (`Working`), and that every order of
the table stands for the key that has its id, with what the exchange has of it
or had before the message the thread holds (`StandsFor`). `OneThread` is needed
because `get_unique_order_id` takes no lock: two threads may give one number
twice. `Exact`, that cash books have at most two decimals, is needed for the
prices of `TableMirrors` only (with more the multiplier is 0); `DistinctIds`
inherits it from the common invariant.

*What the orders tell others.* `QInv` adds to the types what the thread has to
do at each of its places: unless it is about to send the quote (`Quoting`), the
quote last sent for a product with orders is the inside of the table (`Quoted`).
The code asks an order whether it is on the best level before it changes or
removes it; the proof is that a step which then sends nothing leaves the inside
as it was: `BehindTheBest` for the order that is not on the best level,
`OtherOrders` for the other products, `FirstOrder` for the first of a product.
`ReplayMirrors` is inductive beside `MInv`: an execution becomes a reduction or
a removal in the file by what is left of the order in the table, and `Mirror` says
that this is what the exchange has left. `ExecutionsTrade` is about a step;
its invariant `UInv` says that the shared update record has been filled from the
message its thread holds (`Filled`), and that the price the exchange had is the
order's.

*The session and the epoll dispatcher.* `IInv` has, besides types: `Control`, who
holds the lock and where the reader may be; `Tables`, the agreement of contexts,
descriptors, the kernel's set and the open sockets in the six parts in which the
code can break it; `Passed`, that `start` has subscribed the connections of the
channels it has gone by; and `NoLostEdge`. The hard step is the descriptor that
is watched and not yet entered (`Entering`): `add_fd` has made the `epoll_ctl`
call and the table has no context for it. Under the lock, or before the reader
exists, nobody can see it; that is what `Late = FALSE` gives. A descriptor's
number is used again after a close; `ReadsOwn` holds because an entry of the
table is for the open socket's own context (`Entries`), and a number is free only
when its entry is gone (`LineSockets`, `Connections`). `AllClosed` is
made true by the one step that ends the main thread (`Join`): what is open for a line
belongs to a subscribed context (`LineSockets`), which `full_stop` closes.

*The kernel-bypass dispatcher.* There is no lock: the tables are touched by the
main thread until the reader starts, and by the reader alone afterwards
(`Control`). Starts and stops are then requests in a queue, served one at a time.
`Obeyed` speaks of an empty queue and is not inductive: `Orders` says that the
newest request waiting for a channel is what was asked last, and that a channel
with none waiting has its lines so. A request is skipped when the lines are
already as it asks; `Orders` is why that does no harm. `WatchedWithoutSnapshot` needs
`Unstarted`: what is subscribed before `run_loop` makes its set belongs to a
channel with a connection. The sets of descriptors of a start (one new socket for
each line, distinct) are reasoned about in `StartSyncEffect`.

*The simulator's dispatcher.* `IInv` has three parts. `TInv` is why the buffer of
the pipe never overflows, which nothing in the code tests. The client never leaves
more than a request between two boundaries (`Dense`: any `Window` of
`MsgLen + 2 * Marks - 1` bytes not yet had holds a boundary that is whole),
and no boundary is left unfound in the buffer, but for what the last search moved
to its front, less than a chunk (`Searched`); so what waits in it is below
`Window` and a chunk. `SInv`: the bytes of the socket that are left over follow
the messages handed on (`Left`). `FInv` is the framing. It holds up to the first request that breaks the
format (`spoiler` is the first request it does not hold for): one with a boundary inside,
or the one behind a request whose last byte has its value or that is
written in two pieces. Until it has been had (`Good`), the bytes not yet had are
exactly the requests not yet had, each with its boundary (`Promise`, `Lies`),
fewer than a frame of them are in the buffer, no boundary that ends behind the
request's last byte has been passed (`Unfound`), and an empty read can hand on
nothing, or the request whose boundary is to come (`Given`). The empty read is
why: it treats whatever is in the buffer as a message, and `Given` is what keeps
half a request from being handed on. That the search finds no boundary before
the last byte of the next request, nor before its own unless that byte has the
boundary's value, is `NextBoundary`, for every split of the bytes into reads and
every choice of bytes with that value.

*Only model-checked.* Liveness under fairness (`RefreshEnds`, `LoopEnds`,
`RequestAnswered`, `DataRead`, `ShutdownEnds`, `Heeded`), which this prover does
not do; and that the loop of `process_MDQ` is `ProcessMDQ` (`LoopIsProcessMDQ`), an
induction over a queue, for which the library's theorems take an operator as a
parameter, that no backend here can instantiate. Every other property of a
passing run is a theorem.

## 5. Not modelled, and the plan

Left out of `ItchChannel`: `m_drop_packets`, the recorder, heartbeats; the
branch of `read` for a closed socket (lines 2140-2151), which no dispatcher here
calls; the 16-bit width of a request; packets that arrive before
`update_channel_state` has made the channel (the code dereferences null there);
the missing lock around `process_MDQ` when a failed connect makes the starting
thread drain the queue, which the model does in one step.

Left out of `Exchange`: heartbeats and the pace of the sends (what waits for a
time may happen at any time); the reading past the end of the list; the bytes of
the requests; several clients, which the code would serve from one record; what
`main` does with a socket that is closed under it.

Left out of `ItchSession`: a snapshot dispatcher of its own (two epoll sets with
one socket), a second `start`, `udp_bind` and `add_udp_fd`, read errors other
than the end of a stream.

Left out of `OrderBook`: the messages `T` and `S`, the times of messages, the depth
update, and the inside of the table and of the recorder, which are libraries.

Left out of `OnloadDispatcher`: the library, time stamps, the requests join and
leave, which nothing makes or serves, a socket that fails, and
`TestOnLoad_Dispatcher.cpp`, a copy that prints. Left out of `SimDispatcher`: real
datagrams, several channels, `run` and `run_loop` (the simulator polls in its main
loop), `stop_sync` and `full_stop`, which follow an `is_done` that is never true.

Plan, most important first:

1. *Done*: `ItchChannel`, `OrderedFeed`, `MdqLoop`, `Exchange`,
   `SnapshotServer`, `OrderBook`, `EPollDispatcher`, `ItchSession`,
   `OnloadDispatcher` and `SimDispatcher`, their runs, and the theorems of
   section 4 about them.
2. `ExchangeClient`: client and exchange composed over a lossy multicast and a
   FIFO stream.
3. `StartHandshake`: the two processes of the simulator.
4. `MatchBook`, `AlertLimit`, `RecordReader`: the heap of the matching tool with
   its cancel, the alert limiter and the record loop of `Handler`.
