-------------------------- MODULE OnloadDispatcher --------------------------
(***************************************************************************)
(* OpenOnload_Dispatcher, the kernel-bypass dispatcher, under the session  *)
(* and the manager that use it.  It inherits the tables, add_tcp_fd,       *)
(* full_stop and clear of EPoll_Dispatcher; what differs is that no lock   *)
(* is taken: start and stop are requests that the reader thread serves     *)
(* between two polls, that its epoll is level-triggered, and that the      *)
(* thread begins with an epoll set of its own.                             *)
(*                                                                         *)
(* lock and ready of EPollDispatcher stay as they are: nobody locks, and   *)
(* what epoll_wait reports is what there is to read or write.              *)
(***************************************************************************)
EXTENDS EPollDispatcher, Sequences, SequencesExt, Functions

CONSTANTS
  SnapshotDisps,  \* snapshot_dispatcher: "none", or "same" (a set of cases)
  MaxRequests     \* requests of the manager (bound)

VARIABLES
  main,      \* "init", in update_channel_state; "establish" and "start", in
             \* the loops of the session's start; "up"; "join", in full_stop;
             \* "down"
  left,      \* the channels its loop has not seen
  snapshot_socket,
  requests,  \* m_requests
  asked,     \* requests of the manager so far
  wanted     \* history: the last thing asked for a channel, "" for nothing

place == <<main, left, snapshot_socket>>
queue == <<requests, asked, wanted>>
vars == <<dispatcher, place, queue>>

Turn(ch) == ch \in left /\ \A d \in left : ch <= d

----------------------------------------------------------------------------
(* start_sync, on one thread: every context of the channel that is not     *)
(* subscribed; a line gets a socket, of the lowest free number.            *)

NotStarted(ch) == { c \in added \ subscribed : c[1] = ch }

InSet_New(fs) == fs
InSet(fs) == epoll \cup fs

StartSync(ch) ==
  LET cs == NotStarted(ch) IN
  \E g \in Injection({ c \in cs : IsUdp(c) }, Fds \ Open) :
    /\ \A f \in Range(g), e \in (Fds \ Open) \ Range(g) : f < e
    /\ fd' = [c \in Contexts |-> IF c \in DOMAIN g THEN g[c] ELSE fd[c]]
    /\ owner' = [f \in Fds |-> IF f \in Range(g) THEN CHOOSE c \in DOMAIN g : g[c] = f
                               ELSE owner[f]]
    /\ epoll' = InSet({ fd'[c] : c \in cs })
    /\ fd_to_context' = [f \in Fds |-> IF \E c \in cs : fd'[c] = f
                                       THEN CHOOSE c \in cs : fd'[c] = f
                                       ELSE fd_to_context[f]]
    /\ subscribed' = subscribed \cup cs
    /\ UNCHANGED <<added, tcp_buffer, unread, closing, ready>>

(* start and stop of the dispatcher, for any thread.                       *)
Ask(command, ch) ==
  /\ requests' = Append(requests, [command |-> command, ch |-> ch])
  /\ wanted' = [wanted EXCEPT ![ch] = command]

----------------------------------------------------------------------------
(* The session: init, and start, before the reader runs.                   *)

(* establish_refresh_connection adds the connection and starts the channel *)
(* at once, on this thread.                                                *)
Connects(ch, f) ==
  /\ Opens(<<ch, HandlerTcp>>, f)
  /\ snapshot_socket' = [snapshot_socket EXCEPT ![ch] = f]
  /\ AddTcp(<<ch, HandlerTcp>>, f)
  /\ UNCHANGED <<epoll, unread, closing, ready>>

Connect(ch) ==
  /\ main = "init" /\ Turn(ch)
  /\ snapshot_socket[ch] = NoFd
  /\ \E f \in Fds : Connects(ch, f)
  /\ UNCHANGED <<main, left, queue, thread, lock>>

Started(ch) ==
  /\ main = "init" /\ Turn(ch) /\ left' = left \ {ch}
  /\ snapshot_socket[ch] # NoFd
  /\ StartSync(ch)
  /\ UNCHANGED <<main, snapshot_socket, queue, thread, lock>>

(* The server does not answer: the channel is left for the start.          *)
ConnectFails(ch) ==
  /\ main = "init" /\ Turn(ch) /\ left' = left \ {ch}
  /\ snapshot_socket[ch] = NoFd
  /\ UNCHANGED <<dispatcher, main, snapshot_socket, queue>>

Created ==
  /\ main = "init" /\ left = {} /\ left' = Chans
  /\ \/ "same" \in SnapshotDisps /\ main' = "establish"
     \/ "none" \in SnapshotDisps /\ main' = "start"
  /\ UNCHANGED <<dispatcher, snapshot_socket, queue>>

(* What is connected is added again; the server that did not answer still  *)
(* does not.                                                               *)
Establish(ch) ==
  /\ main = "establish" /\ Turn(ch) /\ left' = left \ {ch}
  /\ IF snapshot_socket[ch] # NoFd
     THEN AddTcp(<<ch, SessionTcp>>, snapshot_socket[ch]) ELSE UNCHANGED tables
  /\ UNCHANGED <<kernel, thread, lock, main, snapshot_socket, queue>>

Established ==
  /\ main = "establish" /\ left = {} /\ left' = Chans
  /\ main' = "start"
  /\ UNCHANGED <<dispatcher, snapshot_socket, queue>>

Start(ch) ==
  /\ main = "start" /\ Turn(ch) /\ left' = left \ {ch}
  /\ Ask("start", ch)
  /\ UNCHANGED <<dispatcher, main, snapshot_socket, asked>>

----------------------------------------------------------------------------
(* The manager: run, the commands for a line, full_stop.                   *)

ManagerRuns ==
  /\ main = "start" /\ left = {} /\ main' = "up"
  /\ running' = TRUE /\ reader' = "started"
  /\ UNCHANGED <<tables, kernel, batch, cur, lock, left, snapshot_socket, queue>>

MayAsk == main = "up" /\ asked < MaxRequests /\ asked' = asked + 1

StartLine(ch) ==
  /\ MayAsk
  /\ Ask("start", ch)
  /\ UNCHANGED <<dispatcher, place>>

Stop_Now(ch) == StopSync(ch) /\ UNCHANGED <<requests, wanted>>
Stop(ch) == Ask("stop", ch) /\ UNCHANGED <<tables, kernel>>

StopLine(ch) ==
  /\ MayAsk
  /\ Stop(ch)
  /\ UNCHANGED <<thread, lock, place>>

Shutdown ==
  /\ main = "up" /\ main' = "join"
  /\ running' = FALSE
  /\ UNCHANGED <<tables, kernel, reader, batch, cur, lock, left, snapshot_socket, queue>>

(* Requests nobody has served are forgotten.                               *)
Join ==
  /\ main = "join" /\ main' = "down"
  /\ reader = "off"
  /\ Clear
  /\ UNCHANGED <<thread, lock, left, snapshot_socket, queue>>

----------------------------------------------------------------------------
(* The reader: run_loop, poll_one, handle_request.                         *)

(* The set made by the constructor is closed, with what it watched; the    *)
(* contexts stay subscribed.                                               *)
NewSet ==
  /\ reader = "started" /\ reader' = "idle"
  /\ epoll' = {}
  /\ UNCHANGED <<tables, ready, owner, unread, closing, running, batch, cur, lock, place, queue>>

(* A connection can always be written.                                     *)
Reported_One == { f \in epoll : \A g \in epoll : f <= g }
Reported == { f \in epoll : f \in unread \cup closing \/ ~ IsUdp(owner[f]) }

PollWait ==
  /\ reader = "idle"
  /\ reader' = IF running THEN "batch" ELSE "off"
  /\ batch' = IF running THEN Reported ELSE {}
  /\ UNCHANGED <<tables, kernel, running, cur, lock, place, queue>>

Look(f) == Take(f) /\ UNCHANGED <<place, queue>>

(* onload_zc_recv gives the handler what is there; so does the loop of     *)
(* recvfrom for a socket the library does not handle.                      *)
ReadUdp ==
  /\ reader = "reading" /\ IsUdp(Context)
  /\ unread' = unread \ {cur}
  /\ ReadEnds
  /\ UNCHANGED <<tables, epoll, owner, closing, ready, running, batch, lock, place, queue>>

ReadTcp ==
  /\ reader = "reading" /\ ~ IsUdp(Context)
  /\ Read
  /\ UNCHANGED <<place, queue>>

(* Nothing, or the end of the stream with the errno of an earlier call:    *)
(* read without data.                                                      *)
ReadTcpNothing ==
  /\ reader = "reading" /\ ~ IsUdp(Context)
  /\ cur \notin unread
  /\ ReadEnds
  /\ UNCHANGED <<tables, kernel, running, batch, lock, place, queue>>

ReadTcpEof ==
  /\ ReadEof
  /\ UNCHANGED <<place, queue>>

PollEnds ==
  /\ reader = "batch" /\ reader' = "requests"
  /\ batch = {}
  /\ UNCHANGED <<tables, kernel, running, batch, cur, lock, place, queue>>

(* handle_request.                                                         *)
Position_Last == Len(requests)
Position == 1
NextRequest == requests[Position]

HandleRequest ==
  /\ reader = "requests" /\ requests # <<>>
  /\ requests' = RemoveAt(requests, Position)
  /\ \/ NextRequest.command = "start" /\ StartSync(NextRequest.ch)
     \/ NextRequest.command = "stop" /\ StopSync(NextRequest.ch)
  /\ UNCHANGED <<thread, lock, place, asked, wanted>>

LoopAgain ==
  /\ reader = "requests" /\ reader' = "idle"
  /\ requests = <<>>
  /\ UNCHANGED <<tables, kernel, running, batch, cur, lock, place, queue>>

----------------------------------------------------------------------------
(* The kernel: data arrives, the other side closes.                        *)
Arrival(f) ==
  /\ f \in Open \ (closing \cup unread)
  /\ unread' = unread \cup {f}
  /\ UNCHANGED <<tables, epoll, owner, closing, ready, thread, lock, place, queue>>

Closing(f) ==
  /\ f \in Open \ closing /\ ~ IsUdp(owner[f])
  /\ closing' = closing \cup {f}
  /\ UNCHANGED <<tables, epoll, owner, unread, ready, thread, lock, place, queue>>

----------------------------------------------------------------------------
Init ==
  /\ DispatcherInit
  /\ main = "init" /\ left = Chans
  /\ snapshot_socket = [ch \in Chans |-> NoFd]
  /\ requests = <<>> /\ asked = 0 /\ wanted = [ch \in Chans |-> ""]

Session ==
  \/ \E ch \in Chans : Connect(ch) \/ Started(ch) \/ ConnectFails(ch) \/ Establish(ch) \/ Start(ch)
  \/ Created \/ Established
Manager ==
  ManagerRuns \/ Shutdown \/ Join \/ \E ch \in Chans : StartLine(ch) \/ StopLine(ch)
Reader ==
  \/ NewSet \/ PollWait \/ (\E f \in Fds : Look(f))
  \/ ReadUdp \/ ReadTcp \/ ReadTcpNothing \/ ReadTcpEof
  \/ PollEnds \/ HandleRequest \/ LoopAgain

Next == Session \/ Manager \/ Reader \/ \E f \in Fds : Arrival(f) \/ Closing(f)

Spec == Init /\ [][Next]_vars

(* The reader's thread goes on; the stream of a connection pauses now and  *)
(* then.                                                                   *)
FairSpec == Spec /\ WF_vars(Reader) /\ SF_vars(ReadTcpNothing)

----------------------------------------------------------------------------
(* The tables and the set agree without a lock: an entry leads to a        *)
(* subscribed context whose socket is open, and what is watched has an     *)
(* entry.                                                                  *)
Registered ==
  /\ \A f \in Fds : LET c == fd_to_context[f] IN
       c # NoContext => /\ c \in subscribed /\ fd[c] = f /\ owner[f] # NoContext
                        /\ owner[f][1] = c[1]
  /\ \A f \in epoll : fd_to_context[f] # NoContext

(* The last thing asked of a channel is what has been done, once all       *)
(* requests are served.                                                    *)
Obeyed ==
  requests = <<>> /\ main = "up" =>
    \A ch \in Chans, k \in 1 .. Lines : <<ch, k>> \in subscribed <=> wanted[ch] = "start"

(* The descriptor being read is open, and read for the channel it belongs  *)
(* to, although lines are stopped and numbers used again.                  *)
ReadsOwn ==
  reader = "reading" => Context # NoContext /\ owner[cur] # NoContext /\ owner[cur][1] = Context[1]

(* A line that is subscribed is watched from the moment the reader has its *)
(* own set, when no snapshot connection was made before.  (When one was,   *)
(* the channel's lines are watched in the set NewSet closes, and stay      *)
(* subscribed: nothing that arrives on them is ever read.)                 *)
Watched(ch) ==
  reader \notin {"off", "started"} =>
    \A k \in 1 .. Lines : <<ch, k>> \in subscribed => fd[<<ch, k>>] \in epoll
WatchedWithoutSnapshot == \A ch \in Chans : snapshot_socket[ch] = NoFd => Watched(ch)

(* What has arrived on a watched descriptor is read, or the line stopped.  *)
DataRead ==
  \A f \in Fds :
    f \in epoll \cap unread /\ running ~> f \notin epoll \cap unread \/ ~ running
=============================================================================
