---------------------------- MODULE ItchSession ----------------------------
(***************************************************************************)
(* The start and the stop of the ASX ITCH client around its dispatcher:    *)
(* the main thread in ASX_ITCH_Session::init and start, in the handler's   *)
(* update_channel_state and establish_refresh_connection, and in the       *)
(* commands of the manager (start and stop of a line, shutdown), beside    *)
(* the dispatcher's reader thread.                                         *)
(***************************************************************************)
EXTENDS EPollDispatcher

CONSTANTS
  SnapshotDisps,  \* snapshot_dispatcher of the configuration: "none", or
                  \* "same" for the dispatcher of the multicast (a set of cases)
  Faults,         \* what may go wrong: "connect" to the snapshot server fails,
                  \* a call on a "socket" in start_sync fails
  Late            \* TRUE: the dispatcher may run before the session starts

ASSUME SessionAssumption ==
  /\ SnapshotDisps \subseteq {"none", "same"}
  /\ Faults \subseteq {"connect", "socket"}
  /\ Late \in BOOLEAN

VARIABLES
  main,     \* the main thread: "init", in update_channel_state; "establish"
            \* and "start", in the loops of start; "up"; "sync", in the loop of
            \* start_sync; "enter", in add_fd; "join", in full_stop; "down";
            \* "failed", an exception has left the session
  back,     \* where start_sync returns to
  left,     \* the channels the loop of main has not seen
  chan, at, \* the channel and the context start_sync is at
  snapshot_socket  \* channel_info::snapshot_socket

place == <<main, back, left, chan, at>>
vars == <<dispatcher, place, snapshot_socket>>

TypeOK ==
  /\ DispatcherTypeOK
  /\ main \in {"init", "establish", "start", "up", "sync", "enter", "join", "down", "failed"}
  /\ back \in {"init", "establish", "start", "up"}
  /\ left \subseteq Chans /\ chan \in Chans
  /\ at \in 1 .. SessionTcp + 1
  /\ snapshot_socket \in [Chans -> Fds \cup {NoFd}]

----------------------------------------------------------------------------
(* start_sync, for the contexts of a channel in the order of m_contexts.   *)
(* (sync_tcp_channel finds the connection recorded already; the socket     *)
(* sync_udp_channel records is left out.)                                  *)

Sync(ch) ==
  /\ main' = "sync" /\ back' = main
  /\ chan' = ch /\ at' = 1

(* The loops go through m_channel_info_map in its order.                   *)
Turn(ch) == ch \in left /\ \A d \in left : ch <= d

Here == <<chan, at>>
AtContext_OneMore == main = "sync" /\ at <= SessionTcp + 1
AtContext == main = "sync" /\ at <= SessionTcp

(* The lock of start is released, the one of start_sync was never taken.   *)
Release == lock' = IF lock = "main" THEN "free" ELSE lock

SyncSkip ==
  /\ AtContext /\ at' = at + 1
  /\ Here \notin added \ subscribed
  /\ UNCHANGED <<dispatcher, main, back, left, chan, snapshot_socket>>

SyncLine ==
  /\ AtContext /\ main' = "enter"
  /\ Here \in added \ subscribed /\ IsUdp(Here)
  /\ \E f \in Fds :
       /\ Opens(Here, f)
       /\ fd' = [fd EXCEPT ![Here] = f]
       /\ Watch(Here, f)
  /\ UNCHANGED <<added, subscribed, fd_to_context, tcp_buffer, unread, closing,
                 thread, lock, back, left, chan, at, snapshot_socket>>

SyncTcp ==
  /\ AtContext /\ main' = "enter"
  /\ Here \in added \ subscribed /\ ~ IsUdp(Here)
  /\ fd[Here] \notin epoll
  /\ Watch(Here, fd[Here])
  /\ UNCHANGED <<tables, owner, unread, closing, thread, lock, back, left, chan, at, snapshot_socket>>

SyncEnter ==
  /\ main = "enter" /\ main' = "sync" /\ at' = at + 1
  /\ Enter(Here)
  /\ UNCHANGED <<added, fd, tcp_buffer, kernel, thread, lock, back, left, chan, snapshot_socket>>

(* start_sync and add_fd throw; the socket may have been opened.  epoll_ctl*)
(* refuses a descriptor that is in the set.                                *)
SyncFails ==
  /\ AtContext /\ main' = "failed"
  /\ Here \in added \ subscribed
  /\ \/ /\ IsUdp(Here) /\ "socket" \in Faults
        /\ \/ UNCHANGED <<owner, fd>>
           \/ \E f \in Fds : Opens(Here, f) /\ fd' = [fd EXCEPT ![Here] = f]
     \/ /\ ~ IsUdp(Here) /\ fd[Here] \in epoll
        /\ UNCHANGED <<owner, fd>>
  /\ Release
  /\ UNCHANGED <<added, subscribed, fd_to_context, tcp_buffer, epoll, unread, closing, ready,
                 thread, back, left, chan, at, snapshot_socket>>

SyncEnd ==
  /\ main = "sync" /\ at > SessionTcp
  /\ main' = back
  /\ chan' = 1 /\ at' = 1 /\ back' = "init"
  /\ Release
  /\ UNCHANGED <<tables, kernel, thread, left, snapshot_socket>>

Syncing == SyncSkip \/ SyncLine \/ SyncTcp \/ SyncEnter \/ SyncFails \/ SyncEnd

----------------------------------------------------------------------------
(* init: update_channel_state, try_connect_snapshot.                       *)

(* establish_refresh_connection of a channel that is not connected; the    *)
(* session tries all in turn, update_channel_state a channel once.         *)
Connect(ch) ==
  /\ snapshot_socket[ch] = NoFd
  /\ \E f \in Fds :
       /\ Opens(<<ch, HandlerTcp>>, f)
       /\ snapshot_socket' = [snapshot_socket EXCEPT ![ch] = f]
       /\ AddTcp(<<ch, HandlerTcp>>, f)
  /\ Sync(ch)
  /\ UNCHANGED <<epoll, unread, closing, ready, thread, lock>>

ConnectFails(ch) ==
  /\ "connect" \in Faults
  /\ snapshot_socket[ch] = NoFd
  /\ left' = left \ {ch}
  /\ UNCHANGED <<dispatcher, main, back, chan, at, snapshot_socket>>

Create(ch) ==
  /\ main = "init" /\ Turn(ch)
  /\ \/ Connect(ch) /\ left' = left \ {ch}
     \/ ConnectFails(ch)

Created ==
  /\ main = "init" /\ left = {}
  /\ \/ "same" \in SnapshotDisps /\ main' = "establish"
     \/ "none" \in SnapshotDisps /\ main' = "start"
  /\ left' = Chans
  /\ UNCHANGED <<dispatcher, back, chan, at, snapshot_socket>>

----------------------------------------------------------------------------
(* start.                                                                  *)

(* The session connects what is not connected, and adds what is.           *)
Establish(ch) ==
  /\ main = "establish" /\ Turn(ch)
  /\ \/ Connect(ch) /\ UNCHANGED left
     \/ ConnectFails(ch)
     \/ /\ snapshot_socket[ch] # NoFd
        /\ AddTcp(<<ch, SessionTcp>>, snapshot_socket[ch])
        /\ left' = left \ {ch}
        /\ UNCHANGED <<kernel, thread, lock, main, back, chan, at, snapshot_socket>>

Established ==
  /\ main = "establish" /\ left = {}
  /\ main' = "start" /\ left' = Chans
  /\ UNCHANGED <<dispatcher, back, chan, at, snapshot_socket>>

TakeLock_Forgotten == UNCHANGED lock
TakeLock == lock = "free" /\ lock' = "main"

(* EPoll_Dispatcher::start; the update_channel_state that follows the loop *)
(* finds every channel made.                                               *)
Start(ch) ==
  /\ main = "start" /\ Turn(ch)
  /\ left' = left \ {ch}
  /\ TakeLock
  /\ Sync(ch)
  /\ UNCHANGED <<tables, kernel, thread, snapshot_socket>>

Started ==
  /\ main = "start" /\ left = {}
  /\ main' = "up"
  /\ UNCHANGED <<dispatcher, back, left, chan, at, snapshot_socket>>

----------------------------------------------------------------------------
(* The manager.                                                            *)

ManagerRuns ==
  /\ main = "up" \/ (Late /\ main \notin {"join", "down"})
  /\ Run
  /\ UNCHANGED <<place, snapshot_socket>>

StartLine(ch) ==
  /\ main = "up"
  /\ TakeLock
  /\ Sync(ch)
  /\ UNCHANGED <<tables, kernel, thread, left, snapshot_socket>>

(* stop: the lock is taken and released.                                   *)
MayStop_Unlocked == TRUE
MayStop == lock = "free"

StopLine(ch) ==
  /\ main = "up"
  /\ MayStop
  /\ StopSync(ch)
  /\ UNCHANGED <<thread, lock, place, snapshot_socket>>

(* full_stop: when the reader has ended, the tables are cleared.          *)
JoinLock_Held == lock = "free" /\ lock' = "main"
JoinLock == UNCHANGED lock

Shutdown ==
  /\ main = "up" /\ main' = "join"
  /\ running' = FALSE
  /\ JoinLock
  /\ UNCHANGED <<tables, kernel, reader, batch, cur, back, left, chan, at, snapshot_socket>>

Join ==
  /\ main = "join" /\ main' = "down"
  /\ reader = "off"
  /\ Clear
  /\ UNCHANGED <<thread, lock, back, left, chan, at, snapshot_socket>>

----------------------------------------------------------------------------
Init ==
  /\ DispatcherInit
  /\ main = "init" /\ back = "init" /\ left = Chans
  /\ chan = 1 /\ at = 1
  /\ snapshot_socket = [ch \in Chans |-> NoFd]

MainStep ==
  \/ Syncing
  \/ \E ch \in Chans : Create(ch) \/ Establish(ch) \/ Start(ch)
  \/ Created \/ Established \/ Started \/ Join
Manager == ManagerRuns \/ Shutdown \/ \E ch \in Chans : StartLine(ch) \/ StopLine(ch)

Next ==
  \/ (Environment \/ Poll) /\ UNCHANGED <<place, snapshot_socket>>
  \/ MainStep
  \/ Manager

Spec == Init /\ [][Next]_vars

(* Main goes on to the end of what it is asked; the reader polls as long   *)
(* as it is started, gets the lock when others come for it too, and comes  *)
(* to the end of what is waiting on a descriptor now and then.             *)
FairSpec ==
  /\ Spec
  /\ WF_vars(MainStep)
  /\ WF_vars(Poll /\ UNCHANGED <<place, snapshot_socket>>)
  /\ SF_vars(Lock /\ UNCHANGED <<place, snapshot_socket>>)
  /\ SF_vars(ReadNothing /\ UNCHANGED <<place, snapshot_socket>>)

----------------------------------------------------------------------------
(* Safety.                                                                 *)

(* The four tables of the dispatcher and the kernel's set agree: an entry  *)
(* of m_fd_to_context leads to a subscribed context of that descriptor,    *)
(* whose socket is open and watched; what is watched has an entry, but for *)
(* the descriptor add_fd is about to enter; a subscribed line is entered.  *)
Registered ==
  /\ \A f \in Fds : LET c == fd_to_context[f] IN
       c # NoContext =>
         /\ c \in subscribed /\ fd[c] = f /\ f \in epoll
         /\ IF IsUdp(c) THEN owner[f] = c
            ELSE owner[f] = <<c[1], HandlerTcp>> /\ f \in tcp_buffer
  /\ \A f \in epoll :
       fd_to_context[f] # NoContext \/ (main = "enter" /\ f = fd[Here])
  /\ \A c \in subscribed : IsUdp(c) => fd_to_context[fd[c]] = c

(* Events are edge-triggered: one that is lost never comes again.  A       *)
(* watched descriptor with something to read has an event to be reported,  *)
(* or reported and not looked at, or is being read.                        *)
NoLostEdge ==
  \A f \in epoll \cap (unread \cup closing) :
    f \in ready \cup batch \/ (reader = "reading" /\ cur = f)

(* The descriptor being read is open and the context it is read for is the *)
(* one of its channel, although epoll_wait reports before the lock and     *)
(* numbers are closed and used again: a message never reaches another      *)
(* channel.                                                                *)
ReadsOwn ==
  reader = "reading" => Context # NoContext /\ owner[cur] # NoContext /\ owner[cur][1] = Context[1]

(* After full_stop no line of the multicast is left open.                  *)
AllClosed ==
  main = "down" => \A f \in Fds : owner[f] # NoContext => ~ IsUdp(owner[f])

----------------------------------------------------------------------------
(* Liveness.                                                               *)

(* What has arrived on a watched descriptor is read, or the line stopped.  *)
DataRead ==
  \A f \in Fds :
    f \in epoll \cap unread /\ running ~> f \notin epoll \cap unread \/ ~ running

(* full_stop comes to its end.                                             *)
ShutdownEnds == main = "join" ~> main = "down"

----------------------------------------------------------------------------
(* What comments of the code say of it, and the code does not keep.        *)

(* establish_refresh_connection: "don't throw, snapshot is not critical".  *)
(* With nothing failing no exception ends the start of the session.        *)
SnapshotNotCritical == main # "failed"
=============================================================================
