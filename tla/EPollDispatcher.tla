-------------------------- MODULE EPollDispatcher --------------------------
(***************************************************************************)
(* EPoll_Dispatcher: contexts, the tables indexed by descriptor, the lock, *)
(* the reader thread with its edge-triggered epoll, and the kernel's side  *)
(* of the descriptors.  What other threads ask of the dispatcher is given  *)
(* as operations, which ItchSession composes.                              *)
(*                                                                         *)
(* A context is <<channel, k>>: k up to Lines for a multicast line of the  *)
(* channel, then the snapshot connection as the handler adds it, and as    *)
(* the session adds it.  What is received, from whom, and the bytes left   *)
(* in a TCP buffer are left out: data is waiting on a descriptor or not.   *)
(*                                                                         *)
(* An operator Name_Variant, before the operator Name, is what Name would  *)
(* be under a plausible mistake in the code.                               *)
(***************************************************************************)
EXTENDS Integers

CONSTANTS
  Channels,  \* how many channels
  Lines,     \* multicast lines of a channel (2, A and B, in the code)
  MaxFd      \* descriptors of the process (bound)

ASSUME DispatcherAssumption ==
  Channels \in Nat \ {0} /\ Lines \in Nat \ {0} /\ MaxFd \in Nat

Chans == 1 .. Channels
HandlerTcp == Lines + 1
SessionTcp == Lines + 2
Contexts == Chans \X (1 .. SessionTcp)
IsUdp(c) == c[2] <= Lines
NoContext == <<>>
Fds == 1 .. MaxFd
NoFd == 0

VARIABLES
  added,          \* the contexts in m_contexts
  fd,             \* Context::fd
  subscribed,     \* the contexts that are subscribed
  fd_to_context,  \* m_fd_to_context
  tcp_buffer,     \* the descriptors with a buffer in m_fd_to_tcp_buffer
  lock,           \* m_mutex: "free", or who holds it
  epoll,          \* kernel: the descriptors in the epoll set
  owner,          \* kernel: the open descriptors, and the context each is for
  unread,         \* kernel: descriptors with data to read
  closing,        \* kernel: connections the other side has closed
  ready,          \* kernel: descriptors with an event not yet reported
  running,        \* m_started
  reader,         \* the reader thread: "off"; "idle", in epoll_wait; "woken",
                  \* with events but not the lock; "batch", in the loop over
                  \* them; "reading", in a loop of recvs
  batch,          \* m_events, those not yet looked at
  cur             \* the descriptor being read, if any

tables == <<added, fd, subscribed, fd_to_context, tcp_buffer>>
kernel == <<epoll, owner, unread, closing, ready>>
thread == <<running, reader, batch, cur>>
dispatcher == <<tables, kernel, thread, lock>>

DispatcherTypeOK ==
  /\ added \subseteq Contexts
  /\ fd \in [Contexts -> Fds \cup {NoFd}]
  /\ subscribed \subseteq Contexts
  /\ fd_to_context \in [Fds -> Contexts \cup {NoContext}]
  /\ tcp_buffer \subseteq Fds
  /\ lock \in {"free", "main", "reader"}
  /\ epoll \subseteq Fds /\ unread \subseteq Fds
  /\ closing \subseteq Fds /\ ready \subseteq Fds
  /\ owner \in [Fds -> Contexts \cup {NoContext}]
  /\ running \in BOOLEAN
  /\ reader \in {"off", "idle", "woken", "batch", "reading"}
  /\ batch \subseteq Fds
  /\ cur \in Fds \cup {NoFd}

(* mcast_join has been called for every line of every channel.             *)
DispatcherInit ==
  /\ added = Chans \X (1 .. Lines)
  /\ fd = [c \in Contexts |-> NoFd]
  /\ subscribed = {}
  /\ fd_to_context = [f \in Fds |-> NoContext]
  /\ tcp_buffer = {} /\ lock = "free"
  /\ epoll = {} /\ unread = {} /\ closing = {} /\ ready = {}
  /\ owner = [f \in Fds |-> NoContext]
  /\ running = FALSE /\ reader = "off" /\ batch = {} /\ cur = NoFd

----------------------------------------------------------------------------
(* The kernel.                                                             *)

Open == { f \in Fds : owner[f] # NoContext }

(* socket and connect_tcp take the lowest free number.                     *)
Opens(c, f) ==
  /\ f \in Fds \ Open /\ \A g \in Fds \ Open : f <= g
  /\ owner' = [owner EXCEPT ![f] = c]

(* Data arrives where none is waiting, or the other side closes.  (More on *)
(* top of what is waiting would only add events.)                          *)
Event(f) == ready' = IF f \in epoll THEN ready \cup {f} ELSE ready

Arrive(f) ==
  /\ f \in Open \ (closing \cup unread)
  /\ unread' = unread \cup {f}
  /\ Event(f)
  /\ UNCHANGED <<tables, epoll, owner, closing, thread, lock>>

Close(f) ==
  /\ f \in Open \ closing /\ ~ IsUdp(owner[f])
  /\ closing' = closing \cup {f}
  /\ Event(f)
  /\ UNCHANGED <<tables, epoll, owner, unread, thread, lock>>

----------------------------------------------------------------------------
(* Operations of other threads.                                            *)

AddTcp(c, f) ==
  /\ added' = added \cup {c}
  /\ fd' = [fd EXCEPT ![c] = f]
  /\ tcp_buffer' = tcp_buffer \cup {f}
  /\ UNCHANGED <<subscribed, fd_to_context>>

(* add_fd, to epoll_ctl: an event is due at once for what can be written,  *)
(* or has data; the entry in the table follows.                            *)
Watch(c, f) ==
  /\ epoll' = epoll \cup {f}
  /\ ready' = IF ~ IsUdp(c) \/ f \in unread \cup closing THEN ready \cup {f} ELSE ready

Enter(c) ==
  /\ fd_to_context' = [fd_to_context EXCEPT ![fd[c]] = c]
  /\ subscribed' = subscribed \cup {c}

(* What the kernel forgets of descriptors taken out of the set and closed. *)
Forget(out, closed) ==
  /\ epoll' = epoll \ out
  /\ ready' = ready \ out
  /\ owner' = [f \in Fds |-> IF f \in closed THEN NoContext ELSE owner[f]]
  /\ unread' = unread \ closed
  /\ closing' = closing \ closed

(* stop_sync: the connection of the channel stays.                         *)
Stopped(ch) == { c \in subscribed : c[1] = ch /\ IsUdp(c) }

(* remove_fd: the entry of a descriptor in the table.                      *)
Emptied_Kept(out) == fd_to_context
Emptied(out) == [f \in Fds |-> IF f \in out THEN NoContext ELSE fd_to_context[f]]

StopSync(ch) ==
  LET out == { fd[c] : c \in Stopped(ch) } IN
  /\ fd' = [c \in Contexts |-> IF c \in Stopped(ch) THEN NoFd ELSE fd[c]]
  /\ subscribed' = subscribed \ Stopped(ch)
  /\ fd_to_context' = Emptied(out)
  /\ tcp_buffer' = tcp_buffer \ out
  /\ Forget(out, out)
  /\ UNCHANGED added

(* clear: only what is subscribed is closed, and no connection.            *)
Cleared_None == {}
Cleared == { fd[c] : c \in { d \in subscribed : IsUdp(d) } }

Clear ==
  /\ subscribed' = {}
  /\ fd_to_context' = [f \in Fds |-> NoContext]
  /\ tcp_buffer' = {}
  /\ Forget({ fd[c] : c \in subscribed }, Cleared)
  /\ UNCHANGED <<added, fd>>

----------------------------------------------------------------------------
(* The reader thread: run, run_loop, poll_one.                             *)

Run ==
  /\ reader = "off" /\ reader' = "idle"
  /\ running' = TRUE
  /\ UNCHANGED <<tables, kernel, batch, cur, lock>>

(* epoll_wait, before the lock is taken; the thread may be in it when      *)
(* m_started is reset.  Bound: fewer descriptors than max_events.          *)
Wait ==
  /\ reader = "idle"
  /\ ready # {}
  /\ reader' = "woken" /\ batch' = ready /\ ready' = {}
  /\ UNCHANGED <<tables, epoll, owner, unread, closing, running, cur, lock>>

Lock ==
  /\ reader = "woken" /\ reader' = "batch"
  /\ lock = "free"
  /\ lock' = "reader"
  /\ UNCHANGED <<tables, kernel, running, batch, cur>>

(* An event of a descriptor that has no context, or no buffer, is skipped. *)
Readable(f) ==
  fd_to_context[f] # NoContext /\ (IsUdp(fd_to_context[f]) \/ f \in tcp_buffer)

Take(f) ==
  /\ reader = "batch"
  /\ f \in batch /\ batch' = batch \ {f}
  /\ IF Readable(f) THEN reader' = "reading" /\ cur' = f
                    ELSE UNCHANGED <<reader, cur>>
  /\ UNCHANGED <<tables, kernel, running, lock>>

(* parse, or read with what the buffer holds, for the context of cur; it   *)
(* may not have been all.                                                  *)
Context == fd_to_context[cur]

ReadEnds == reader' = "batch" /\ cur' = NoFd
AfterRead_Once == ReadEnds
AfterRead == UNCHANGED <<reader, cur>>

Read ==
  /\ reader = "reading"
  /\ cur \in unread
  /\ unread' = unread \ {cur} \/ UNCHANGED unread
  /\ AfterRead
  /\ UNCHANGED <<tables, epoll, owner, closing, ready, running, batch, lock>>

(* Nothing more to read: EAGAIN, and read without data for a connection.   *)
ReadNothing ==
  /\ reader = "reading" /\ ReadEnds
  /\ cur \notin unread
  /\ IsUdp(Context) \/ cur \notin closing
  /\ UNCHANGED <<tables, kernel, running, batch, lock>>

(* remove_fd; the context stays subscribed and the socket open.            *)
ReadEof ==
  /\ reader = "reading" /\ ReadEnds
  /\ cur \notin unread
  /\ ~ IsUdp(Context) /\ cur \in closing
  /\ epoll' = epoll \ {cur} /\ ready' = ready \ {cur}
  /\ fd_to_context' = Emptied({cur})
  /\ tcp_buffer' = tcp_buffer \ {cur}
  /\ UNCHANGED <<added, fd, subscribed, owner, unread, closing, running, batch, lock>>

Unlock ==
  /\ reader = "batch"
  /\ batch = {}
  /\ lock' = "free"
  /\ reader' = IF running THEN "idle" ELSE "off"
  /\ UNCHANGED <<tables, kernel, running, batch, cur>>

(* epoll_wait times out after m_started has been reset.                    *)
Exit ==
  /\ reader = "idle" /\ reader' = "off"
  /\ ~ running
  /\ UNCHANGED <<tables, kernel, running, batch, cur, lock>>

Environment == \E f \in Fds : Arrive(f) \/ Close(f)
Poll ==
  Wait \/ Lock \/ (\E f \in Fds : Take(f)) \/ Read \/ ReadNothing \/ ReadEof \/ Unlock
  \/ Exit
=============================================================================
