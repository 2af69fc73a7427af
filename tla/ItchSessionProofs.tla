------------------------- MODULE ItchSessionProofs -------------------------
(***************************************************************************)
(* Theorems about ItchSession, and so about EPollDispatcher under it: type *)
(* correctness, and for a session that starts before its dispatcher runs   *)
(* (Late is FALSE), for any number of channels, lines and descriptors, the *)
(* agreement of the tables with the kernel, that no edge is lost, that     *)
(* what is read is read for its own channel, and that no line stays open.  *)
(***************************************************************************)
EXTENDS ItchSession, TLAPS

----------------------------------------------------------------------------
(* The inductive invariant.                                                *)

(* add_fd enters a context of m_contexts; a connection has a descriptor.   *)
TInv ==
  /\ TypeOK
  /\ main = "enter" => at <= SessionTcp
  /\ \A c \in added : ~ IsUdp(c) => fd[c] \in Fds

(* What main is about, start_sync being part of it.                        *)
InSync == main \in {"sync", "enter"}
Phase == IF InSync THEN back ELSE main
Starting == Phase \in {"init", "establish", "start"}

(* Who holds the lock, and where the reader may be.                        *)
Control ==
  /\ Starting => reader = "off" /\ running = FALSE
  /\ lock = "main" <=> InSync /\ back \in {"start", "up"}
  /\ lock = "reader" <=> reader \in {"batch", "reading"}
  /\ reader \in {"off", "idle"} => batch = {}
  /\ reader = "reading" => cur \in Fds /\ Readable(cur)
  /\ main = "down" => reader = "off"

(* The three parts of Registered.                                          *)
Entry(f, c) ==
  /\ c \in subscribed /\ fd[c] = f /\ f \in epoll
  /\ IF IsUdp(c) THEN owner[f] = c
     ELSE owner[f] = <<c[1], HandlerTcp>> /\ f \in tcp_buffer
Entries == \A f \in Fds : fd_to_context[f] # NoContext => Entry(f, fd_to_context[f])
Watching ==
  \A f \in epoll : fd_to_context[f] # NoContext \/ (main = "enter" /\ f = fd[Here])
Lined == \A c \in subscribed : IsUdp(c) => fd[c] \in Fds /\ fd_to_context[fd[c]] = c

(* Between epoll_ctl and the entry in the table.                           *)
Entering ==
  main = "enter" =>
    /\ Here \in added \ subscribed
    /\ fd[Here] \in epoll /\ fd_to_context[fd[Here]] = NoContext
    /\ IF IsUdp(Here) THEN owner[fd[Here]] = Here
       ELSE owner[fd[Here]] = <<chan, HandlerTcp>> /\ fd[Here] \in tcp_buffer

(* The socket of a line is the one its context has, and it is closed with  *)
(* the context; an exception may leave it behind.                          *)
LineSockets ==
  \A f \in Fds : owner[f] # NoContext /\ IsUdp(owner[f]) =>
    /\ fd[owner[f]] = f
    /\ owner[f] \in subscribed \/ (main = "enter" /\ owner[f] = Here) \/ main = "failed"

(* The contexts of a connection share the socket of their channel.         *)
Connections ==
  /\ \A ch \in Chans : snapshot_socket[ch] # NoFd =>
       /\ owner[snapshot_socket[ch]] = <<ch, HandlerTcp>>
       /\ Starting => snapshot_socket[ch] \in tcp_buffer
  /\ \A c \in added : ~ IsUdp(c) =>
       snapshot_socket[c[1]] # NoFd /\ fd[c] = snapshot_socket[c[1]]
  /\ subscribed \subseteq added

(* The other side closes connections only.                                 *)
ClosingTcp == \A f \in closing : owner[f] # NoContext /\ ~ IsUdp(owner[f])

(* start has subscribed the connections of the channels it has gone by.    *)
Joined(c) == c \in added /\ ~ IsUdp(c) => c \in subscribed
Passed ==
  /\ Phase = "start" =>
       \A c \in Contexts : c[1] \notin left =>
         Joined(c) \/ (InSync /\ c[1] = chan /\ c[2] >= at)
  /\ Phase = "up" => \A c \in Contexts : Joined(c)

Tables == Entries /\ Watching /\ Lined /\ Entering /\ LineSockets /\ Connections

IInv == TInv /\ Control /\ Tables /\ ClosingTcp /\ Passed /\ NoLostEdge

----------------------------------------------------------------------------
(* Contexts.                                                               *)

LEMMA ContextFields ==
  /\ \A c \in Contexts : /\ c[1] \in Chans /\ c[2] \in 1 .. SessionTcp
                         /\ c = <<c[1], c[2]>> /\ c # NoContext
  /\ NoContext \notin Contexts
BY DEF Contexts, NoContext

LEMMA TcpContexts ==
  ASSUME NEW ch \in Chans
  PROVE  /\ <<ch, HandlerTcp>> \in Contexts /\ ~ IsUdp(<<ch, HandlerTcp>>)
         /\ <<ch, SessionTcp>> \in Contexts /\ ~ IsUdp(<<ch, SessionTcp>>)
         /\ <<ch, HandlerTcp>> # NoContext
BY DispatcherAssumption DEF Contexts, HandlerTcp, SessionTcp, IsUdp, NoContext

LEMMA HereContext ==
  ASSUME TypeOK, at <= SessionTcp
  PROVE  Here \in Contexts
BY DEF TypeOK, Here, Contexts

LEMMA NoFdIsNone == NoFd \notin Fds
BY DEF NoFd, Fds

----------------------------------------------------------------------------
(* Types.                                                                  *)

LEMMA TInvInit == Init => TInv
<1> SUFFICES ASSUME Init
             PROVE  TInv
  OBVIOUS
<1>1. /\ 1 \in Chans /\ 1 \in 1 .. SessionTcp + 1
      /\ Chans \X (1 .. Lines) \subseteq Contexts
      /\ \A c \in Chans \X (1 .. Lines) : IsUdp(c)
  BY DispatcherAssumption DEF Chans, SessionTcp, Contexts, IsUdp
<1> QED
  BY <1>1 DEF Init, DispatcherInit, TInv, TypeOK, DispatcherTypeOK

LEMMA TInvPoll ==
  ASSUME TInv, Environment \/ Poll, UNCHANGED <<place, snapshot_socket>>
  PROVE  TInv'
<1> USE DEF TInv, TypeOK, DispatcherTypeOK, place, tables, kernel, thread, Event
<1>1. ASSUME NEW f \in Fds, Arrive(f) \/ Close(f)
      PROVE  TInv'
  BY <1>1 DEF Arrive, Close
<1>2. CASE Wait \/ Lock \/ Exit \/ Unlock
  BY <1>2 DEF Wait, Lock, Exit, Unlock
<1>3. ASSUME NEW f \in Fds, Take(f)
      PROVE  TInv'
  BY <1>3 DEF Take
<1>4. CASE Read \/ ReadNothing
  BY <1>4 DEF Read, ReadNothing, ReadEnds, AfterRead
<1>5. CASE ReadEof
  BY <1>5 DEF ReadEof, ReadEnds, Emptied
<1> QED
  BY <1>1, <1>2, <1>3, <1>4, <1>5 DEF Environment, Poll

LEMMA TInvSyncing ==
  ASSUME TInv, Syncing
  PROVE  TInv'
<1> USE DEF TInv, TypeOK, DispatcherTypeOK, place, tables, kernel, thread, dispatcher
<1>0. SessionTcp \in Nat /\ 1 \in Chans
  BY DispatcherAssumption DEF SessionTcp, Chans
<1>1. CASE SyncSkip
  BY <1>0, <1>1 DEF SyncSkip, AtContext
<1>2. CASE SyncLine
  <2>1. Here \in Contexts
    BY <1>2, HereContext DEF SyncLine, AtContext
  <2> QED
    BY <1>2, <2>1 DEF SyncLine, AtContext, Opens, Watch
<1>3. CASE SyncTcp
  <2>1. fd[Here] \in Fds
    BY <1>3 DEF SyncTcp
  <2> QED
    BY <1>3, <2>1 DEF SyncTcp, AtContext, Watch
<1>4. CASE SyncEnter
  <2>1. Here \in Contexts
    BY <1>4, HereContext DEF SyncEnter
  <2>2. fd_to_context' \in [Fds -> Contexts \cup {NoContext}] /\ subscribed' \subseteq Contexts
    BY <1>4, <2>1 DEF SyncEnter, Enter
  <2> QED
    BY <1>0, <1>4, <2>2 DEF SyncEnter
<1>5. CASE SyncFails
  <2>1. Here \in Contexts
    BY <1>5, HereContext DEF SyncFails, AtContext
  <2>2. lock' \in {"free", "main", "reader"}
    BY <1>5 DEF SyncFails, Release
  <2>3. CASE IsUdp(Here) /\ \E f \in Fds : Opens(Here, f) /\ fd' = [fd EXCEPT ![Here] = f]
    BY <1>5, <2>1, <2>2, <2>3 DEF SyncFails, Opens
  <2>4. CASE UNCHANGED <<owner, fd>>
    BY <1>5, <2>2, <2>4 DEF SyncFails
  <2> QED
    BY <1>5, <2>3, <2>4 DEF SyncFails
<1>6. CASE SyncEnd
  BY <1>0, <1>6 DEF SyncEnd, Release
<1> QED
  BY <1>1, <1>2, <1>3, <1>4, <1>5, <1>6 DEF Syncing

LEMMA TInvConnect ==
  ASSUME TInv, NEW ch \in Chans, Connect(ch), main \in {"init", "establish"}, left' \subseteq left
  PROVE  TInv'
<1>1. PICK f \in Fds : /\ Opens(<<ch, HandlerTcp>>, f)
                       /\ snapshot_socket' = [snapshot_socket EXCEPT ![ch] = f]
                       /\ AddTcp(<<ch, HandlerTcp>>, f)
  BY DEF Connect
<1>2. 1 \in 1 .. SessionTcp + 1
  BY DispatcherAssumption DEF SessionTcp
<1>3. <<ch, HandlerTcp>> \in Contexts
  BY TcpContexts
<1> QED
  BY <1>1, <1>2, <1>3
     DEF Connect, Sync, Opens, AddTcp, TInv, TypeOK, DispatcherTypeOK, thread

LEMMA TInvMain ==
  ASSUME TInv, MainStep
  PROVE  TInv'
<1> USE DEF place, tables, kernel, thread, dispatcher, Turn
<1>0. 1 \in 1 .. SessionTcp + 1
  BY DispatcherAssumption DEF SessionTcp
<1>1. ASSUME NEW ch \in Chans, Connect(ch), main \in {"init", "establish"}, left' \subseteq left
      PROVE  TInv'
  BY <1>1, TInvConnect
<1>2. ASSUME NEW ch \in Chans, ConnectFails(ch), main \in {"init", "establish"}
      PROVE  TInv'
  BY <1>2 DEF ConnectFails, TInv, TypeOK, DispatcherTypeOK
<1>3. ASSUME NEW ch \in Chans, main = "establish", snapshot_socket[ch] # NoFd,
             AddTcp(<<ch, SessionTcp>>, snapshot_socket[ch]), left' = left \ {ch},
             UNCHANGED <<kernel, thread, lock, main, back, chan, at, snapshot_socket>>
      PROVE  TInv'
  <2>1. <<ch, SessionTcp>> \in Contexts
    BY TcpContexts
  <2>2. snapshot_socket[ch] \in Fds
    BY <1>3 DEF TInv, TypeOK
  <2> QED
    BY <1>3, <2>1, <2>2 DEF AddTcp, TInv, TypeOK, DispatcherTypeOK
<1>4. ASSUME NEW ch \in Chans, Create(ch)
      PROVE  TInv'
  BY <1>1, <1>2, <1>4 DEF Create
<1>5. ASSUME NEW ch \in Chans, Establish(ch)
      PROVE  TInv'
  BY <1>1, <1>2, <1>3, <1>5 DEF Establish
<1>6. ASSUME NEW ch \in Chans, Start(ch)
      PROVE  TInv'
  BY <1>0, <1>6 DEF Start, TakeLock, Sync, TInv, TypeOK, DispatcherTypeOK
<1>7. CASE Created \/ Established \/ Started
  BY <1>7 DEF Created, Established, Started, TInv, TypeOK, DispatcherTypeOK
<1>8. CASE Join
  BY <1>8 DEF Join, Clear, Forget, TInv, TypeOK, DispatcherTypeOK
<1> QED
  BY <1>4, <1>5, <1>6, <1>7, <1>8, TInvSyncing DEF MainStep

LEMMA TInvManager ==
  ASSUME TInv, Manager
  PROVE  TInv'
<1> USE DEF TInv, TypeOK, DispatcherTypeOK, place, tables, kernel, thread, dispatcher
<1>0. 1 \in 1 .. SessionTcp + 1
  BY DispatcherAssumption DEF SessionTcp
<1>1. CASE ManagerRuns
  BY <1>1 DEF ManagerRuns, Run
<1>2. CASE Shutdown
  BY <1>2 DEF Shutdown, JoinLock
<1>3. ASSUME NEW ch \in Chans, StartLine(ch)
      PROVE  TInv'
  BY <1>0, <1>3 DEF StartLine, TakeLock, Sync
<1>4. ASSUME NEW ch \in Chans, StopLine(ch)
      PROVE  TInv'
  BY <1>4 DEF StopLine, StopSync, Stopped, Emptied, Forget
<1> QED
  BY <1>1, <1>2, <1>3, <1>4 DEF Manager

LEMMA TInvNext == TInv /\ [Next]_vars => TInv'
<1> SUFFICES ASSUME TInv, [Next]_vars
             PROVE  TInv'
  OBVIOUS
<1>1. CASE UNCHANGED vars
  BY <1>1 DEF vars, dispatcher, tables, kernel, thread, place, TInv, TypeOK, DispatcherTypeOK
<1> QED
  BY <1>1, TInvPoll, TInvMain, TInvManager DEF Next

(* TypeOK of EPollDispatcher and of the session, whether the dispatcher    *)
(* may run before the session starts or not.                               *)
THEOREM SessionTypes == Spec => []TypeOK
<1>1. TInv => TypeOK
  BY DEF TInv
<1> QED
  BY <1>1, TInvInit, TInvNext, PTL DEF Spec

----------------------------------------------------------------------------
(* IInv is inductive.                                                      *)

LEMMA IInvInit == Init => IInv
<1> SUFFICES ASSUME Init
             PROVE  Control /\ Tables /\ ClosingTcp /\ Passed /\ NoLostEdge
  BY TInvInit DEF IInv
<1> USE DEF Init, DispatcherInit
<1>1. Control /\ ClosingTcp /\ Passed /\ NoLostEdge
  BY DEF Control, Starting, InSync, Phase, ClosingTcp, Passed, NoLostEdge
<1>2. \A c \in added : IsUdp(c)
  BY DEF IsUdp
<1> QED
  BY <1>1, <1>2
     DEF Tables, Entries, Watching, Lined, Entering, LineSockets, Connections

(* A step that leaves the tables, the set and the sockets keeps what is    *)
(* said of them.                                                           *)
LEMMA TablesKept ==
  ASSUME Tables, UNCHANGED <<tables, epoll, owner, snapshot_socket>>,
         \/ UNCHANGED <<main, chan, at>>
         \/ main # "enter" /\ main' # "enter" /\ main # "failed",
         Starting' => Starting
  PROVE  Tables'
<1> USE DEF tables, Tables
<1>1. Entries' /\ Lined'
  BY DEF Entries, Entry, Lined
<1>2. Watching' /\ Entering'
  BY DEF Watching, Entering, Here
<1>3. LineSockets'
  BY DEF LineSockets, Here
<1>4. Connections'
  BY DEF Connections
<1> QED
  BY <1>1, <1>2, <1>3, <1>4

(* A descriptor with an entry can be read.                                 *)
LEMMA EntryReadable ==
  ASSUME Entries, NEW f \in Fds, fd_to_context[f] # NoContext
  PROVE  Readable(f)
BY DEF Entries, Entry, Readable

(* What main holds the lock for, or does before the reader runs, is not    *)
(* seen by the reader with the lock.                                       *)
LEMMA Excluded ==
  ASSUME TInv, Control, reader \in {"batch", "reading"}
  PROVE  ~ InSync /\ ~ Starting /\ main # "enter"
BY DEF TInv, TypeOK, Control, Starting, Phase, InSync

LEMMA IInvEnvironment ==
  ASSUME IInv, Environment, UNCHANGED <<place, snapshot_socket>>
  PROVE  (Control /\ Tables /\ ClosingTcp /\ Passed /\ NoLostEdge)'
<1>0. TInv /\ Control /\ Tables /\ ClosingTcp /\ Passed /\ NoLostEdge
  BY DEF IInv
<1>1. PICK f \in Fds : Arrive(f) \/ Close(f)
  BY DEF Environment
<1>2. /\ UNCHANGED <<tables, epoll, owner, thread, lock, place, snapshot_socket>>
      /\ Event(f)
      /\ \/ unread' = unread \cup {f} /\ UNCHANGED closing
         \/ closing' = closing \cup {f} /\ f \in Open /\ ~ IsUdp(owner[f]) /\ UNCHANGED unread
  BY <1>1 DEF Arrive, Close
<1>3. Control' /\ Passed'
  BY <1>0, <1>2 DEF Control, Passed, Joined, Starting, InSync, Phase, Readable, tables, thread, place
<1>4. Tables'
  BY <1>0, <1>2, TablesKept DEF place, Starting, Phase, InSync
<1>5. ClosingTcp'
  BY <1>0, <1>2 DEF ClosingTcp, Open
<1>6. NoLostEdge'
  BY <1>0, <1>2 DEF NoLostEdge, Event, thread
<1> QED
  BY <1>3, <1>4, <1>5, <1>6

LEMMA IInvPoll ==
  ASSUME IInv, Poll, ~ ReadEof, UNCHANGED <<place, snapshot_socket>>
  PROVE  (Control /\ Tables /\ ClosingTcp /\ Passed /\ NoLostEdge)'
<1>0. TInv /\ Control /\ Tables /\ ClosingTcp /\ Passed /\ NoLostEdge
  BY DEF IInv
<1>1. UNCHANGED <<tables, epoll, owner, closing, place, snapshot_socket>>
  BY DEF Poll, Wait, Lock, Take, Read, ReadNothing, Unlock, Exit, kernel
<1>2. Tables' /\ ClosingTcp' /\ Passed'
  BY <1>0, <1>1, TablesKept
     DEF place, tables, Starting, Phase, InSync, ClosingTcp, Passed, Joined
<1>3. UNCHANGED <<Starting, InSync>> /\ \A f \in Fds : UNCHANGED Readable(f)
  BY <1>1 DEF place, tables, Starting, Phase, InSync, Readable
<1>4. CASE Wait
  <2>1. Control'
    BY <1>0, <1>1, <1>3, <1>4 DEF Wait, Control, place
  <2>2. NoLostEdge'
    BY <1>0, <1>1, <1>4 DEF Wait, NoLostEdge, Control
  <2> QED
    BY <1>2, <2>1, <2>2
<1>5. CASE Lock \/ Exit \/ Unlock
  <2>1. Control'
    BY <1>0, <1>1, <1>3, <1>5 DEF Lock, Exit, Unlock, Control, place, thread
  <2>2. NoLostEdge'
    BY <1>0, <1>1, <1>5 DEF Lock, Exit, Unlock, NoLostEdge, kernel
  <2> QED
    BY <1>2, <2>1, <2>2
<1>6. ASSUME NEW f \in Fds, Take(f)
      PROVE  Control' /\ NoLostEdge'
  <2>1. Control'
    BY <1>0, <1>1, <1>3, <1>6 DEF Take, Control, place
  <2>2. f \in epoll => Readable(f)
    BY <1>0, <1>6, EntryReadable, Excluded DEF Take, Tables, Watching
  <2>3. NoLostEdge'
    BY <1>0, <1>1, <1>6, <2>2 DEF Take, NoLostEdge, kernel
  <2> QED
    BY <2>1, <2>3
<1>7. CASE Read
  <2>1. Control'
    BY <1>0, <1>1, <1>3, <1>7 DEF Read, AfterRead, Control, place
  <2>2. NoLostEdge'
    BY <1>0, <1>1, <1>7 DEF Read, AfterRead, NoLostEdge
  <2> QED
    BY <1>2, <2>1, <2>2
<1>8. CASE ReadNothing
  <2>1. Control'
    BY <1>0, <1>1, <1>3, <1>8 DEF ReadNothing, ReadEnds, Control, place
  <2>2. cur \in Fds /\ Context # NoContext /\ Entry(cur, Context)
    BY <1>0, <1>8 DEF ReadNothing, Control, Readable, Context, Tables, Entries
  <2>3. cur \notin unread \cup closing
    BY <1>0, <1>8, <2>2 DEF ReadNothing, Entry, ClosingTcp
  <2>4. NoLostEdge'
    BY <1>0, <1>1, <1>8, <2>3 DEF ReadNothing, ReadEnds, NoLostEdge, kernel
  <2> QED
    BY <1>2, <2>1, <2>4
<1> QED
  BY <1>2, <1>4, <1>5, <1>6, <1>7, <1>8 DEF Poll

LEMMA IInvEof ==
  ASSUME IInv, ReadEof, UNCHANGED <<place, snapshot_socket>>
  PROVE  (Control /\ Tables /\ ClosingTcp /\ Passed /\ NoLostEdge)'
<1>0. TInv /\ Control /\ Tables /\ ClosingTcp /\ Passed /\ NoLostEdge
  BY DEF IInv
<1>1. /\ reader = "reading" /\ reader' = "batch" /\ cur' = NoFd
      /\ ~ IsUdp(Context)
      /\ epoll' = epoll \ {cur} /\ ready' = ready \ {cur}
      /\ fd_to_context' = [f \in Fds |-> IF f = cur THEN NoContext ELSE fd_to_context[f]]
      /\ tcp_buffer' = tcp_buffer \ {cur}
      /\ UNCHANGED <<added, fd, subscribed, owner, unread, closing, running, batch, lock>>
      /\ UNCHANGED <<place, snapshot_socket>>
  BY DEF ReadEof, ReadEnds, Emptied
<1>2. ~ InSync /\ ~ Starting /\ main # "enter" /\ ~ Starting' /\ main' # "enter"
  BY <1>0, <1>1, Excluded DEF Starting, Phase, InSync, place
<1>3. cur \in Fds /\ fd_to_context[cur] = Context /\ Context # NoContext /\ Entry(cur, Context)
  BY <1>0, <1>1 DEF Control, Readable, Context, Tables, Entries
<1>4. Control' /\ Passed'
  BY <1>0, <1>1, <1>2 DEF Control, InSync, Passed, Joined, Starting, Phase, place
<1>5. ClosingTcp' /\ NoLostEdge'
  BY <1>0, <1>1 DEF ClosingTcp, NoLostEdge
<1>6. Entries' /\ Watching' /\ Lined'
  <2>1. Entries'
    BY <1>0, <1>1 DEF Tables, Entries, Entry
  <2>2. Watching'
    BY <1>0, <1>1, <1>2 DEF Tables, Watching, TInv, TypeOK, DispatcherTypeOK
  <2>3. \A c \in subscribed : IsUdp(c) => fd_to_context[fd[c]] # Context
    BY <1>0, <1>1 DEF Tables, Lined
  <2>4. \A c \in subscribed : IsUdp(c) => fd[c] \in Fds /\ fd[c] # cur
    BY <1>0, <2>3, <1>3 DEF Tables, Lined
  <2> QED
    BY <1>0, <1>1, <2>1, <2>2, <2>4 DEF Tables, Lined
<1>7. Entering' /\ LineSockets' /\ Connections'
  BY <1>0, <1>1, <1>2 DEF Tables, Entering, LineSockets, Connections, place
<1> QED
  BY <1>4, <1>5, <1>6, <1>7 DEF Tables

(* start_sync.                                                             *)
LEMMA IInvSyncSkip ==
  ASSUME IInv, SyncSkip \/ SyncEnd
  PROVE  (Control /\ Tables /\ ClosingTcp /\ Passed /\ NoLostEdge)'
<1>0. TInv /\ Control /\ Tables /\ ClosingTcp /\ Passed /\ NoLostEdge
  BY DEF IInv
<1>1. /\ UNCHANGED <<tables, kernel, thread, left, snapshot_socket>>
      /\ main = "sync" /\ main' # "enter" /\ Phase' = Phase
  BY <1>0 DEF SyncSkip, SyncEnd, AtContext, Phase, InSync, dispatcher, TInv, TypeOK
<1>2. Control'
  BY <1>0, <1>1
     DEF SyncSkip, SyncEnd, Release, Control, Readable, Starting, InSync, dispatcher, tables,
         thread, TInv, TypeOK
<1>3. Tables' /\ ClosingTcp' /\ NoLostEdge'
  BY <1>0, <1>1, TablesKept DEF ClosingTcp, NoLostEdge, Starting, kernel, thread
<1>4. Passed'
  <2>1. CASE SyncSkip
    BY <1>0, <1>1, <2>1, ContextFields
       DEF SyncSkip, Passed, Joined, InSync, Here, tables, TInv, TypeOK
  <2>2. CASE SyncEnd
    <3>1. \A c \in Contexts : c[2] < at
      BY <1>0, <2>2, ContextFields, DispatcherAssumption DEF SyncEnd, TInv, TypeOK, SessionTcp
    <3>2. ~ (\E c \in Contexts : c[2] >= at)
      BY <1>0, <3>1, ContextFields, DispatcherAssumption DEF TInv, TypeOK, SessionTcp
    <3> QED
      BY <1>0, <1>1, <2>2, <3>2 DEF SyncEnd, Passed, Joined, tables
  <2> QED
    BY <2>1, <2>2
<1> QED
  BY <1>2, <1>3, <1>4

LEMMA IInvSyncLine ==
  ASSUME IInv, SyncLine
  PROVE  (Control /\ Tables /\ ClosingTcp /\ Passed /\ NoLostEdge)'
<1>0. TInv /\ Control /\ Tables /\ ClosingTcp /\ Passed /\ NoLostEdge
  BY DEF IInv
<1>1. PICK f \in Fds : /\ owner[f] = NoContext /\ owner' = [owner EXCEPT ![f] = Here]
                       /\ fd' = [fd EXCEPT ![Here] = f]
                       /\ epoll' = epoll \cup {f}
                       /\ ready' = IF f \in unread \cup closing THEN ready \cup {f} ELSE ready
  BY DEF SyncLine, Opens, Open, Watch
<1>2. /\ main = "sync" /\ main' = "enter" /\ at <= SessionTcp
      /\ Here \in added \ subscribed /\ IsUdp(Here)
      /\ UNCHANGED <<added, subscribed, fd_to_context, tcp_buffer, unread, closing,
                    thread, lock, back, left, chan, at, snapshot_socket>>
  BY DEF SyncLine, AtContext
<1>3. Here \in Contexts /\ Here' = Here /\ Here # NoContext
  BY <1>0, <1>2, HereContext, ContextFields DEF TInv, Here
<1>4. Phase' = Phase /\ InSync /\ InSync'
  BY <1>2 DEF Phase, InSync
<1>5. Control' /\ Passed' /\ ClosingTcp'
  BY <1>0, <1>1, <1>2, <1>4
     DEF Control, Readable, Starting, thread, Passed, Joined, ClosingTcp
<1>6. NoLostEdge'
  BY <1>0, <1>1, <1>2 DEF NoLostEdge, thread
<1>7. owner'[f] = Here /\ fd'[Here] = f
  BY <1>0, <1>1, <1>3 DEF TInv, TypeOK, DispatcherTypeOK
<1>8. \A g \in Fds \ {f} : owner'[g] = owner[g]
  BY <1>0, <1>1 DEF TInv, TypeOK, DispatcherTypeOK
<1>9. \A c \in Contexts : c # Here => fd'[c] = fd[c]
  BY <1>0, <1>1 DEF TInv, TypeOK, DispatcherTypeOK
<1>10. fd_to_context[f] = NoContext
  BY <1>0, <1>1, TcpContexts, ContextFields DEF Tables, Entries, Entry, TInv, TypeOK, DispatcherTypeOK
<1>11. Entries'
  <2> SUFFICES ASSUME NEW g \in Fds, fd_to_context[g] # NoContext
               PROVE  Entry(g, fd_to_context[g])'
    BY <1>2 DEF Entries
  <2>1. Entry(g, fd_to_context[g]) /\ g # f /\ fd_to_context[g] \in Contexts
    BY <1>0, <1>10 DEF Tables, Entries, TInv, TypeOK, DispatcherTypeOK
  <2> QED
    BY <1>1, <1>2, <1>8, <1>9, <2>1 DEF Entry
<1>12. Watching' /\ Entering'
  BY <1>0, <1>1, <1>2, <1>3, <1>7, <1>10 DEF Tables, Watching, Entering
<1>13. Lined'
  BY <1>0, <1>2, <1>9 DEF Tables, Lined, TInv, TypeOK, DispatcherTypeOK
<1>14. LineSockets'
  <2> SUFFICES ASSUME NEW g \in Fds, owner'[g] # NoContext, IsUdp(owner'[g])
               PROVE  /\ fd'[owner'[g]] = g
                      /\ owner'[g] \in subscribed \/ owner'[g] = Here
    BY <1>2, <1>3 DEF LineSockets
  <2>1. CASE g = f
    BY <1>7, <2>1
  <2>2. CASE g # f
    <3>1. owner'[g] = owner[g] /\ owner[g] \in Contexts
      BY <1>0, <1>8, <2>2 DEF TInv, TypeOK, DispatcherTypeOK
    <3>2. fd[owner[g]] = g /\ owner[g] \in subscribed
      BY <1>0, <1>2, <3>1 DEF Tables, LineSockets
    <3> QED
      BY <1>2, <1>9, <3>1, <3>2
  <2> QED
    BY <2>1, <2>2
<1>15. Connections'
  <2>1. \A ch \in Chans : snapshot_socket[ch] # NoFd =>
          owner'[snapshot_socket[ch]] = <<ch, HandlerTcp>>
    <3> SUFFICES ASSUME NEW ch \in Chans, snapshot_socket[ch] # NoFd
                 PROVE  owner'[snapshot_socket[ch]] = <<ch, HandlerTcp>>
      OBVIOUS
    <3>1. owner[snapshot_socket[ch]] = <<ch, HandlerTcp>> /\ snapshot_socket[ch] \in Fds
      BY <1>0 DEF Tables, Connections, TInv, TypeOK
    <3> QED
      BY <1>1, <1>8, <3>1, TcpContexts
  <2>2. \A c \in added : ~ IsUdp(c) => fd'[c] = fd[c]
    BY <1>0, <1>2, <1>9 DEF TInv, TypeOK, DispatcherTypeOK
  <2>3. Starting' = Starting
    BY <1>4 DEF Starting
  <2> QED
    BY <1>0, <1>2, <2>1, <2>2, <2>3 DEF Tables, Connections
<1> QED
  BY <1>5, <1>6, <1>11, <1>12, <1>13, <1>14, <1>15 DEF Tables

LEMMA IInvSyncTcp ==
  ASSUME IInv, SyncTcp
  PROVE  (Control /\ Tables /\ ClosingTcp /\ Passed /\ NoLostEdge)'
<1>0. TInv /\ Control /\ Tables /\ ClosingTcp /\ Passed /\ NoLostEdge
  BY DEF IInv
<1>1. /\ main = "sync" /\ main' = "enter" /\ at <= SessionTcp
      /\ Here \in added \ subscribed /\ ~ IsUdp(Here) /\ fd[Here] \notin epoll
      /\ epoll' = epoll \cup {fd[Here]} /\ ready' = ready \cup {fd[Here]}
      /\ UNCHANGED <<tables, owner, unread, closing, thread, lock, back, left, chan, at,
                    snapshot_socket>>
  BY DEF SyncTcp, AtContext, Watch
<1>2. Here \in Contexts /\ Here' = Here /\ Here = <<chan, at>>
  BY <1>0, <1>1, HereContext DEF TInv, Here
<1>3. Phase' = Phase /\ InSync /\ InSync' /\ Starting' = Starting
  BY <1>1 DEF Phase, InSync, Starting
<1>4. Control' /\ Passed' /\ ClosingTcp'
  BY <1>0, <1>1, <1>3 DEF Control, Readable, thread, tables, Passed, Joined, ClosingTcp
<1>5. NoLostEdge'
  BY <1>0, <1>1 DEF NoLostEdge, thread
<1>6. snapshot_socket[chan] # NoFd /\ fd[Here] = snapshot_socket[chan] /\ fd[Here] \in Fds
  BY <1>0, <1>1, <1>2 DEF Tables, Connections, TInv
<1>7. Starting
  <2>1. Phase # "up"
    BY <1>0, <1>1, <1>2 DEF Passed, Joined
  <2> QED
    BY <1>0, <1>3, <2>1 DEF Starting, Phase, TInv, TypeOK
<1>8. owner[fd[Here]] = <<chan, HandlerTcp>> /\ fd[Here] \in tcp_buffer
  BY <1>0, <1>6, <1>7 DEF Tables, Connections, TInv, TypeOK
<1>9. fd_to_context[fd[Here]] = NoContext
  BY <1>0, <1>1, <1>6 DEF Tables, Entries, Entry
<1>10. Watching' /\ Entering'
  BY <1>0, <1>1, <1>2, <1>8, <1>9 DEF Tables, Watching, Entering, tables
<1>11. Entries' /\ Lined' /\ LineSockets' /\ Connections'
  BY <1>0, <1>1, <1>3
     DEF Tables, Entries, Entry, Lined, LineSockets, Connections, tables
<1> QED
  BY <1>4, <1>5, <1>10, <1>11 DEF Tables

LEMMA IInvSyncEnter ==
  ASSUME IInv, SyncEnter
  PROVE  (Control /\ Tables /\ ClosingTcp /\ Passed /\ NoLostEdge)'
<1>0. TInv /\ Control /\ Tables /\ ClosingTcp /\ Passed /\ NoLostEdge
  BY DEF IInv
<1>1. /\ main = "enter" /\ main' = "sync" /\ at' = at + 1
      /\ fd_to_context' = [fd_to_context EXCEPT ![fd[Here]] = Here]
      /\ subscribed' = subscribed \cup {Here}
      /\ UNCHANGED <<added, fd, tcp_buffer, kernel, thread, lock, back, left, chan,
                    snapshot_socket>>
  BY DEF SyncEnter, Enter
<1>2. Here \in Contexts /\ Here = <<chan, at>> /\ Here # NoContext
  BY <1>0, <1>1, HereContext, ContextFields DEF TInv, Here
<1>3. Phase' = Phase /\ InSync /\ InSync' /\ Starting' = Starting
  BY <1>1 DEF Phase, InSync, Starting
<1>4. /\ Here \in added \ subscribed /\ fd[Here] \in epoll /\ fd[Here] \in Fds
      /\ fd_to_context[fd[Here]] = NoContext
      /\ IF IsUdp(Here) THEN owner[fd[Here]] = Here
         ELSE owner[fd[Here]] = <<chan, HandlerTcp>> /\ fd[Here] \in tcp_buffer
  BY <1>0, <1>1 DEF Tables, Entering, TInv, TypeOK, DispatcherTypeOK
<1>5. /\ fd_to_context'[fd[Here]] = Here
      /\ \A f \in Fds : f # fd[Here] => fd_to_context'[f] = fd_to_context[f]
  BY <1>0, <1>1, <1>4 DEF TInv, TypeOK, DispatcherTypeOK
<1>6. Control'
  <2>1. reader = "reading" => FALSE
    BY <1>0, <1>1, Excluded
  <2> QED
    BY <1>0, <1>1, <1>3, <2>1 DEF Control, thread
<1>7. Passed'
  BY <1>0, <1>1, <1>2, <1>3, ContextFields DEF Passed, Joined, TInv, TypeOK
<1>8. ClosingTcp' /\ NoLostEdge'
  BY <1>0, <1>1 DEF ClosingTcp, NoLostEdge, kernel, thread
<1>9. Entries'
  <2> SUFFICES ASSUME NEW f \in Fds, fd_to_context'[f] # NoContext
               PROVE  Entry(f, fd_to_context[f])'
    BY DEF Entries
  <2>1. CASE f = fd[Here]
    BY <1>1, <1>2, <1>4, <1>5, <2>1 DEF Entry, kernel
  <2>2. CASE f # fd[Here]
    BY <1>0, <1>1, <1>5, <2>2 DEF Tables, Entries, Entry, kernel
  <2> QED
    BY <2>1, <2>2
<1>10. Watching' /\ Entering'
  BY <1>0, <1>1, <1>2, <1>4, <1>5
     DEF Tables, Watching, Entering, kernel, TInv, TypeOK, DispatcherTypeOK
<1>11. Lined'
  <2> SUFFICES ASSUME NEW c \in subscribed', IsUdp(c)
               PROVE  fd[c] \in Fds /\ fd_to_context'[fd[c]] = c
    BY <1>1 DEF Lined
  <2>1. CASE c = Here
    BY <1>4, <1>5, <2>1
  <2>2. CASE c # Here
    <3>1. c \in subscribed /\ c \in Contexts
      BY <1>0, <1>1, <2>2 DEF TInv, TypeOK, DispatcherTypeOK
    <3>2. fd[c] \in Fds /\ fd_to_context[fd[c]] = c
      BY <1>0, <3>1 DEF Tables, Lined
    <3> QED
      BY <1>4, <1>5, <3>1, <3>2, ContextFields
  <2> QED
    BY <2>1, <2>2
<1>12. LineSockets' /\ Connections'
  BY <1>0, <1>1, <1>3, <1>4 DEF Tables, LineSockets, Connections, kernel
<1> QED
  BY <1>6, <1>7, <1>8, <1>9, <1>10, <1>11, <1>12 DEF Tables

LEMMA IInvSyncFails ==
  ASSUME IInv, SyncFails
  PROVE  (Control /\ Tables /\ ClosingTcp /\ Passed /\ NoLostEdge)'
<1>0. TInv /\ Control /\ Tables /\ ClosingTcp /\ Passed /\ NoLostEdge
  BY DEF IInv
<1>1. /\ main = "sync" /\ main' = "failed" /\ at <= SessionTcp
      /\ Here \in added \ subscribed
      /\ lock' = IF lock = "main" THEN "free" ELSE lock
      /\ UNCHANGED <<added, subscribed, fd_to_context, tcp_buffer, epoll, unread, closing, ready,
                    thread, back, left, chan, at, snapshot_socket>>
  BY DEF SyncFails, AtContext, Release
<1>2. Here \in Contexts /\ Here # NoContext
  BY <1>0, <1>1, HereContext, ContextFields DEF TInv
<1>3. ~ Starting' /\ ~ InSync' /\ InSync
  BY <1>1 DEF Phase, InSync, Starting
<1>4. Control' /\ Passed' /\ NoLostEdge'
  BY <1>0, <1>1, <1>3
     DEF Control, Readable, thread, Passed, Phase, InSync, NoLostEdge
<1>5. CASE UNCHANGED <<owner, fd>>
  BY <1>0, <1>1, <1>3, <1>4, <1>5
     DEF ClosingTcp, Tables, Entries, Entry, Watching, Lined, Entering, LineSockets, Connections
<1>6. ASSUME IsUdp(Here), NEW f \in Fds, Opens(Here, f), fd' = [fd EXCEPT ![Here] = f]
      PROVE  (Tables /\ ClosingTcp)'
  <2>1. owner[f] = NoContext /\ owner'[f] = Here /\ fd'[Here] = f
    BY <1>0, <1>2, <1>6 DEF Opens, Open, TInv, TypeOK, DispatcherTypeOK
  <2>2. \A g \in Fds \ {f} : owner'[g] = owner[g]
    BY <1>0, <1>6 DEF Opens, TInv, TypeOK, DispatcherTypeOK
  <2>3. \A c \in Contexts : c # Here => fd'[c] = fd[c]
    BY <1>0, <1>6 DEF TInv, TypeOK, DispatcherTypeOK
  <2>4. \A g \in Fds : owner[g] # NoContext => owner'[g] = owner[g]
    BY <2>1, <2>2
  <2>5. Entries'
    <3> SUFFICES ASSUME NEW g \in Fds, fd_to_context[g] # NoContext
                 PROVE  Entry(g, fd_to_context[g])'
      BY <1>1 DEF Entries
    <3>1. Entry(g, fd_to_context[g]) /\ fd_to_context[g] \in Contexts
      BY <1>0 DEF Tables, Entries, TInv, TypeOK, DispatcherTypeOK
    <3>2. owner[g] # NoContext
      BY <3>1, TcpContexts, ContextFields DEF Entry
    <3> QED
      BY <1>1, <2>3, <2>4, <3>1, <3>2 DEF Entry
  <2>6. Watching' /\ Entering' /\ ClosingTcp'
    BY <1>0, <1>1, <2>4 DEF Tables, Watching, Entering, ClosingTcp, TInv, TypeOK, DispatcherTypeOK
  <2>7. Lined'
    BY <1>0, <1>1, <2>3 DEF Tables, Lined, TInv, TypeOK, DispatcherTypeOK
  <2>8. LineSockets'
    <3> SUFFICES ASSUME NEW g \in Fds, owner'[g] # NoContext, IsUdp(owner'[g])
                 PROVE  fd'[owner'[g]] = g
      BY <1>1 DEF LineSockets
    <3>1. CASE g = f
      BY <2>1, <3>1
    <3>2. CASE g # f
      <4>1. owner'[g] = owner[g] /\ owner[g] \in Contexts
        BY <1>0, <2>2, <3>2 DEF TInv, TypeOK, DispatcherTypeOK
      <4>2. fd[owner[g]] = g /\ owner[g] \in subscribed
        BY <1>0, <1>1, <4>1 DEF Tables, LineSockets
      <4> QED
        BY <1>1, <2>3, <4>1, <4>2
    <3> QED
      BY <3>1, <3>2
  <2>9. Connections'
    <3>1. \A ch \in Chans : snapshot_socket[ch] # NoFd =>
            owner'[snapshot_socket[ch]] = <<ch, HandlerTcp>>
      BY <1>0, <2>4, TcpContexts DEF Tables, Connections, TInv, TypeOK
    <3>2. \A c \in added : ~ IsUdp(c) => fd'[c] = fd[c]
      BY <1>0, <1>6, <2>3 DEF TInv, TypeOK, DispatcherTypeOK
    <3> QED
      BY <1>0, <1>1, <1>3, <3>1, <3>2 DEF Tables, Connections
  <2> QED
    BY <2>5, <2>6, <2>7, <2>8, <2>9 DEF Tables
<1> QED
  BY <1>4, <1>5, <1>6 DEF SyncFails

LEMMA IInvSyncing ==
  ASSUME IInv, Syncing
  PROVE  IInv'
BY TInvSyncing, IInvSyncSkip, IInvSyncLine, IInvSyncTcp, IInvSyncEnter, IInvSyncFails
   DEF IInv, Syncing

(* establish_refresh_connection: no context has a connection before.       *)
LEMMA IInvConnect ==
  ASSUME IInv, NEW ch \in Chans, Connect(ch), main \in {"init", "establish"}
  PROVE  (Control /\ Tables /\ ClosingTcp /\ Passed /\ NoLostEdge)'
<1>0. TInv /\ Control /\ Tables /\ ClosingTcp /\ Passed /\ NoLostEdge
  BY DEF IInv
<1> DEFINE new == <<ch, HandlerTcp>>
<1>1. PICK f \in Fds : /\ owner[f] = NoContext /\ owner' = [owner EXCEPT ![f] = new]
                       /\ snapshot_socket' = [snapshot_socket EXCEPT ![ch] = f]
                       /\ added' = added \cup {new} /\ fd' = [fd EXCEPT ![new] = f]
                       /\ tcp_buffer' = tcp_buffer \cup {f}
                       /\ UNCHANGED <<subscribed, fd_to_context>>
  BY DEF Connect, Opens, Open, AddTcp
<1>2. /\ main' = "sync" /\ back' = main /\ snapshot_socket[ch] = NoFd
      /\ UNCHANGED <<epoll, unread, closing, ready, thread, lock>>
  BY DEF Connect, Sync
<1>3. Phase' = Phase /\ Starting /\ Starting' /\ Phase \in {"init", "establish"} /\ ~ InSync
  BY <1>2 DEF Phase, InSync, Starting
<1>4. new \in Contexts /\ new # NoContext /\ ~ IsUdp(new)
  BY TcpContexts
<1> HIDE DEF new
<1>5. Control' /\ Passed' /\ NoLostEdge'
  <2>1. reader = "off" /\ lock # "main" /\ lock' # "main" /\ ~ (InSync' /\ back' \in {"start", "up"})
    BY <1>0, <1>2, <1>3 DEF Control
  <2> QED
    BY <1>0, <1>2, <1>3, <2>1 DEF Control, thread, Passed, NoLostEdge
<1>6. owner'[f] = new /\ fd'[new] = f /\ snapshot_socket'[ch] = f
  BY <1>0, <1>1, <1>4 DEF TInv, TypeOK, DispatcherTypeOK
<1>7. \A g \in Fds : owner[g] # NoContext => g # f /\ owner'[g] = owner[g]
  BY <1>0, <1>1 DEF TInv, TypeOK, DispatcherTypeOK
<1>8. \A c \in Contexts : c # new => fd'[c] = fd[c]
  BY <1>0, <1>1 DEF TInv, TypeOK, DispatcherTypeOK
<1>9. new \notin added /\ \A c \in added : ~ IsUdp(c) => c[1] # ch
  <2>1. new[1] = ch
    BY DEF new
  <2> QED
    BY <1>0, <1>2, <1>4, <2>1 DEF Tables, Connections
<1>10. new \notin subscribed
  BY <1>0, <1>9 DEF Tables, Connections
<1>11. ClosingTcp'
  BY <1>0, <1>2, <1>7 DEF ClosingTcp, TInv, TypeOK, DispatcherTypeOK
<1>12. Entries'
  <2> SUFFICES ASSUME NEW g \in Fds, fd_to_context[g] # NoContext
               PROVE  Entry(g, fd_to_context[g])'
    BY <1>1 DEF Entries
  <2>1. Entry(g, fd_to_context[g]) /\ fd_to_context[g] \in Contexts
    BY <1>0 DEF Tables, Entries, TInv, TypeOK, DispatcherTypeOK
  <2>2. owner[g] # NoContext
    BY <2>1, TcpContexts, ContextFields DEF Entry
  <2> QED
    BY <1>1, <1>2, <1>7, <1>8, <1>10, <2>1, <2>2 DEF Entry
<1>13. Watching' /\ Entering'
  BY <1>0, <1>1, <1>2 DEF Tables, Watching, Entering
<1>14. Lined'
  BY <1>0, <1>1, <1>8, <1>10 DEF Tables, Lined, TInv, TypeOK, DispatcherTypeOK
<1>15. LineSockets'
  <2> SUFFICES ASSUME NEW g \in Fds, owner'[g] # NoContext, IsUdp(owner'[g])
               PROVE  fd'[owner'[g]] = g /\ owner'[g] \in subscribed
    BY <1>1 DEF LineSockets
  <2>1. g # f
    BY <1>4, <1>6
  <2>2. owner'[g] = owner[g] /\ owner[g] \in Contexts
    BY <1>0, <1>1, <2>1 DEF TInv, TypeOK, DispatcherTypeOK
  <2>3. fd[owner[g]] = g /\ owner[g] \in subscribed
    BY <1>0, <2>2 DEF Tables, LineSockets
  <2> QED
    BY <1>8, <1>10, <2>2, <2>3
<1>16. Connections'
  <2>1. \A d \in Chans : d # ch => snapshot_socket'[d] = snapshot_socket[d]
    BY <1>0, <1>1 DEF TInv, TypeOK
  <2>2. ASSUME NEW d \in Chans, snapshot_socket'[d] # NoFd
        PROVE  /\ owner'[snapshot_socket'[d]] = <<d, HandlerTcp>>
               /\ snapshot_socket'[d] \in tcp_buffer'
    <3>1. CASE d = ch
      BY <1>1, <1>6, <3>1 DEF new
    <3>2. CASE d # ch
      <4>1. /\ owner[snapshot_socket[d]] = <<d, HandlerTcp>>
            /\ snapshot_socket[d] \in tcp_buffer /\ snapshot_socket[d] \in Fds
        BY <1>0, <1>3, <2>1, <2>2, <3>2 DEF Tables, Connections, TInv, TypeOK
      <4>2. owner'[snapshot_socket[d]] = <<d, HandlerTcp>>
        BY <1>7, <4>1, TcpContexts
      <4> QED
        BY <1>1, <2>1, <3>2, <4>1, <4>2
    <3> QED
      BY <3>1, <3>2
  <2>3. ASSUME NEW c \in added', ~ IsUdp(c)
        PROVE  snapshot_socket'[c[1]] # NoFd /\ fd'[c] = snapshot_socket'[c[1]]
    <3>1. CASE c = new
      <4>1. c[1] = ch
        BY <3>1 DEF new
      <4> QED
        BY <1>6, <3>1, <4>1, NoFdIsNone
    <3>2. CASE c # new
      <4>1. c \in added /\ c \in Contexts /\ c[1] \in Chans /\ c[1] # ch
        BY <1>0, <1>1, <1>9, <2>3, <3>2, ContextFields DEF TInv, TypeOK, DispatcherTypeOK
      <4> QED
        BY <1>0, <1>8, <2>1, <2>3, <3>2, <4>1 DEF Tables, Connections
    <3> QED
      BY <3>1, <3>2
  <2>4. subscribed' \subseteq added'
    BY <1>0, <1>1 DEF Tables, Connections
  <2> QED
    BY <2>2, <2>3, <2>4 DEF Connections
<1> QED
  BY <1>5, <1>11, <1>12, <1>13, <1>14, <1>15, <1>16 DEF Tables

(* The session adds the connection of a channel.                           *)
LEMMA IInvAdopt ==
  ASSUME IInv, NEW ch \in Chans, main = "establish", snapshot_socket[ch] # NoFd,
         AddTcp(<<ch, SessionTcp>>, snapshot_socket[ch]),
         UNCHANGED <<kernel, thread, lock, main, back, chan, at, snapshot_socket>>
  PROVE  (Control /\ Tables /\ ClosingTcp /\ Passed /\ NoLostEdge)'
<1>0. TInv /\ Control /\ Tables /\ ClosingTcp /\ Passed /\ NoLostEdge
  BY DEF IInv
<1> DEFINE new == <<ch, SessionTcp>>
<1>1. /\ added' = added \cup {new} /\ fd' = [fd EXCEPT ![new] = snapshot_socket[ch]]
      /\ tcp_buffer' = tcp_buffer \cup {snapshot_socket[ch]}
      /\ UNCHANGED <<subscribed, fd_to_context>>
  BY DEF AddTcp
<1>2. new \in Contexts /\ ~ IsUdp(new) /\ new[1] = ch
  BY TcpContexts
<1> HIDE DEF new
<1>3. Phase' = Phase /\ Phase = "establish" /\ InSync' = InSync /\ Starting /\ Starting' = Starting
  BY DEF Phase, InSync, Starting
<1>4. Control' /\ Passed' /\ NoLostEdge' /\ ClosingTcp'
  BY <1>0, <1>3 DEF Control, thread, kernel, Passed, NoLostEdge, ClosingTcp
<1>5. \A c \in Contexts : c # new => fd'[c] = fd[c]
  BY <1>0, <1>1 DEF TInv, TypeOK, DispatcherTypeOK
<1>6. fd'[new] = snapshot_socket[ch]
  BY <1>0, <1>1, <1>2 DEF TInv, TypeOK, DispatcherTypeOK
<1>7. \A c \in added : fd'[c] = fd[c]
  <2>1. new \in added => fd[new] = snapshot_socket[ch]
    BY <1>0, <1>2 DEF Tables, Connections
  <2> QED
    BY <1>0, <1>5, <1>6, <2>1 DEF TInv, TypeOK, DispatcherTypeOK
<1>8. subscribed \subseteq added
  BY <1>0 DEF Tables, Connections
<1>9. Entries' /\ Lined'
  BY <1>0, <1>1, <1>7, <1>8 DEF Tables, Entries, Entry, Lined, kernel
<1>10. Watching' /\ Entering'
  BY <1>0, <1>1 DEF Tables, Watching, Entering, kernel
<1>11. LineSockets'
  BY <1>0, <1>1, <1>7, <1>8 DEF Tables, LineSockets, kernel
<1>12. Connections'
  <2>1. \A d \in Chans : snapshot_socket[d] # NoFd =>
          owner[snapshot_socket[d]] = <<d, HandlerTcp>> /\ snapshot_socket[d] \in tcp_buffer'
    BY <1>0, <1>1, <1>3 DEF Tables, Connections
  <2>2. \A c \in added' : ~ IsUdp(c) =>
          snapshot_socket[c[1]] # NoFd /\ fd'[c] = snapshot_socket[c[1]]
    BY <1>0, <1>1, <1>2, <1>6, <1>7 DEF Tables, Connections
  <2> QED
    BY <1>1, <1>8, <2>1, <2>2 DEF Connections, kernel
<1> QED
  BY <1>4, <1>9, <1>10, <1>11, <1>12 DEF Tables

(* The loops of init and start.                                            *)
LEMMA IInvLoops ==
  ASSUME IInv,
         \/ Created \/ Established \/ Started
         \/ \E ch \in Chans : ConnectFails(ch) /\ main \in {"init", "establish"}
         \/ \E ch \in Chans : Start(ch) \/ StartLine(ch)
  PROVE  (Control /\ Tables /\ ClosingTcp /\ Passed /\ NoLostEdge)'
<1>0. TInv /\ Control /\ Tables /\ ClosingTcp /\ Passed /\ NoLostEdge
  BY DEF IInv
<1> USE DEF Created, Established, Started, ConnectFails, Start, StartLine, Sync, TakeLock, dispatcher
<1>1. /\ UNCHANGED <<tables, kernel, thread, snapshot_socket>>
      /\ main \in {"init", "establish", "start", "up"} /\ main' # "enter"
  OBVIOUS
<1>2. ~ InSync /\ Phase = main /\ (Starting' => Starting)
  BY <1>1 DEF InSync, Phase, Starting
<1>3. Tables' /\ ClosingTcp' /\ NoLostEdge'
  BY <1>0, <1>1, <1>2, TablesKept DEF ClosingTcp, NoLostEdge, kernel, thread
<1>4. CASE \E ch \in Chans : ConnectFails(ch) /\ main \in {"init", "establish"}
  BY <1>0, <1>1, <1>3, <1>4
     DEF Control, Readable, Starting, Phase, InSync, Passed, thread, tables
<1>5. CASE Created \/ Established
  <2>1. left' = Chans /\ main' \in {"establish", "start"} /\ UNCHANGED lock /\ main # "start"
    BY <1>5
  <2>2. Control'
    BY <1>0, <1>1, <1>5, <2>1 DEF Control, Readable, Starting, Phase, InSync, thread, tables
  <2>3. Passed'
    BY <2>1, ContextFields DEF Passed, Phase, InSync
  <2> QED
    BY <1>3, <2>2, <2>3
<1>6. CASE Started
  <2>1. Control'
    BY <1>0, <1>1, <1>6 DEF Control, Readable, Starting, Phase, InSync, thread, tables
  <2>2. Passed'
    BY <1>0, <1>1, <1>2, <1>6 DEF Passed, Phase, InSync, Joined, tables
  <2> QED
    BY <1>3, <2>1, <2>2
<1>7. ASSUME NEW ch \in Chans, Start(ch) \/ StartLine(ch)
      PROVE  Control' /\ Passed'
  <2>1. /\ main' = "sync" /\ back' = main /\ main \in {"start", "up"} /\ chan' = ch /\ at' = 1
        /\ lock = "free" /\ lock' = "main" /\ left \subseteq left' \cup {ch}
    BY <1>7
  <2>2. Control'
    BY <1>0, <1>1, <2>1 DEF Control, Readable, Starting, Phase, InSync, thread, tables
  <2>3. Passed'
    BY <1>0, <1>1, <2>1, ContextFields DEF Passed, Phase, InSync, Joined, tables
  <2> QED
    BY <2>2, <2>3
<1> QED
  BY <1>3, <1>4, <1>5, <1>6, <1>7

(* The manager starts the reader, and asks it to end.                      *)
LEMMA IInvThread ==
  ASSUME IInv, Late = FALSE, ManagerRuns \/ Shutdown
  PROVE  (Control /\ Tables /\ ClosingTcp /\ Passed /\ NoLostEdge)'
<1>0. TInv /\ Control /\ Tables /\ ClosingTcp /\ Passed /\ NoLostEdge
  BY DEF IInv
<1>1. /\ UNCHANGED <<tables, kernel, lock, batch, cur, chan, at, back, left, snapshot_socket>>
      /\ main = "up" /\ main' \in {"up", "join"}
      /\ reader' = reader \/ (reader = "off" /\ reader' = "idle")
  BY DEF ManagerRuns, Run, Shutdown, JoinLock, place
<1>2. ~ InSync /\ ~ InSync' /\ Phase = "up" /\ ~ Starting /\ ~ Starting'
  BY <1>1 DEF InSync, Phase, Starting
<1>3. Control' /\ Passed'
  BY <1>0, <1>1, <1>2 DEF Control, Readable, tables, Passed, Phase, Joined
<1>4. Tables' /\ ClosingTcp' /\ NoLostEdge'
  BY <1>0, <1>1, <1>2, TablesKept DEF ClosingTcp, NoLostEdge, kernel
<1> QED
  BY <1>3, <1>4

(* stop_sync.                                                              *)
LEMMA IInvStopLine ==
  ASSUME IInv, NEW ch \in Chans, StopLine(ch)
  PROVE  (Control /\ Tables /\ ClosingTcp /\ Passed /\ NoLostEdge)'
<1>0. TInv /\ Control /\ Tables /\ ClosingTcp /\ Passed /\ NoLostEdge
  BY DEF IInv
<1> DEFINE gone == Stopped(ch)
           out == { fd[c] : c \in gone }
<1>1. /\ main = "up" /\ lock = "free"
      /\ fd' = [c \in Contexts |-> IF c \in gone THEN NoFd ELSE fd[c]]
      /\ subscribed' = subscribed \ gone
      /\ fd_to_context' = [f \in Fds |-> IF f \in out THEN NoContext ELSE fd_to_context[f]]
      /\ tcp_buffer' = tcp_buffer \ out
      /\ epoll' = epoll \ out /\ ready' = ready \ out
      /\ owner' = [f \in Fds |-> IF f \in out THEN NoContext ELSE owner[f]]
      /\ unread' = unread \ out /\ closing' = closing \ out
      /\ UNCHANGED <<added, thread, lock, place, snapshot_socket>>
  BY DEF StopLine, MayStop, StopSync, Emptied, Forget
<1>2. \A c \in gone : c \in subscribed /\ IsUdp(c) /\ c \in Contexts
  BY <1>0 DEF Stopped, TInv, TypeOK, DispatcherTypeOK
<1> HIDE DEF gone
<1>3. ~ InSync /\ ~ InSync' /\ Phase = "up" /\ Phase' = "up" /\ ~ Starting /\ ~ Starting'
  BY <1>1 DEF InSync, Phase, Starting, place
<1>4. Control' /\ Passed' /\ NoLostEdge'
  BY <1>0, <1>1, <1>2, <1>3 DEF Control, thread, place, Passed, Joined, NoLostEdge
(* What is closed are sockets of lines, each entered for its context.      *)
<1>5. \A c \in gone : /\ fd[c] \in Fds /\ fd_to_context[fd[c]] = c
                      /\ owner[fd[c]] = c
  BY <1>0, <1>2, ContextFields DEF Tables, Lined, Entries, Entry
<1>6. \A f \in out : owner[f] \in gone /\ fd_to_context[f] \in gone
  BY <1>5
<1>7. \A c \in subscribed \ gone : fd[c] \in Fds /\ fd_to_context[fd[c]] = c => fd[c] \notin out
  BY <1>6
<1>8. ClosingTcp'
  BY <1>0, <1>1 DEF ClosingTcp, TInv, TypeOK, DispatcherTypeOK
<1>9. Entries'
  <2> SUFFICES ASSUME NEW f \in Fds, f \notin out, fd_to_context[f] # NoContext
               PROVE  Entry(f, fd_to_context[f])'
    BY <1>1 DEF Entries
  <2>1. Entry(f, fd_to_context[f]) /\ fd_to_context[f] \in Contexts
    BY <1>0 DEF Tables, Entries, TInv, TypeOK, DispatcherTypeOK
  <2>2. fd_to_context[f] \notin gone
    BY <2>1 DEF Entry
  <2>3. fd_to_context'[f] = fd_to_context[f] /\ owner'[f] = owner[f]
    BY <1>1
  <2> QED
    BY <1>1, <2>1, <2>2, <2>3 DEF Entry
<1>10. Watching' /\ Entering'
  BY <1>0, <1>1 DEF Tables, Watching, Entering, place, TInv, TypeOK, DispatcherTypeOK
<1>11. Lined'
  BY <1>0, <1>1, <1>7 DEF Tables, Lined, TInv, TypeOK, DispatcherTypeOK
<1>12. LineSockets'
  <2> SUFFICES ASSUME NEW f \in Fds, f \notin out, owner[f] # NoContext, IsUdp(owner[f])
               PROVE  fd'[owner[f]] = f /\ owner[f] \in subscribed'
    BY <1>1 DEF LineSockets
  <2>1. fd[owner[f]] = f /\ owner[f] \in subscribed /\ owner[f] \in Contexts
    BY <1>0, <1>1 DEF Tables, LineSockets, TInv, TypeOK, DispatcherTypeOK
  <2>2. owner[f] \notin gone
    BY <2>1
  <2> QED
    BY <1>1, <2>1, <2>2
<1>13. Connections'
  <2>1. ASSUME NEW d \in Chans, snapshot_socket[d] # NoFd
        PROVE  owner'[snapshot_socket[d]] = <<d, HandlerTcp>>
    <3>1. owner[snapshot_socket[d]] = <<d, HandlerTcp>> /\ snapshot_socket[d] \in Fds
      BY <1>0, <2>1 DEF Tables, Connections, TInv, TypeOK
    <3>2. snapshot_socket[d] \notin out
      BY <1>2, <1>6, <3>1, TcpContexts
    <3> QED
      BY <1>1, <3>1, <3>2
  <2>2. \A c \in added : ~ IsUdp(c) => fd'[c] = fd[c]
    BY <1>0, <1>1, <1>2 DEF TInv, TypeOK, DispatcherTypeOK
  <2> QED
    BY <1>0, <1>1, <1>3, <2>1, <2>2 DEF Tables, Connections
<1> QED
  BY <1>4, <1>8, <1>9, <1>10, <1>11, <1>12, <1>13 DEF Tables

(* full_stop, when the reader has ended: the set is empty.                 *)
LEMMA IInvJoin ==
  ASSUME IInv, Join
  PROVE  (Control /\ Tables /\ ClosingTcp /\ Passed /\ NoLostEdge)' /\ AllClosed'
<1>0. TInv /\ Control /\ Tables /\ ClosingTcp /\ Passed /\ NoLostEdge
  BY DEF IInv
<1>1. /\ main = "join" /\ main' = "down" /\ reader = "off"
      /\ subscribed' = {} /\ fd_to_context' = [f \in Fds |-> NoContext] /\ tcp_buffer' = {}
      /\ epoll' = epoll \ { fd[c] : c \in subscribed }
      /\ owner' = [f \in Fds |-> IF f \in Cleared THEN NoContext ELSE owner[f]]
      /\ closing' = closing \ Cleared
      /\ UNCHANGED <<added, fd, thread, lock, back, left, chan, at, snapshot_socket>>
  BY DEF Join, Clear, Forget
<1>2. ~ InSync /\ ~ InSync' /\ Phase' = "down" /\ ~ Starting'
  BY <1>1 DEF InSync, Phase, Starting
<1>3. Control' /\ Passed'
  BY <1>0, <1>1, <1>2 DEF Control, thread, Passed
<1>4. epoll' = {}
  BY <1>0, <1>1 DEF Tables, Watching, Entries, Entry, TInv, TypeOK, DispatcherTypeOK
<1>5. ClosingTcp' /\ NoLostEdge'
  BY <1>0, <1>1, <1>4 DEF ClosingTcp, NoLostEdge, TInv, TypeOK, DispatcherTypeOK
<1>6. Entries' /\ Watching' /\ Lined' /\ Entering'
  BY <1>1, <1>4 DEF Entries, Watching, Lined, Entering
<1>7. \A f \in Fds : owner'[f] # NoContext => ~ IsUdp(owner'[f])
  BY <1>0, <1>1 DEF Cleared, Tables, LineSockets
<1>8. Connections'
  <2>1. ASSUME NEW d \in Chans, snapshot_socket[d] # NoFd
        PROVE  owner'[snapshot_socket[d]] = <<d, HandlerTcp>>
    <3>1. owner[snapshot_socket[d]] = <<d, HandlerTcp>> /\ snapshot_socket[d] \in Fds
      BY <1>0, <2>1 DEF Tables, Connections, TInv, TypeOK
    <3>2. \A f \in Cleared : IsUdp(owner[f])
      BY <1>0, ContextFields DEF Cleared, Tables, Lined, Entries, Entry, TInv, TypeOK, DispatcherTypeOK
    <3> QED
      BY <1>1, <3>1, <3>2, TcpContexts
  <2> QED
    BY <1>0, <1>1, <1>2, <2>1 DEF Tables, Connections
<1> QED
  BY <1>1, <1>3, <1>5, <1>6, <1>7, <1>8 DEF Tables, LineSockets, AllClosed

LEMMA IInvNext == Late = FALSE /\ IInv /\ [Next]_vars => IInv'
<1> SUFFICES ASSUME Late = FALSE, IInv, [Next]_vars
             PROVE  (Control /\ Tables /\ ClosingTcp /\ Passed /\ NoLostEdge)'
  BY TInvNext DEF IInv
<1>1. CASE UNCHANGED vars
  <2>1. Control /\ Tables /\ ClosingTcp /\ Passed /\ NoLostEdge
    BY DEF IInv
  <2>2. UNCHANGED <<dispatcher, tables, kernel, thread, lock, place, snapshot_socket>>
    BY <1>1 DEF vars, dispatcher
  <2>3. Control' /\ ClosingTcp' /\ Passed' /\ NoLostEdge'
    BY <2>1, <2>2
       DEF tables, kernel, thread, place, Control, Starting, Phase, InSync, Readable, ClosingTcp,
           Passed, Joined, NoLostEdge
  <2>4. Tables'
    BY <2>1, <2>2, TablesKept DEF kernel, place, Starting, Phase, InSync
  <2> QED
    BY <2>3, <2>4
<1>2. CASE (Environment \/ Poll) /\ UNCHANGED <<place, snapshot_socket>>
  BY <1>2, IInvEnvironment, IInvPoll, IInvEof
<1>3. CASE Syncing
  BY <1>3, IInvSyncing DEF IInv
<1>4. ASSUME NEW ch \in Chans, Create(ch) \/ Establish(ch) \/ Start(ch)
      PROVE  (Control /\ Tables /\ ClosingTcp /\ Passed /\ NoLostEdge)'
  BY <1>4, IInvConnect, IInvAdopt, IInvLoops DEF Create, Establish
<1>5. CASE Created \/ Established \/ Started
  BY <1>5, IInvLoops
<1>6. CASE Join
  BY <1>6, IInvJoin
<1>7. CASE ManagerRuns \/ Shutdown
  BY <1>7, IInvThread
<1>8. ASSUME NEW ch \in Chans, StartLine(ch) \/ StopLine(ch)
      PROVE  (Control /\ Tables /\ ClosingTcp /\ Passed /\ NoLostEdge)'
  BY <1>8, IInvLoops, IInvStopLine
<1> QED
  BY <1>1, <1>2, <1>3, <1>4, <1>5, <1>6, <1>7, <1>8 DEF Next, MainStep, Manager

LEMMA IInvHolds ==
  ASSUME Late = FALSE
  PROVE  Spec => []IInv
BY IInvInit, IInvNext, PTL DEF Spec

----------------------------------------------------------------------------
(* The theorems.                                                           *)

(* The four tables of the dispatcher agree with the kernel's set and the   *)
(* open descriptors, at every step of start_sync, stop_sync, remove_fd and *)
(* clear, in whatever order the threads take them.                         *)
THEOREM TablesAgree ==
  ASSUME Late = FALSE
  PROVE  Spec => []Registered
<1>1. IInv => Registered
  BY DEF IInv, Tables, Entries, Entry, Watching, Lined, Registered
<1> QED
  BY <1>1, IInvHolds, PTL

(* An edge is never lost: what a watched descriptor has to be read is      *)
(* reported, about to be looked at, or being read.                         *)
THEOREM EdgesKept ==
  ASSUME Late = FALSE
  PROVE  Spec => []NoLostEdge
<1>1. IInv => NoLostEdge
  BY DEF IInv
<1> QED
  BY <1>1, IInvHolds, PTL

(* A message is read for the channel its socket belongs to, although       *)
(* numbers of descriptors are used again between two steps of the reader.  *)
THEOREM NeverAnothersMessage ==
  ASSUME Late = FALSE
  PROVE  Spec => []ReadsOwn
<1>1. IInv => ReadsOwn
  <2> SUFFICES ASSUME IInv, reader = "reading"
               PROVE  Context # NoContext /\ owner[cur] # NoContext /\ owner[cur][1] = Context[1]
    BY DEF ReadsOwn
  <2>1. cur \in Fds /\ Context # NoContext /\ Entry(cur, Context) /\ Context \in Contexts
    BY DEF IInv, Control, Readable, Context, Tables, Entries, TInv, TypeOK, DispatcherTypeOK
  <2>2. CASE IsUdp(Context)
    BY <2>1, <2>2 DEF Entry
  <2>3. CASE ~ IsUdp(Context)
    BY <2>1, <2>3, ContextFields, TcpContexts DEF Entry
  <2> QED
    BY <2>2, <2>3
<1> QED
  BY <1>1, IInvHolds, PTL

(* full_stop closes every socket of a line: Join does, and nothing is      *)
(* opened after it.                                                        *)
LEMMA OnlyJoinEnds ==
  ASSUME TInv, [Next]_vars, main' = "down", ~ Join
  PROVE  main = "down" /\ UNCHANGED owner
<1>1. CASE UNCHANGED vars
  BY <1>1 DEF vars, dispatcher, kernel, place
<1>2. CASE Environment /\ UNCHANGED <<place, snapshot_socket>>
  BY <1>2 DEF Environment, Arrive, Close, place
<1>3. CASE Poll /\ UNCHANGED <<place, snapshot_socket>>
  BY <1>3 DEF Poll, Wait, Lock, Take, Read, ReadNothing, ReadEof, Unlock, Exit, kernel, place
<1>4. CASE Syncing
  BY <1>4
     DEF Syncing, SyncSkip, SyncLine, SyncTcp, SyncEnter, SyncFails, SyncEnd, AtContext, TInv, TypeOK
<1>5. ASSUME NEW ch \in Chans, Create(ch) \/ Establish(ch) \/ Start(ch)
      PROVE  FALSE
  BY <1>5 DEF Create, Establish, Start, Connect, ConnectFails, Sync
<1>6. CASE Created \/ Established \/ Started
  BY <1>6 DEF Created, Established, Started
<1>7. CASE Manager
  BY <1>7 DEF Manager, ManagerRuns, Run, Shutdown, StartLine, StopLine, Sync, kernel, place
<1> QED
  BY <1>1, <1>2, <1>3, <1>4, <1>5, <1>6, <1>7 DEF Next, MainStep

THEOREM NoLineLeftOpen ==
  ASSUME Late = FALSE
  PROVE  Spec => []AllClosed
<1>1. Init => AllClosed
  BY DEF Init, AllClosed
<1>2. IInv /\ AllClosed /\ [Next]_vars => AllClosed'
  BY IInvJoin, OnlyJoinEnds DEF AllClosed, IInv
<1> QED
  BY <1>1, <1>2, IInvHolds, PTL DEF Spec
=============================================================================
