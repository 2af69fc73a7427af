---------------------------- MODULE OnloadProofs ----------------------------
(***************************************************************************)
(* Theorems about OnloadDispatcher, for any number of channels, lines,     *)
(* descriptors and requests: without a lock the tables, the set and the    *)
(* open descriptors agree, what is read is read for its own channel, the   *)
(* last request for a channel is what has been done when all are served,   *)
(* and the lines of a channel without a connection are watched.            *)
(***************************************************************************)
EXTENDS OnloadDispatcher, SequenceTheorems, TLAPS

----------------------------------------------------------------------------
(* The inductive invariant.                                                *)

Requests == [command : {"start", "stop"}, ch : Chans]

TInv ==
  /\ added \subseteq Contexts /\ subscribed \subseteq Contexts
  /\ fd \in [Contexts -> Fds \cup {NoFd}]
  /\ fd_to_context \in [Fds -> Contexts \cup {NoContext}]
  /\ owner \in [Fds -> Contexts \cup {NoContext}]
  /\ epoll \subseteq Fds
  /\ reader \in {"off", "started", "idle", "batch", "reading", "requests"}
  /\ main \in {"init", "establish", "start", "up", "join", "down"}
  /\ left \subseteq Chans
  /\ snapshot_socket \in [Chans -> Fds \cup {NoFd}]
  /\ requests \in Seq(Requests)
  /\ wanted \in [Chans -> {"", "start", "stop"}]

(* The reader runs after the session's start, and reads for an entry.      *)
Starting == main \in {"init", "establish", "start"}
Control ==
  /\ Starting => reader = "off"
  /\ reader = "reading" => cur \in Fds /\ fd_to_context[cur] # NoContext

(* The tables, the set and the sockets.                                    *)
Entry(f, c) ==
  /\ c \in subscribed /\ fd[c] = f
  /\ owner[f] = IF IsUdp(c) THEN c ELSE <<c[1], HandlerTcp>>
Entries == \A f \in Fds : fd_to_context[f] # NoContext => Entry(f, fd_to_context[f])
Watching == \A f \in epoll : fd_to_context[f] # NoContext
Lined == \A c \in subscribed : IsUdp(c) => fd[c] \in Fds /\ fd_to_context[fd[c]] = c

(* The contexts of a connection share the socket of their channel; the     *)
(* lines of all channels are there.                                        *)
Connections ==
  /\ \A ch \in Chans : snapshot_socket[ch] # NoFd =>
       owner[snapshot_socket[ch]] = <<ch, HandlerTcp>>
  /\ \A c \in added : ~ IsUdp(c) =>
       snapshot_socket[c[1]] # NoFd /\ fd[c] = snapshot_socket[c[1]]
  /\ subscribed \subseteq added
  /\ Chans \X (1 .. Lines) \subseteq added

Tables == Entries /\ Watching /\ Lined /\ Connections

(* Before the reader has its set, only the lines that a connection has     *)
(* started are subscribed.                                                 *)
Unstarted ==
  Starting \/ reader = "started" =>
    \A ch \in Chans : snapshot_socket[ch] = NoFd => \A k \in 1 .. Lines : <<ch, k>> \notin subscribed

(* The last request for a channel is what is wanted; the lines are as      *)
(* wanted when none is waiting.                                            *)
Asked(ch) == main \in {"up", "join"} \/ (main = "start" /\ ch \notin left)
Newest(i) == \A j \in DOMAIN requests : j > i => requests[j].ch # requests[i].ch
Waiting(ch) == \E i \in DOMAIN requests : requests[i].ch = ch
Orders ==
  \A ch \in Chans : Asked(ch) =>
    /\ \A i \in DOMAIN requests : requests[i].ch = ch /\ Newest(i) => requests[i].command = wanted[ch]
    /\ ~ Waiting(ch) => \A k \in 1 .. Lines : <<ch, k>> \in subscribed <=> wanted[ch] = "start"

IInv == TInv /\ Control /\ Tables /\ Unstarted /\ WatchedWithoutSnapshot /\ Orders

----------------------------------------------------------------------------
(* Contexts, requests and start_sync.                                      *)

LEMMA ContextFields ==
  /\ \A c \in Contexts : /\ c[1] \in Chans /\ c[2] \in 1 .. SessionTcp
                         /\ c = <<c[1], c[2]>> /\ c # NoContext
  /\ NoContext \notin Contexts
BY DEF Contexts, NoContext

LEMMA TcpContexts ==
  ASSUME NEW ch \in Chans
  PROVE  /\ <<ch, HandlerTcp>> \in Contexts /\ ~ IsUdp(<<ch, HandlerTcp>>)
         /\ <<ch, SessionTcp>> \in Contexts /\ ~ IsUdp(<<ch, SessionTcp>>)
         /\ <<ch, HandlerTcp>> # NoContext
BY DispatcherAssumption DEF Contexts, HandlerTcp, SessionTcp, IsUdp, NoContext

LEMMA LineContexts ==
  ASSUME NEW ch \in Chans, NEW k \in 1 .. Lines
  PROVE  <<ch, k>> \in Contexts /\ IsUdp(<<ch, k>>)
BY DispatcherAssumption DEF Contexts, SessionTcp, IsUdp

LEMMA NoFdIsNone == NoFd \notin Fds
BY DEF NoFd, Fds

(* What is open is taken for a context, and an entry is for what is open.  *)
LEMMA EntryOpen ==
  ASSUME TInv, Entries, NEW f \in Fds, fd_to_context[f] # NoContext
  PROVE  owner[f] # NoContext
BY ContextFields, TcpContexts DEF TInv, Entries, Entry

LEMMA NotEmpty ==
  ASSUME NEW s \in Seq(Requests), s # <<>>
  PROVE  Len(s) \in Nat /\ Len(s) > 0 /\ DOMAIN s = 1 .. Len(s) /\ s[1] \in Requests
<1>1. Len(s) \in Nat \ {0} /\ DOMAIN s = 1 .. Len(s)
  BY EmptySeq, LenProperties
<1>2. 1 \in 1 .. Len(s)
  BY <1>1
<1> QED
  BY <1>1, <1>2, ElementOfSeq

(* The first request is taken off.                                         *)
LEMMA Served ==
  ASSUME NEW s \in Seq(Requests), s # <<>>
  PROVE  /\ RemoveAt(s, 1) \in Seq(Requests)
         /\ Len(RemoveAt(s, 1)) = Len(s) - 1
         /\ \A i \in 1 .. Len(s) - 1 : RemoveAt(s, 1)[i] = s[i + 1]
<1>1. SubSeq(s, 1, 0) = <<>>
  BY SubSeqEmpty
<1>2. /\ Tail(s) \in Seq(Requests) /\ Len(Tail(s)) = Len(s) - 1
      /\ \A i \in 1 .. Len(Tail(s)) : Tail(s)[i] = s[i + 1]
  BY HeadTailProperties
<1>3. RemoveAt(s, 1) = Tail(s)
  <2>1. RemoveAt(s, 1) = SubSeq(s, 1, 1 - 1) \o SubSeq(s, 1 + 1, Len(s))
    BY DEF RemoveAt
  <2>2. 1 - 1 = 0 /\ 1 + 1 = 2
    OBVIOUS
  <2>3. RemoveAt(s, 1) = <<>> \o Tail(s)
    BY <1>1, <2>1, <2>2, TailIsSubSeq
  <2> QED
    BY <1>2, <2>3, ConcatEmptySeq
<1> QED
  BY <1>2, <1>3

(* start_sync: lines get sockets that were free, each its own, and the     *)
(* contexts of a connection are entered for the one of the channel.        *)
LEMMA StartSyncEffect ==
  ASSUME TInv, Connections, NEW ch \in Chans, StartSync(ch)
  PROVE  LET cs == NotStarted(ch) IN
         /\ fd' \in [Contexts -> Fds \cup {NoFd}]
         /\ owner' \in [Fds -> Contexts \cup {NoContext}]
         /\ \A c \in Contexts : c \notin cs \/ ~ IsUdp(c) => fd'[c] = fd[c]
         /\ \A f \in Fds : owner[f] # NoContext => owner'[f] = owner[f]
         /\ \A c \in cs : IsUdp(c) =>
              fd'[c] \in Fds /\ owner[fd'[c]] = NoContext /\ owner'[fd'[c]] = c
         /\ epoll' = epoll \cup { fd'[c] : c \in cs }
         /\ fd_to_context' = [f \in Fds |-> IF \E c \in cs : fd'[c] = f
                                            THEN CHOOSE c \in cs : fd'[c] = f
                                            ELSE fd_to_context[f]]
         /\ subscribed' = subscribed \cup cs
         /\ UNCHANGED <<added, tcp_buffer, unread, closing, ready>>
<1> DEFINE cs == NotStarted(ch)
           lines == { c \in cs : IsUdp(c) }
<1>1. PICK g \in Injection(lines, Fds \ Open) :
        /\ fd' = [c \in Contexts |-> IF c \in DOMAIN g THEN g[c] ELSE fd[c]]
        /\ owner' = [f \in Fds |-> IF f \in Range(g) THEN CHOOSE c \in DOMAIN g : g[c] = f
                                   ELSE owner[f]]
        /\ epoll' = epoll \cup { fd'[c] : c \in cs }
        /\ fd_to_context' = [f \in Fds |-> IF \E c \in cs : fd'[c] = f
                                           THEN CHOOSE c \in cs : fd'[c] = f
                                           ELSE fd_to_context[f]]
        /\ subscribed' = subscribed \cup cs
        /\ UNCHANGED <<added, tcp_buffer, unread, closing, ready>>
  BY DEF StartSync, InSet
<1>2. cs \subseteq Contexts /\ lines \subseteq Contexts
  BY DEF NotStarted, TInv
<1>3. g \in [lines -> Fds \ Open] /\ \A c, d \in lines : g[c] = g[d] => c = d
  BY DEF Injection, IsInjective
<1>4. fd' = [c \in Contexts |-> IF c \in lines THEN g[c] ELSE fd[c]]
  BY <1>1, <1>3
<1>5. \A f \in Range(g) : owner[f] = NoContext /\ \E c \in lines : g[c] = f
  BY <1>3 DEF Range, Open
<1>6. \A c \in lines : g[c] \in Range(g) /\ g[c] \in Fds
  BY <1>3 DEF Range
<1>7. \A c \in lines : (CHOOSE d \in DOMAIN g : g[d] = g[c]) = c
  BY <1>3
<1>8. \A c \in lines : owner'[g[c]] = c
  BY <1>1, <1>6, <1>7
<1>9. owner' \in [Fds -> Contexts \cup {NoContext}]
  <2>1. \A f \in Range(g) : (CHOOSE c \in DOMAIN g : g[c] = f) \in Contexts
    BY <1>2, <1>3, <1>5, <1>7
  <2> QED
    BY <1>1, <2>1 DEF TInv
<1>10. fd' \in [Contexts -> Fds \cup {NoFd}]
  BY <1>3, <1>4 DEF TInv
<1>11. \A f \in Fds : owner[f] # NoContext => owner'[f] = owner[f]
  BY <1>1, <1>5
<1>12. \A c \in Contexts : c \notin cs \/ ~ IsUdp(c) => fd'[c] = fd[c]
  BY <1>4
<1>13. \A c \in cs : IsUdp(c) =>
         fd'[c] \in Fds /\ owner[fd'[c]] = NoContext /\ owner'[fd'[c]] = c
  BY <1>2, <1>4, <1>5, <1>6, <1>8
<1> QED
  BY <1>1, <1>9, <1>10, <1>11, <1>12, <1>13

----------------------------------------------------------------------------
(* IInv is inductive.                                                      *)

LEMMA IInvInit == Init => IInv
<1> SUFFICES ASSUME Init
             PROVE  IInv
  OBVIOUS
<1>1. Chans \X (1 .. Lines) \subseteq Contexts /\ \A c \in Chans \X (1 .. Lines) : IsUdp(c)
  BY DispatcherAssumption DEF SessionTcp, Contexts, IsUdp
<1> USE DEF Init, DispatcherInit
<1>2. TInv
  BY <1>1, EmptySeq DEF TInv
<1>3. Control /\ Unstarted /\ WatchedWithoutSnapshot /\ Orders
  BY DEF Control, Starting, Unstarted, WatchedWithoutSnapshot, Watched, Orders, Asked
<1>4. Tables
  BY <1>1 DEF Tables, Entries, Watching, Lined, Connections
<1> QED
  BY <1>2, <1>3, <1>4 DEF IInv

(* Steps that leave the tables and the sockets.                            *)
LEMMA IInvKept ==
  ASSUME IInv, UNCHANGED <<added, fd, subscribed, fd_to_context, owner, snapshot_socket>>,
         TInv', Control', Orders', Watching',
         (Starting \/ reader = "started")' => Starting \/ reader = "started",
         \/ epoll \subseteq epoll' /\ (reader' \notin {"off", "started"} => reader \notin {"off", "started"})
         \/ Starting \/ reader = "started"
  PROVE  IInv'
<1>1. Tables'
  BY DEF IInv, Tables, Entries, Entry, Lined, Connections
<1>2. Unstarted'
  BY DEF IInv, Unstarted
<1>3. WatchedWithoutSnapshot'
  BY DEF IInv, WatchedWithoutSnapshot, Watched, Unstarted
<1> QED
  BY <1>1, <1>2, <1>3 DEF IInv

LEMMA IInvConnect ==
  ASSUME IInv, NEW ch \in Chans, Connect(ch)
  PROVE  IInv'
<1>0. TInv /\ Control /\ Tables /\ Unstarted /\ WatchedWithoutSnapshot /\ Orders
  BY DEF IInv
<1> DEFINE new == <<ch, HandlerTcp>>
<1>1. PICK f \in Fds : /\ owner[f] = NoContext /\ owner' = [owner EXCEPT ![f] = new]
                       /\ snapshot_socket' = [snapshot_socket EXCEPT ![ch] = f]
                       /\ added' = added \cup {new} /\ fd' = [fd EXCEPT ![new] = f]
                       /\ UNCHANGED <<subscribed, fd_to_context, epoll>>
  BY DEF Connect, Connects, Opens, Open, AddTcp
<1>2. /\ main = "init" /\ snapshot_socket[ch] = NoFd
      /\ UNCHANGED <<main, left, queue, thread>>
  BY DEF Connect
<1>3. new \in Contexts /\ new # NoContext /\ ~ IsUdp(new) /\ new[1] = ch
  BY TcpContexts
<1> HIDE DEF new
<1>4. TInv' /\ Control'
  BY <1>0, <1>1, <1>2, <1>3 DEF TInv, Control, Starting, queue, thread
<1>5. owner'[f] = new /\ fd'[new] = f /\ snapshot_socket'[ch] = f
  BY <1>0, <1>1, <1>3 DEF TInv
<1>6. \A g \in Fds : owner[g] # NoContext => g # f /\ owner'[g] = owner[g]
  BY <1>0, <1>1 DEF TInv
<1>7. \A c \in Contexts : c # new => fd'[c] = fd[c]
  BY <1>0, <1>1 DEF TInv
<1>8. \A d \in Chans : d # ch => snapshot_socket'[d] = snapshot_socket[d]
  BY <1>0, <1>1 DEF TInv
<1>9. \A c \in added : ~ IsUdp(c) => c[1] # ch
  BY <1>0, <1>2 DEF Tables, Connections
<1>10. new \notin added /\ new \notin subscribed
  BY <1>0, <1>3, <1>9 DEF Tables, Connections
<1>11. Entries'
  <2> SUFFICES ASSUME NEW g \in Fds, fd_to_context[g] # NoContext
               PROVE  Entry(g, fd_to_context[g])'
    BY <1>1 DEF Entries
  <2>1. Entry(g, fd_to_context[g]) /\ fd_to_context[g] \in Contexts /\ owner[g] # NoContext
    BY <1>0, EntryOpen DEF Tables, Entries, TInv
  <2> QED
    BY <1>1, <1>6, <1>7, <1>10, <2>1 DEF Entry
<1>12. Watching' /\ Lined'
  BY <1>0, <1>1, <1>7, <1>10 DEF Tables, Watching, Lined, TInv
<1>13. Connections'
  <2>1. ASSUME NEW d \in Chans, snapshot_socket'[d] # NoFd
        PROVE  owner'[snapshot_socket'[d]] = <<d, HandlerTcp>>
    <3>1. CASE d = ch
      BY <1>5, <3>1 DEF new
    <3>2. CASE d # ch
      <4>1. owner[snapshot_socket[d]] = <<d, HandlerTcp>> /\ snapshot_socket[d] \in Fds
        BY <1>0, <1>8, <2>1, <3>2 DEF Tables, Connections, TInv
      <4>2. owner'[snapshot_socket[d]] = <<d, HandlerTcp>>
        BY <1>6, <4>1, TcpContexts
      <4> QED
        BY <1>8, <3>2, <4>2
    <3> QED
      BY <3>1, <3>2
  <2>2. ASSUME NEW c \in added', ~ IsUdp(c)
        PROVE  snapshot_socket'[c[1]] # NoFd /\ fd'[c] = snapshot_socket'[c[1]]
    <3>1. CASE c = new
      BY <1>3, <1>5, <3>1, NoFdIsNone
    <3>2. CASE c # new
      <4>1. c \in added /\ c \in Contexts /\ c[1] \in Chans /\ c[1] # ch
        BY <1>0, <1>1, <1>9, <2>2, <3>2, ContextFields DEF TInv
      <4> QED
        BY <1>0, <1>7, <1>8, <2>2, <3>2, <4>1 DEF Tables, Connections
    <3> QED
      BY <3>1, <3>2
  <2>3. subscribed' \subseteq added' /\ Chans \X (1 .. Lines) \subseteq added'
    BY <1>0, <1>1 DEF Tables, Connections
  <2> QED
    BY <2>1, <2>2, <2>3 DEF Connections
<1>14. Unstarted' /\ WatchedWithoutSnapshot'
  <2>1. \A d \in Chans : snapshot_socket'[d] = NoFd => snapshot_socket[d] = NoFd
    BY <1>2, <1>8
  <2>2. reader' = "off" /\ Starting
    BY <1>0, <1>2 DEF Control, Starting, thread
  <2> QED
    BY <1>0, <1>1, <2>1, <2>2 DEF Unstarted, WatchedWithoutSnapshot, Watched
<1>15. Orders'
  BY <1>2 DEF Orders, Asked
<1> QED
  BY <1>4, <1>11, <1>12, <1>13, <1>14, <1>15 DEF IInv, Tables

(* What a start of a channel keeps and adds.                               *)
LEMMA StartSyncTables ==
  ASSUME TInv, Tables, NEW ch \in Chans, StartSync(ch), UNCHANGED snapshot_socket
  PROVE  /\ Tables'
         /\ subscribed' = subscribed \cup NotStarted(ch)
         /\ subscribed' \subseteq Contexts /\ epoll' \subseteq Fds
         /\ fd' \in [Contexts -> Fds \cup {NoFd}]
         /\ fd_to_context' \in [Fds -> Contexts \cup {NoContext}]
         /\ owner' \in [Fds -> Contexts \cup {NoContext}]
         /\ epoll \subseteq epoll' /\ UNCHANGED added
         /\ \A c \in subscribed : fd'[c] = fd[c]
         /\ \A c \in NotStarted(ch) : fd'[c] \in epoll'
<1> DEFINE cs == NotStarted(ch)
<1>1. /\ fd' \in [Contexts -> Fds \cup {NoFd}]
      /\ owner' \in [Fds -> Contexts \cup {NoContext}]
      /\ \A c \in Contexts : c \notin cs \/ ~ IsUdp(c) => fd'[c] = fd[c]
      /\ \A f \in Fds : owner[f] # NoContext => owner'[f] = owner[f]
      /\ \A c \in cs : IsUdp(c) =>
           fd'[c] \in Fds /\ owner[fd'[c]] = NoContext /\ owner'[fd'[c]] = c
      /\ epoll' = epoll \cup { fd'[c] : c \in cs }
      /\ fd_to_context' = [f \in Fds |-> IF \E c \in cs : fd'[c] = f
                                         THEN CHOOSE c \in cs : fd'[c] = f
                                         ELSE fd_to_context[f]]
      /\ subscribed' = subscribed \cup cs
      /\ UNCHANGED <<added, tcp_buffer, unread, closing, ready>>
  BY StartSyncEffect DEF Tables
<1>2. /\ \A c \in cs : c \in added /\ c \notin subscribed /\ c[1] = ch /\ c \in Contexts /\ c # NoContext
      /\ cs \subseteq Contexts /\ NoContext \notin cs
  BY ContextFields DEF NotStarted, TInv
<1> HIDE DEF cs
<1>3. \A c \in subscribed : c \in Contexts /\ fd'[c] = fd[c]
  BY <1>1, <1>2 DEF TInv
(* The socket of a context of a connection is the one of the channel.      *)
<1>4. ASSUME NEW c \in cs, ~ IsUdp(c)
      PROVE  fd'[c] \in Fds /\ owner[fd'[c]] = <<ch, HandlerTcp>> /\ owner'[fd'[c]] = <<ch, HandlerTcp>>
  <2>1. snapshot_socket[ch] # NoFd /\ fd'[c] = snapshot_socket[ch]
    BY <1>1, <1>2, <1>4 DEF Tables, Connections
  <2>2. snapshot_socket[ch] \in Fds /\ owner[snapshot_socket[ch]] = <<ch, HandlerTcp>>
    BY <2>1 DEF Tables, Connections, TInv
  <2> QED
    BY <1>1, <2>1, <2>2, TcpContexts
<1>5. \A c \in cs : fd'[c] \in Fds
  BY <1>1, <1>4
<1>6. ASSUME NEW f \in Fds, NEW d \in cs, fd'[d] = f
      PROVE  fd_to_context'[f] \in cs /\ fd'[fd_to_context'[f]] = f
  BY <1>1, <1>6
<1>7. ASSUME NEW f \in Fds, \A d \in cs : fd'[d] # f
      PROVE  fd_to_context'[f] = fd_to_context[f]
  BY <1>1, <1>7
<1>8. Entries'
  <2> SUFFICES ASSUME NEW f \in Fds, fd_to_context'[f] # NoContext
               PROVE  Entry(f, fd_to_context[f])'
    BY DEF Entries
  <2>1. ASSUME NEW d \in cs, fd'[d] = f
        PROVE  Entry(f, fd_to_context[f])'
    <3>1. fd_to_context'[f] \in cs /\ fd'[fd_to_context'[f]] = f
      BY <1>6, <2>1
    <3> QED
      BY <1>1, <1>2, <1>4, <3>1 DEF Entry
  <2>2. CASE \A d \in cs : fd'[d] # f
    <3>1. fd_to_context'[f] = fd_to_context[f] /\ fd_to_context[f] # NoContext
      BY <1>7, <2>2
    <3>2. Entry(f, fd_to_context[f]) /\ owner[f] # NoContext
      BY <3>1, EntryOpen DEF Tables, Entries
    <3> QED
      BY <1>1, <1>3, <3>1, <3>2 DEF Entry
  <2> QED
    BY <2>1, <2>2
<1>9. Watching'
  <2> SUFFICES ASSUME NEW f \in epoll'
               PROVE  fd_to_context'[f] # NoContext
    BY DEF Watching
  <2>1. ASSUME NEW d \in cs, fd'[d] = f
        PROVE  fd_to_context'[f] # NoContext
    BY <1>2, <1>5, <1>6, <2>1
  <2>2. CASE \A d \in cs : fd'[d] # f
    <3>1. f \in epoll
      BY <1>1, <2>2
    <3>2. f \in Fds
      BY <3>1 DEF TInv
    <3> QED
      BY <3>2, <1>7, <2>2, <3>1 DEF Tables, Watching
  <2> QED
    BY <2>1, <2>2
<1>10. Lined'
  <2> SUFFICES ASSUME NEW c \in subscribed', IsUdp(c)
               PROVE  fd'[c] \in Fds /\ fd_to_context'[fd'[c]] = c
    BY DEF Lined
  <2>1. CASE c \in cs
    <3>1. fd'[c] \in Fds /\ owner'[fd'[c]] = c
      BY <1>1, <2>1
    <3>2. fd_to_context'[fd'[c]] \in cs /\ fd'[fd_to_context'[fd'[c]]] = fd'[c]
      BY <1>6, <2>1, <3>1
    <3> DEFINE d == fd_to_context'[fd'[c]]
    <3>3. IsUdp(d)
      <4> SUFFICES ASSUME ~ IsUdp(d)
                   PROVE  FALSE
        OBVIOUS
      <4>1. owner'[fd'[d]] = <<ch, HandlerTcp>>
        BY <1>4, <3>2
      <4> QED
        BY <3>1, <3>2, <4>1, TcpContexts
    <3>4. owner'[fd'[d]] = d
      BY <1>1, <3>2, <3>3
    <3> QED
      BY <3>1, <3>2, <3>4
  <2>2. CASE c \notin cs
    <3>1. c \in subscribed /\ c \in Contexts /\ c # NoContext
      BY <1>1, <2>2, ContextFields DEF TInv
    <3>2. fd[c] \in Fds /\ fd_to_context[fd[c]] = c
      BY <2>2, <3>1 DEF Tables, Lined
    <3>3. owner[fd[c]] = c
      BY <3>1, <3>2 DEF Tables, Entries, Entry
    <3>4. \A d \in cs : fd'[d] # fd[c]
      <4> SUFFICES ASSUME NEW d \in cs, fd'[d] = fd[c]
                   PROVE  FALSE
        OBVIOUS
      <4>1. CASE IsUdp(d)
        BY <1>1, <3>1, <3>3, <4>1
      <4>2. CASE ~ IsUdp(d)
        <5>1. owner[fd'[d]] = <<ch, HandlerTcp>>
          BY <1>4, <4>2
        <5> QED
          BY <3>3, <5>1, TcpContexts
      <4> QED
        BY <4>1, <4>2
    <3> QED
      BY <1>3, <1>7, <3>1, <3>2, <3>4
  <2> QED
    BY <2>1, <2>2
<1>11. Connections'
  <2>1. ASSUME NEW d \in Chans, snapshot_socket[d] # NoFd
        PROVE  owner'[snapshot_socket[d]] = <<d, HandlerTcp>>
    <3>1. owner[snapshot_socket[d]] = <<d, HandlerTcp>> /\ snapshot_socket[d] \in Fds
      BY <2>1 DEF Tables, Connections, TInv
    <3> QED
      BY <1>1, <3>1, TcpContexts
  <2>2. \A c \in added : ~ IsUdp(c) => fd'[c] = fd[c]
    BY <1>1 DEF TInv
  <2>3. subscribed' \subseteq added
    BY <1>1, <1>2 DEF Tables, Connections
  <2> QED
    BY <1>1, <2>1, <2>2, <2>3 DEF Tables, Connections
<1>12. fd_to_context' \in [Fds -> Contexts \cup {NoContext}]
  <2>1. \A f \in Fds : fd_to_context'[f] \in Contexts \cup {NoContext}
    BY <1>2, <1>6, <1>7 DEF TInv
  <2> QED
    BY <1>1, <2>1
<1>13. epoll' \subseteq Fds /\ subscribed' \subseteq Contexts
  <2>1. epoll \subseteq Fds /\ subscribed \subseteq Contexts
    BY DEF TInv
  <2>2. { fd'[c] : c \in cs } \subseteq Fds
    BY <1>5
  <2> QED
    BY <1>1, <1>2, <2>1, <2>2
<1> QED
  BY <1>1, <1>3, <1>8, <1>9, <1>10, <1>11, <1>12, <1>13 DEF Tables, cs

(* What a stop of a channel removes: its lines, and their sockets.         *)
LEMMA StopSyncTables ==
  ASSUME TInv, Tables, NEW ch \in Chans, StopSync(ch), UNCHANGED snapshot_socket
  PROVE  /\ Tables'
         /\ subscribed' = subscribed \ Stopped(ch) /\ UNCHANGED added
         /\ epoll' \subseteq Fds
         /\ fd' \in [Contexts -> Fds \cup {NoFd}]
         /\ fd_to_context' \in [Fds -> Contexts \cup {NoContext}]
         /\ owner' \in [Fds -> Contexts \cup {NoContext}]
         /\ \A c \in subscribed' : IsUdp(c) => fd'[c] = fd[c] /\ (fd[c] \in epoll => fd[c] \in epoll')
<1> DEFINE gone == Stopped(ch)
           out == { fd[c] : c \in gone }
<1>1. /\ fd' = [c \in Contexts |-> IF c \in gone THEN NoFd ELSE fd[c]]
      /\ subscribed' = subscribed \ gone
      /\ fd_to_context' = [f \in Fds |-> IF f \in out THEN NoContext ELSE fd_to_context[f]]
      /\ epoll' = epoll \ out
      /\ owner' = [f \in Fds |-> IF f \in out THEN NoContext ELSE owner[f]]
      /\ UNCHANGED <<added, snapshot_socket>>
  BY DEF StopSync, Emptied, Forget
<1>2. \A c \in gone : c \in subscribed /\ IsUdp(c) /\ c \in Contexts /\ c # NoContext
  BY ContextFields DEF Stopped, TInv
<1>3. subscribed \ gone = subscribed \ Stopped(ch)
  OBVIOUS
<1> HIDE DEF gone
<1>4. ASSUME NEW c \in gone
      PROVE  fd[c] \in Fds /\ fd_to_context[fd[c]] = c /\ owner[fd[c]] = c
  <2>1. fd[c] \in Fds /\ fd_to_context[fd[c]] = c /\ c # NoContext
    BY <1>2 DEF Tables, Lined
  <2>2. Entry(fd[c], c)
    BY <2>1 DEF Tables, Entries
  <2> QED
    BY <1>2, <2>1, <2>2 DEF Entry
<1>5. \A f \in out : owner[f] \in gone /\ fd_to_context[f] \in gone
  BY <1>4
<1>6. ASSUME NEW c \in subscribed', IsUdp(c)
      PROVE  /\ c \in subscribed /\ fd[c] \in Fds /\ fd_to_context[fd[c]] = c
             /\ fd[c] \notin out /\ fd'[c] = fd[c]
  <2>1. c \in subscribed /\ c \notin gone /\ c \in Contexts
    BY <1>1, <1>6 DEF TInv
  <2>2. fd[c] \in Fds /\ fd_to_context[fd[c]] = c
    BY <1>6, <2>1 DEF Tables, Lined
  <2> QED
    BY <1>1, <1>5, <2>1, <2>2
<1>7. Entries'
  <2> SUFFICES ASSUME NEW f \in Fds, f \notin out, fd_to_context[f] # NoContext
               PROVE  Entry(f, fd_to_context[f])'
    BY <1>1 DEF Entries
  <2>1. Entry(f, fd_to_context[f]) /\ fd_to_context[f] \in Contexts
    BY DEF Tables, Entries, TInv
  <2>2. fd_to_context[f] \notin gone
    BY <2>1 DEF Entry
  <2>3. fd_to_context'[f] = fd_to_context[f] /\ owner'[f] = owner[f]
    BY <1>1
  <2> QED
    BY <1>1, <2>1, <2>2, <2>3 DEF Entry
<1>8. Watching'
  BY <1>1 DEF Tables, Watching, TInv
<1>9. Lined'
  BY <1>1, <1>6 DEF Lined
<1>10. Connections'
  <2>1. ASSUME NEW d \in Chans, snapshot_socket[d] # NoFd
        PROVE  owner'[snapshot_socket[d]] = <<d, HandlerTcp>>
    <3>1. owner[snapshot_socket[d]] = <<d, HandlerTcp>> /\ snapshot_socket[d] \in Fds
      BY <2>1 DEF Tables, Connections, TInv
    <3>2. snapshot_socket[d] \notin out
      BY <1>2, <1>5, <3>1, TcpContexts
    <3> QED
      BY <1>1, <3>1, <3>2
  <2>2. \A c \in added : ~ IsUdp(c) => fd'[c] = fd[c]
    BY <1>1, <1>2 DEF TInv
  <2> QED
    BY <1>1, <2>1, <2>2 DEF Tables, Connections
<1>11. \A c \in subscribed' : IsUdp(c) => fd'[c] = fd[c] /\ (fd[c] \in epoll => fd[c] \in epoll')
  BY <1>1, <1>6
<1>12. /\ epoll' \subseteq Fds /\ fd' \in [Contexts -> Fds \cup {NoFd}]
       /\ fd_to_context' \in [Fds -> Contexts \cup {NoContext}]
       /\ owner' \in [Fds -> Contexts \cup {NoContext}]
  BY <1>1 DEF TInv
<1> QED
  BY <1>1, <1>3, <1>7, <1>8, <1>9, <1>10, <1>11, <1>12 DEF Tables

(* A start of a connected channel, before the reader runs.                 *)
LEMMA IInvStarted ==
  ASSUME IInv, NEW ch \in Chans, Started(ch)
  PROVE  IInv'
<1>0. TInv /\ Control /\ Tables /\ Unstarted /\ WatchedWithoutSnapshot /\ Orders
  BY DEF IInv
<1>1. /\ main = "init" /\ snapshot_socket[ch] # NoFd /\ StartSync(ch) /\ left' = left \ {ch}
      /\ UNCHANGED <<main, snapshot_socket, queue, thread, lock>>
  BY DEF Started
<1>2. reader = "off" /\ Starting
  BY <1>0, <1>1 DEF Control, Starting
<1>3. TInv'
  BY <1>0, <1>1, StartSyncTables DEF TInv, queue, thread
<1>4. Tables' /\ subscribed' = subscribed \cup NotStarted(ch)
  BY <1>0, <1>1, StartSyncTables
<1>5. Control' /\ WatchedWithoutSnapshot' /\ Orders'
  BY <1>1, <1>2 DEF Control, Starting, WatchedWithoutSnapshot, Watched, Orders, Asked, thread
<1>6. Unstarted'
  BY <1>0, <1>1, <1>2, <1>4 DEF Unstarted, NotStarted
<1> QED
  BY <1>3, <1>4, <1>5, <1>6 DEF IInv

(* The session adds the connection of a channel.                           *)
LEMMA IInvEstablish ==
  ASSUME IInv, NEW ch \in Chans, Establish(ch)
  PROVE  IInv'
<1>0. TInv /\ Control /\ Tables /\ Unstarted /\ WatchedWithoutSnapshot /\ Orders
  BY DEF IInv
<1> DEFINE new == <<ch, SessionTcp>>
<1>1. /\ main = "establish" /\ left' = left \ {ch}
      /\ UNCHANGED <<kernel, thread, lock, main, snapshot_socket, queue>>
      /\ \/ /\ snapshot_socket[ch] # NoFd
            /\ added' = added \cup {new} /\ fd' = [fd EXCEPT ![new] = snapshot_socket[ch]]
            /\ UNCHANGED <<subscribed, fd_to_context>>
         \/ UNCHANGED tables
  BY DEF Establish, AddTcp
<1>2. new \in Contexts /\ ~ IsUdp(new) /\ new[1] = ch
  BY TcpContexts
<1> HIDE DEF new
<1>3. TInv' /\ Control'
  BY <1>0, <1>1, <1>2 DEF TInv, Control, Starting, kernel, thread, queue, tables
<1>4. \A c \in added : fd'[c] = fd[c]
  <2>1. new \in added /\ snapshot_socket[ch] # NoFd => fd[new] = snapshot_socket[ch]
    BY <1>0, <1>2 DEF Tables, Connections
  <2> QED
    BY <1>0, <1>1, <2>1 DEF TInv, tables
<1>5. subscribed \subseteq added
  BY <1>0 DEF Tables, Connections
<1>6. Entries' /\ Watching' /\ Lined'
  BY <1>0, <1>1, <1>4, <1>5 DEF Tables, Entries, Entry, Watching, Lined, kernel, tables
<1>7. \A c \in added' : ~ IsUdp(c) => snapshot_socket[c[1]] # NoFd /\ fd'[c] = snapshot_socket[c[1]]
  <2>1. new \in added' /\ new \notin added => snapshot_socket[ch] # NoFd /\ fd'[new] = snapshot_socket[ch]
    BY <1>0, <1>1, <1>2 DEF TInv, tables
  <2>2. \A c \in added' : c \in added \/ c = new
    BY <1>1 DEF tables
  <2> QED
    BY <1>0, <1>2, <1>4, <2>1, <2>2 DEF Tables, Connections
<1>8. Connections'
  BY <1>0, <1>1, <1>7 DEF Tables, Connections, kernel, tables
<1>9. Unstarted' /\ WatchedWithoutSnapshot' /\ Orders'
  <2>1. Starting /\ reader = "off" /\ UNCHANGED subscribed
    BY <1>0, <1>1 DEF Starting, Control, tables
  <2> QED
    BY <1>0, <1>1, <2>1
       DEF Starting, thread, Unstarted, WatchedWithoutSnapshot, Watched, Orders, Asked
<1> QED
  BY <1>3, <1>6, <1>8, <1>9 DEF IInv, Tables

(* A request is appended.                                                  *)
LEMMA AskOrders ==
  ASSUME TInv, Orders, NEW ch \in Chans, NEW command \in {"start", "stop"}, Ask(command, ch),
         UNCHANGED subscribed,
         \A d \in Chans : Asked(d)' => Asked(d) \/ d = ch
  PROVE  Orders' /\ requests' \in Seq(Requests) /\ wanted' \in [Chans -> {"", "start", "stop"}]
<1> DEFINE r == [command |-> command, ch |-> ch]
           n == Len(requests)
<1>1. requests' = Append(requests, r) /\ wanted' = [wanted EXCEPT ![ch] = command]
  BY DEF Ask
<1>2. r \in Requests /\ requests \in Seq(Requests) /\ n \in Nat /\ DOMAIN requests = 1 .. n
  BY LenProperties DEF Requests, TInv
<1>3. /\ requests' \in Seq(Requests) /\ Len(requests') = n + 1
      /\ \A i \in 1 .. n : requests'[i] = requests[i]
      /\ requests'[n + 1] = r
  BY <1>1, <1>2, AppendProperties
<1>4. DOMAIN requests' = 1 .. n + 1
  BY <1>3
<1>5. r.ch = ch /\ r.command = command
  OBVIOUS
<1>6. wanted'[ch] = command /\ \A d \in Chans : d # ch => wanted'[d] = wanted[d]
  BY <1>1 DEF TInv
<1> HIDE DEF r, n
<1>7. ASSUME NEW d \in Chans, Asked(d)', NEW i \in 1 .. n + 1, requests'[i].ch = d, Newest(i)'
      PROVE  requests'[i].command = wanted'[d]
  <2>1. CASE i = n + 1
    BY <1>3, <1>5, <1>6, <1>7, <2>1
  <2>2. CASE i # n + 1
    <3>1. i \in 1 .. n /\ n + 1 > i /\ n + 1 \in 1 .. n + 1
      BY <1>2, <2>2
    <3>2. d # ch
      BY <1>3, <1>4, <1>5, <1>7, <3>1 DEF Newest
    <3>3. requests[i].ch = d /\ Newest(i)
      <4>1. requests[i].ch = d
        BY <1>3, <1>7, <3>1
      <4>2. \A j \in 1 .. n : j \in 1 .. n + 1 /\ requests'[j] = requests[j]
        BY <1>2, <1>3
      <4> QED
        BY <1>2, <1>4, <1>7, <3>1, <4>1, <4>2 DEF Newest
    <3> QED
      BY <1>2, <1>3, <1>6, <1>7, <3>1, <3>2, <3>3 DEF Orders
  <2> QED
    BY <2>1, <2>2
<1>8. ASSUME NEW d \in Chans, Asked(d)', ~ Waiting(d)'
      PROVE  \A k \in 1 .. Lines : <<d, k>> \in subscribed' <=> wanted'[d] = "start"
  <2>1. d # ch
    BY <1>2, <1>3, <1>4, <1>5, <1>8 DEF Waiting
  <2>2. ~ Waiting(d)
    <3>1. \A i \in 1 .. n : i \in 1 .. n + 1 /\ requests'[i] = requests[i]
      BY <1>2, <1>3
    <3> QED
      BY <1>2, <1>4, <1>8, <3>1 DEF Waiting
  <2> QED
    BY <1>6, <1>8, <2>1, <2>2 DEF Orders
<1>9. Orders'
  BY <1>4, <1>7, <1>8 DEF Orders
<1> QED
  BY <1>1, <1>3, <1>9 DEF TInv

(* The first request is served: the lines of its channel are as it says.   *)
LEMMA ServedOrders ==
  ASSUME TInv, Orders, requests # <<>>, requests' = RemoveAt(requests, 1),
         UNCHANGED <<wanted, main, left>>,
         \A d \in Chans, k \in 1 .. Lines :
           d # requests[1].ch => (<<d, k>> \in subscribed' <=> <<d, k>> \in subscribed),
         \A k \in 1 .. Lines :
           <<requests[1].ch, k>> \in subscribed' <=> requests[1].command = "start"
  PROVE  Orders'
<1> DEFINE n == Len(requests)
<1>1. requests \in Seq(Requests) /\ n \in Nat /\ n > 0 /\ DOMAIN requests = 1 .. n
  BY NotEmpty DEF TInv
<1>2. /\ requests' \in Seq(Requests) /\ Len(requests') = n - 1
      /\ \A i \in 1 .. n - 1 : requests'[i] = requests[i + 1]
  BY <1>1, Served
<1>3. DOMAIN requests' = 1 .. n - 1
  BY <1>2, LenProperties
<1> HIDE DEF n
<1>4. ASSUME NEW d \in Chans, Asked(d), NEW i \in 1 .. n - 1, requests'[i].ch = d, Newest(i)'
      PROVE  requests'[i].command = wanted[d]
  <2>1. i + 1 \in 1 .. n /\ requests[i + 1].ch = d
    BY <1>1, <1>2, <1>4
  <2>2. ASSUME NEW j \in 1 .. n, j > i + 1
        PROVE  requests[j].ch # d
    <3>1. j - 1 \in 1 .. n - 1 /\ j - 1 > i /\ (j - 1) + 1 = j
      BY <1>1, <2>2
    <3>2. requests'[j - 1] = requests[j]
      BY <1>2, <3>1
    <3> QED
      BY <1>3, <1>4, <3>1, <3>2 DEF Newest
  <2>3. Newest(i + 1)
    BY <1>1, <2>1, <2>2 DEF Newest
  <2> QED
    BY <1>1, <1>2, <1>4, <2>1, <2>3 DEF Orders
<1>5. ASSUME NEW d \in Chans, Asked(d), ~ Waiting(d)'
      PROVE  \A k \in 1 .. Lines : <<d, k>> \in subscribed' <=> wanted[d] = "start"
  <2>1. ASSUME NEW j \in 1 .. n, j > 1
        PROVE  requests[j].ch # d
    <3>1. j - 1 \in 1 .. n - 1 /\ (j - 1) + 1 = j
      BY <1>1, <2>1
    <3>2. requests'[j - 1] = requests[j]
      BY <1>2, <3>1
    <3> QED
      BY <1>3, <1>5, <3>1, <3>2 DEF Waiting
  <2>2. 1 \in 1 .. n /\ \A j \in 1 .. n : j = 1 \/ j > 1
    BY <1>1
  <2>3. CASE requests[1].ch = d
    <3>1. Newest(1)
      BY <1>1, <2>1, <2>3 DEF Newest
    <3>2. requests[1].command = wanted[d]
      BY <1>1, <1>5, <2>2, <2>3, <3>1 DEF Orders
    <3> QED
      BY <2>3, <3>2
  <2>4. CASE requests[1].ch # d
    <3>1. ~ Waiting(d)
      BY <1>1, <2>1, <2>2, <2>4 DEF Waiting
    <3> QED
      BY <1>5, <2>4, <3>1 DEF Orders
  <2> QED
    BY <2>3, <2>4
<1>6. \A d \in Chans : Asked(d)' = Asked(d)
  BY DEF Asked
<1> QED
  BY <1>3, <1>4, <1>5, <1>6 DEF Orders

LEMMA IInvHandleRequest ==
  ASSUME IInv, HandleRequest
  PROVE  IInv'
<1>0. TInv /\ Control /\ Tables /\ Unstarted /\ WatchedWithoutSnapshot /\ Orders
  BY DEF IInv
<1> DEFINE r == requests[1]
<1>1. /\ reader = "requests" /\ requests # <<>> /\ requests' = RemoveAt(requests, 1)
      /\ \/ r.command = "start" /\ StartSync(r.ch)
         \/ r.command = "stop" /\ StopSync(r.ch)
      /\ UNCHANGED <<thread, lock, place, asked, wanted>>
  BY DEF HandleRequest, NextRequest, Position
<1>2. r \in Requests /\ r.ch \in Chans /\ r.command \in {"start", "stop"}
  <2>1. r \in Requests
    BY <1>0, <1>1, NotEmpty DEF TInv
  <2> QED
    BY <2>1 DEF Requests
<1>3. requests' \in Seq(Requests)
  BY <1>0, <1>1, Served DEF TInv
<1>4. UNCHANGED <<main, left, snapshot_socket, wanted, reader, cur>> /\ ~ Starting /\ ~ Starting'
  BY <1>0, <1>1 DEF place, thread, Control, Starting
<1> HIDE DEF r
<1>5. CASE r.command = "start" /\ StartSync(r.ch)
  <2>1. /\ Tables'
        /\ subscribed' = subscribed \cup NotStarted(r.ch)
        /\ subscribed' \subseteq Contexts /\ epoll' \subseteq Fds
        /\ fd' \in [Contexts -> Fds \cup {NoFd}]
        /\ fd_to_context' \in [Fds -> Contexts \cup {NoContext}]
        /\ owner' \in [Fds -> Contexts \cup {NoContext}]
        /\ epoll \subseteq epoll' /\ UNCHANGED added
        /\ \A c \in subscribed : fd'[c] = fd[c]
        /\ \A c \in NotStarted(r.ch) : fd'[c] \in epoll'
    BY <1>0, <1>2, <1>4, <1>5, StartSyncTables
  <2>2. \A d \in Chans, k \in 1 .. Lines :
          d # r.ch => (<<d, k>> \in subscribed' <=> <<d, k>> \in subscribed)
    BY <2>1 DEF NotStarted
  <2>3. \A k \in 1 .. Lines : <<r.ch, k>> \in subscribed'
    <3>1. \A k \in 1 .. Lines : <<r.ch, k>> \in added
      BY <1>0, <1>2 DEF Tables, Connections
    <3> QED
      BY <2>1, <3>1 DEF NotStarted
  <2>4. Orders'
    BY <1>0, <1>1, <1>4, <1>5, <2>2, <2>3, ServedOrders DEF r
  <2>5. TInv' /\ Control'
    BY <1>0, <1>1, <1>3, <1>4, <2>1 DEF TInv, Control
  <2>6. Unstarted' /\ WatchedWithoutSnapshot'
    BY <1>0, <1>1, <1>4, <2>1 DEF Unstarted, WatchedWithoutSnapshot, Watched
  <2> QED
    BY <2>1, <2>4, <2>5, <2>6 DEF IInv
<1>6. CASE r.command = "stop" /\ StopSync(r.ch)
  <2>1. /\ Tables'
        /\ subscribed' = subscribed \ Stopped(r.ch) /\ UNCHANGED added
        /\ epoll' \subseteq Fds
        /\ fd' \in [Contexts -> Fds \cup {NoFd}]
        /\ fd_to_context' \in [Fds -> Contexts \cup {NoContext}]
        /\ owner' \in [Fds -> Contexts \cup {NoContext}]
        /\ \A c \in subscribed' : IsUdp(c) => fd'[c] = fd[c] /\ (fd[c] \in epoll => fd[c] \in epoll')
    BY <1>0, <1>2, <1>4, <1>6, StopSyncTables
  <2>2. \A d \in Chans, k \in 1 .. Lines :
          d # r.ch => (<<d, k>> \in subscribed' <=> <<d, k>> \in subscribed)
    BY <2>1 DEF Stopped
  <2>3. \A k \in 1 .. Lines : <<r.ch, k>> \notin subscribed'
    BY <1>2, <2>1, LineContexts DEF Stopped
  <2>4. Orders'
    BY <1>0, <1>1, <1>4, <1>6, <2>2, <2>3, ServedOrders DEF r
  <2>5. TInv' /\ Control'
    BY <1>0, <1>1, <1>3, <1>4, <2>1 DEF TInv, Control
  <2>6. Unstarted' /\ WatchedWithoutSnapshot'
    <3>1. \A ch \in Chans, k \in 1 .. Lines : <<ch, k>> \in subscribed' => <<ch, k>> \in subscribed
      BY <2>1
    <3>2. ASSUME NEW ch \in Chans, NEW k \in 1 .. Lines, <<ch, k>> \in subscribed', fd[<<ch, k>>] \in epoll
          PROVE  fd'[<<ch, k>>] \in epoll'
      BY <2>1, <3>2, LineContexts
    <3> QED
      BY <1>0, <1>1, <1>4, <3>1, <3>2 DEF Unstarted, WatchedWithoutSnapshot, Watched
  <2> QED
    BY <2>1, <2>4, <2>5, <2>6 DEF IInv
<1> QED
  BY <1>1, <1>5, <1>6

(* What is asked and done stays so while no channel begins to be asked.     *)
LEMMA OnlyAsked ==
  ASSUME Orders, UNCHANGED <<requests, wanted, subscribed>>,
         \A ch \in Chans : Asked(ch)' => Asked(ch)
  PROVE  Orders'
<1>1. \A i : Newest(i)' <=> Newest(i)
  BY DEF Newest
<1>2. \A ch \in Chans : Waiting(ch)' <=> Waiting(ch)
  BY DEF Waiting
<1> QED
  BY <1>1, <1>2 DEF Orders

(* The session's and the manager's other steps.                            *)
LEMMA IInvLoops ==
  ASSUME IInv, \/ Created \/ Established \/ ManagerRuns \/ Shutdown
               \/ \E ch \in Chans : ConnectFails(ch)
  PROVE  IInv'
<1>0. TInv /\ Control /\ Tables /\ Orders
  BY DEF IInv
<1> USE DEF Created, Established, ManagerRuns, Shutdown, ConnectFails, dispatcher, tables, kernel,
            thread, queue
<1>1. UNCHANGED <<tables, kernel, cur, snapshot_socket, requests, wanted>>
  OBVIOUS
<1>2. TInv' /\ Control' /\ Watching'
  BY <1>0, <1>1 DEF TInv, Control, Starting, Tables, Watching
<1>3. (Starting \/ reader = "started")' => Starting \/ reader = "started"
  BY DEF Starting
<1>4. Orders'
  <2>1. \A ch \in Chans : Asked(ch)' => Asked(ch)
    BY DEF Asked
  <2>2. UNCHANGED <<requests, wanted, subscribed>>
    BY <1>1
  <2> QED
    BY <1>0, <2>1, <2>2, OnlyAsked
<1>5. Starting \/ UNCHANGED reader
  BY DEF Starting
<1> QED
  BY <1>1, <1>2, <1>3, <1>4, <1>5, IInvKept

LEMMA IInvAsk ==
  ASSUME IInv, NEW ch \in Chans, Start(ch) \/ StartLine(ch) \/ StopLine(ch)
  PROVE  IInv'
<1>0. TInv /\ Control /\ Tables /\ Orders
  BY DEF IInv
<1>1. PICK command \in {"start", "stop"} : Ask(command, ch)
  BY DEF Start, StartLine, StopLine, Stop
<1>2. UNCHANGED <<tables, kernel, thread, main, snapshot_socket>>
  BY DEF Start, StartLine, StopLine, Stop, dispatcher, place
<1>3. \A d \in Chans : Asked(d)' => Asked(d) \/ d = ch
  BY DEF Start, StartLine, StopLine, place, Asked
<1>4. left' \subseteq Chans
  BY <1>0 DEF Start, StartLine, StopLine, place, TInv
<1>5. Orders' /\ requests' \in Seq(Requests) /\ wanted' \in [Chans -> {"", "start", "stop"}]
  BY <1>0, <1>1, <1>2, <1>3, AskOrders DEF tables
<1>6. TInv' /\ Control' /\ Watching'
  BY <1>0, <1>2, <1>4, <1>5 DEF TInv, Control, Starting, Tables, Watching, tables, kernel, thread
<1>7. UNCHANGED <<Starting, reader, added, fd, subscribed, fd_to_context, owner, epoll>>
  BY <1>2 DEF Starting, tables, kernel, thread
<1> QED
  BY <1>2, <1>5, <1>6, <1>7, IInvKept

(* full_stop, when the reader has ended.                                   *)
LEMMA IInvJoin ==
  ASSUME IInv, Join
  PROVE  IInv'
<1>0. TInv /\ Tables
  BY DEF IInv
<1>1. /\ main' = "down" /\ reader = "off"
      /\ subscribed' = {} /\ fd_to_context' = [f \in Fds |-> NoContext]
      /\ epoll' = epoll \ { fd[c] : c \in subscribed }
      /\ owner' = [f \in Fds |-> IF f \in Cleared THEN NoContext ELSE owner[f]]
      /\ UNCHANGED <<added, fd, thread, left, snapshot_socket, queue>>
  BY DEF Join, Clear, Forget
<1>2. TInv'
  BY <1>0, <1>1 DEF TInv, thread, queue
<1>3. Control' /\ Unstarted' /\ WatchedWithoutSnapshot' /\ Orders'
  BY <1>1 DEF Control, Starting, Unstarted, WatchedWithoutSnapshot, Watched, Orders, Asked, thread
<1>4. epoll' = {}
  <2>1. ASSUME NEW f \in epoll
        PROVE  \E c \in subscribed : fd[c] = f
    <3>1. f \in Fds /\ fd_to_context[f] # NoContext
      BY <1>0, <2>1 DEF Tables, Watching, TInv
    <3> QED
      BY <1>0, <3>1 DEF Tables, Entries, Entry
  <2> QED
    BY <1>1, <2>1
<1>5. \A f \in Cleared : IsUdp(owner[f])
  <2> SUFFICES ASSUME NEW c \in subscribed, IsUdp(c)
               PROVE  IsUdp(owner[fd[c]])
    BY DEF Cleared
  <2>1. fd[c] \in Fds /\ fd_to_context[fd[c]] = c /\ c # NoContext
    BY <1>0, ContextFields DEF Tables, Lined, TInv
  <2>2. Entry(fd[c], c)
    BY <1>0, <2>1 DEF Tables, Entries
  <2> QED
    BY <2>2 DEF Entry
<1>6. Connections'
  <2>1. ASSUME NEW d \in Chans, snapshot_socket[d] # NoFd
        PROVE  owner'[snapshot_socket[d]] = <<d, HandlerTcp>>
    <3>1. owner[snapshot_socket[d]] = <<d, HandlerTcp>> /\ snapshot_socket[d] \in Fds
      BY <1>0, <2>1 DEF Tables, Connections, TInv
    <3> QED
      BY <1>1, <1>5, <3>1, TcpContexts
  <2> QED
    BY <1>0, <1>1, <2>1 DEF Tables, Connections
<1>7. Entries' /\ Watching' /\ Lined'
  BY <1>1, <1>4 DEF Entries, Watching, Lined
<1> QED
  BY <1>2, <1>3, <1>6, <1>7 DEF IInv, Tables

(* The reader's polls, and the kernel.                                     *)
LEMMA IInvPoll ==
  ASSUME IInv, \/ NewSet \/ PollWait \/ ReadUdp \/ ReadTcp \/ ReadTcpNothing \/ PollEnds \/ LoopAgain
               \/ \E f \in Fds : Look(f) \/ Arrival(f) \/ Closing(f)
  PROVE  IInv'
<1>0. TInv /\ Control /\ Tables /\ Orders
  BY DEF IInv
<1> USE DEF NewSet, PollWait, ReadUdp, ReadTcp, Read, AfterRead, ReadEnds, ReadTcpNothing, PollEnds,
            LoopAgain, Look, Take, Arrival, Closing, place, queue, kernel, tables, thread
<1>1. UNCHANGED <<tables, owner, main, left, snapshot_socket, requests, wanted>>
  OBVIOUS
<1>2. epoll' = epoll \/ (NewSet /\ epoll' = {})
  OBVIOUS
<1>3. reader' \in {"off", "started", "idle", "batch", "reading", "requests"} /\ (Starting => reader' = "off")
  BY <1>0 DEF TInv, Control
<1>4. reader' = "reading" => cur' \in Fds /\ fd_to_context[cur'] # NoContext
  BY <1>0 DEF Control, Readable
<1>5. TInv' /\ Control' /\ Watching'
  BY <1>0, <1>1, <1>2, <1>3, <1>4 DEF TInv, Control, Starting, Tables, Watching
<1>6. Orders'
  BY <1>0, <1>1 DEF Orders, Asked, Newest, Waiting
<1>7. UNCHANGED Starting /\ (reader' = "started" => reader = "started")
  BY <1>1 DEF Starting
<1>8. ~ NewSet => (reader' \notin {"off", "started"} => reader \notin {"off", "started"})
  OBVIOUS
<1>9. NewSet => reader = "started"
  OBVIOUS
<1> QED
  BY <1>1, <1>2, <1>5, <1>6, <1>7, <1>8, <1>9, IInvKept

(* remove_fd: the context stays subscribed; no line is affected.           *)
LEMMA IInvEof ==
  ASSUME IInv, ReadTcpEof
  PROVE  IInv'
<1>0. TInv /\ Control /\ Tables /\ Unstarted /\ WatchedWithoutSnapshot /\ Orders
  BY DEF IInv
<1>1. /\ reader = "reading" /\ reader' = "batch" /\ cur' = NoFd
      /\ ~ IsUdp(fd_to_context[cur])
      /\ epoll' = epoll \ {cur}
      /\ fd_to_context' = [f \in Fds |-> IF f = cur THEN NoContext ELSE fd_to_context[f]]
      /\ UNCHANGED <<added, fd, subscribed, owner, main, left, snapshot_socket, requests, wanted>>
  BY DEF ReadTcpEof, ReadEof, ReadEnds, Emptied, Context, place, queue
<1>2. TInv' /\ Control'
  BY <1>0, <1>1 DEF TInv, Control, Starting
<1>3. Orders'
  BY <1>0, <1>1 DEF Orders, Asked, Newest, Waiting
<1>4. ASSUME NEW c \in subscribed, IsUdp(c)
      PROVE  fd[c] \in Fds /\ fd_to_context[fd[c]] = c /\ fd[c] # cur
  BY <1>0, <1>1, <1>4 DEF Tables, Lined
<1>5. Lined'
  BY <1>1, <1>4 DEF Lined
<1>6. Entries' /\ Watching' /\ Connections'
  BY <1>0, <1>1 DEF Tables, Entries, Entry, Watching, Connections, TInv
<1>7. Unstarted' /\ WatchedWithoutSnapshot'
  <2>1. ~ Starting /\ ~ Starting'
    BY <1>0, <1>1 DEF Control, Starting
  <2>2. ASSUME NEW ch \in Chans, NEW k \in 1 .. Lines, <<ch, k>> \in subscribed, fd[<<ch, k>>] \in epoll
        PROVE  fd[<<ch, k>>] \in epoll'
    BY <1>1, <1>4, <2>2, LineContexts
  <2> QED
    BY <1>0, <1>1, <2>1, <2>2 DEF Unstarted, WatchedWithoutSnapshot, Watched
<1> QED
  BY <1>2, <1>3, <1>5, <1>6, <1>7 DEF IInv, Tables

LEMMA IInvNext == IInv /\ [Next]_vars => IInv'
<1> SUFFICES ASSUME IInv, [Next]_vars
             PROVE  IInv'
  OBVIOUS
<1>1. CASE UNCHANGED vars
  <2>1. UNCHANGED <<added, fd, subscribed, fd_to_context, owner, epoll, snapshot_socket, requests,
                    wanted, main, left, reader, cur>>
    BY <1>1 DEF vars, dispatcher, tables, kernel, thread, place, queue
  <2>2. TInv' /\ Control' /\ Watching'
    BY <2>1 DEF IInv, TInv, Control, Starting, Tables, Watching
  <2>3. Orders'
    BY <2>1 DEF IInv, Orders, Asked, Newest, Waiting
  <2> QED
    BY <2>1, <2>2, <2>3, IInvKept DEF Starting
<1>2. CASE Session
  BY <1>2, IInvConnect, IInvStarted, IInvLoops, IInvEstablish, IInvAsk DEF Session
<1>3. CASE Manager
  BY <1>3, IInvLoops, IInvJoin, IInvAsk DEF Manager
<1>4. CASE Reader
  BY <1>4, IInvPoll, IInvEof, IInvHandleRequest DEF Reader
<1>5. CASE \E f \in Fds : Arrival(f) \/ Closing(f)
  BY <1>5, IInvPoll
<1> QED
  BY <1>1, <1>2, <1>3, <1>4, <1>5 DEF Next

LEMMA IInvHolds == Spec => []IInv
BY IInvInit, IInvNext, PTL DEF Spec

----------------------------------------------------------------------------
(* The theorems.                                                           *)

(* The tables, the set and the open descriptors agree without a lock.      *)
THEOREM TablesAgree == Spec => []Registered
<1>1. IInv => Registered
  <2> SUFFICES ASSUME IInv
               PROVE  Registered
    OBVIOUS
  <2>1. ASSUME NEW f \in Fds, fd_to_context[f] # NoContext
        PROVE  /\ Entry(f, fd_to_context[f]) /\ owner[f] # NoContext
               /\ owner[f][1] = fd_to_context[f][1]
    <3>1. Entry(f, fd_to_context[f]) /\ owner[f] # NoContext
      BY <2>1, EntryOpen DEF IInv, Tables, Entries
    <3> QED
      BY <3>1 DEF Entry
  <2> QED
    BY <2>1 DEF IInv, Tables, Entry, Watching, Registered
<1> QED
  BY <1>1, IInvHolds, PTL

(* The last request of the manager for a channel is what has been done     *)
(* when all are served, however starts and stops are mixed.                *)
THEOREM LastAskedIsDone == Spec => []Obeyed
<1>1. IInv => Obeyed
  <2> SUFFICES ASSUME IInv, requests = <<>>, main = "up", NEW ch \in Chans
               PROVE  \A k \in 1 .. Lines : <<ch, k>> \in subscribed <=> wanted[ch] = "start"
    BY DEF Obeyed
  <2>1. DOMAIN requests = {}
    OBVIOUS
  <2>2. Asked(ch) /\ ~ Waiting(ch)
    BY <2>1 DEF Asked, Waiting
  <2> QED
    BY <2>2 DEF IInv, Orders
<1> QED
  BY <1>1, IInvHolds, PTL

(* What is read is read for its own channel.                               *)
THEOREM NeverAnothersMessage == Spec => []ReadsOwn
<1>1. IInv => ReadsOwn
  <2> SUFFICES ASSUME IInv, reader = "reading"
               PROVE  Context # NoContext /\ owner[cur] # NoContext /\ owner[cur][1] = Context[1]
    BY DEF ReadsOwn
  <2>1. cur \in Fds /\ fd_to_context[cur] # NoContext
    BY DEF IInv, Control
  <2>2. Entry(cur, fd_to_context[cur]) /\ owner[cur] # NoContext
    BY <2>1, EntryOpen DEF IInv, Tables, Entries
  <2> QED
    BY <2>1, <2>2 DEF Entry, Context
<1> QED
  BY <1>1, IInvHolds, PTL

(* Lines of a channel without a connection are watched once the reader has *)
(* its own set.                                                            *)
THEOREM LinesWatched == Spec => []WatchedWithoutSnapshot
<1>1. IInv => WatchedWithoutSnapshot
  BY DEF IInv
<1> QED
  BY <1>1, IInvHolds, PTL
=============================================================================
