--------------------------- MODULE SimDispatcher ---------------------------
(***************************************************************************)
(* Simple_Dispatcher in test mode, in the main loop of the simulated       *)
(* exchange: one channel, with a pipe for the retransmission requests and  *)
(* a socket for the snapshot.  A pipe has no datagrams, so the client ends *)
(* each request with three boundary bytes, and poll_one looks for them.    *)
(*                                                                         *)
(* A request is MsgLen bytes <<n, i>>: the session, which is text, then a  *)
(* number and a count in binary, any byte of which may have the value of   *)
(* the boundary's (message 65793 is 0x010101).  A message of the socket is *)
(* TcpLen bytes, which are their positions in the stream, and the last is  *)
(* the logout.  Sending (to_write, check_write_event) is in Exchange.      *)
(***************************************************************************)
EXTENDS Integers, Sequences, SequencesExt, FiniteSetsExt

CONSTANTS
  MsgLen,      \* bytes of a request (20 in the code)
  SessionLen,  \* those of the session, not looked at (10 in the code)
  Patterns,    \* the sets of places of a request where its bytes have the
               \* boundary's value (bound)
  Chunk,       \* bytes of the largest read (20 in the code)
  Requests,    \* requests of the client (bound)
  TcpLen,      \* bytes of a message of the socket (bound)
  ClientMsgs   \* messages of the socket (bound)

Marks == 3
ASSUME SimDispatcherAssumption ==
  /\ {MsgLen, SessionLen, Chunk, Requests, TcpLen, ClientMsgs} \subseteq Nat \ {0}
  /\ Marks <= SessionLen /\ SessionLen < MsgLen /\ Chunk <= MsgLen
  /\ Patterns \subseteq SUBSET (SessionLen + 1 .. MsgLen)

Files == {"pipe", "socket"}
Mark == <<0, 0>>          \* UDP_BOUNDARY
NoByte == <<0, 1>>
BufLen == 2 * (MsgLen + Marks) + Chunk
StreamLen == ClientMsgs * TcpLen

VARIABLES
  added,      \* the contexts in m_contexts
  subscribed, \* those subscribed, with an entry in m_fd_to_context
  tcp_buffer, \* the descriptors with a buffer
  epoll,      \* kernel: what is watched
  ready,      \* kernel: what has an event to be reported
  place,      \* the main loop: "setup"; "poll", in epoll_wait; "batch", in the
              \* loop over the events; "pipe" or "socket", reading
  batch,      \* m_events, those not yet looked at
  pipe,       \* kernel: the bytes in the pipe
  buffer,     \* m_buffer
  loc,        \* the bytes in it
  resv,       \* the size of the next read
  tries,      \* iTry0, tcpTry: reads in a row that found nothing
  tcp,        \* the bytes in the TCP_Buffer
  arrived,    \* kernel: the bytes of the stream that have arrived
  got,        \*         ... that have been read
  hungup,     \* kernel: the client has closed the socket
  errno,      \* "EAGAIN" once a read has found nothing
  written,    \* requests of the client
  ones,       \* the bytes of requests that have the boundary's value
  half,       \* the client is between the two writes of a request
  spoiler,    \* history: the first request that may be misread, 0 if none
  parsed,     \* history: what parse was given, 0 for what is no request
  read        \* history: what read was given

tables == <<added, subscribed, tcp_buffer>>
client == <<written, ones, half, spoiler>>
udp == <<pipe, buffer, loc, resv>>
stream == <<tcp, arrived, got, hungup>>
heard == <<parsed, read>>
vars == <<tables, epoll, ready, place, batch, udp, tries, stream, errno, client, heard>>

TypeOK ==
  /\ added \subseteq Files /\ subscribed \subseteq added /\ tcp_buffer \subseteq {"socket"}
  /\ epoll \subseteq subscribed /\ ready \subseteq Files /\ batch \subseteq Files
  /\ place \in {"setup", "poll", "batch"} \cup Files
  /\ pipe \in Seq((0 .. Requests) \X (0 .. MsgLen))
  /\ DOMAIN buffer = 1 .. BufLen /\ loc \in 0 .. BufLen - Chunk
  /\ resv \in 1 .. Chunk /\ tries \in 0 .. 2
  /\ tcp \in Seq(1 .. StreamLen) /\ Len(tcp) < 2 * TcpLen
  /\ arrived \in 0 .. StreamLen /\ got \in 0 .. arrived
  /\ {hungup, half} \subseteq BOOLEAN /\ errno \in {"", "EAGAIN"}
  /\ written \in 0 .. Requests /\ spoiler \in 0 .. written + 1
  /\ ones \subseteq (1 .. written) \X (SessionLen + 1 .. MsgLen)
  /\ parsed \in Seq(0 .. Requests) /\ read \in Seq(Seq(1 .. StreamLen))

----------------------------------------------------------------------------
(* start_exchange.                                                         *)

(* add_udp_fd, and add_tcp_fd when the client has connected.               *)
Add(f) ==
  /\ place = "setup"
  /\ f = IF added = {} THEN "pipe" ELSE "socket"
  /\ added' = added \cup {f}
  /\ tcp_buffer' = added' \ {"pipe"}
  /\ UNCHANGED <<subscribed, epoll, ready, place, batch, udp, tries, stream, errno, client, heard>>

Waiting == { f \in Files : f = "socket" \/ pipe # <<>> }

(* start_sync: edge-triggered; what can be written, or has data, has an    *)
(* event at once.                                                          *)
StartSync ==
  /\ place = "setup" /\ place' = "poll"
  /\ added = Files
  /\ subscribed' = added /\ epoll' = added /\ ready' = Waiting
  /\ UNCHANGED <<added, tcp_buffer, batch, udp, tries, stream, errno, client, heard>>

----------------------------------------------------------------------------
(* The client's process.                                                   *)

Event(f) == ready' = IF f \in epoll THEN ready \cup {f} ELSE ready

Request(n) == [i \in 1 .. MsgLen |-> <<n, i>>]
Boundary == [i \in 1 .. Marks |-> Mark]

(* A whole boundary inside a request, before its last byte has come.       *)
Inside(at) == \E i \in at : i + 2 < MsgLen /\ {i, i + 1, i + 2} \subseteq at

(* Request n is written, with the boundary's value at some of its places.  *)
(* It is misread if they hold a boundary; if its own is found too early or *)
(* may come late (odd), what is left of it is in front of the next one.    *)
Writes(n, bytes, at, odd) ==
  /\ written < Requests /\ n = written + 1 /\ written' = n
  /\ ~ half
  /\ pipe' = pipe \o bytes
  /\ ones' = ones \cup ({n} \X at)
  /\ spoiler' = CASE spoiler # 0 -> spoiler
                   [] spoiler = 0 /\ Inside(at) -> n
                   [] spoiler = 0 /\ ~ Inside(at) -> IF odd THEN n + 1 ELSE 0
  /\ Event("pipe")
  /\ UNCHANGED <<tables, epoll, place, batch, buffer, loc, resv, tries, stream, errno, heard>>

(* A request with its boundary in one write.                               *)
Write(n) ==
  \E at \in Patterns :
    /\ Writes(n, Request(n) \o Boundary, at, MsgLen \in at)
    /\ UNCHANGED half

(* The third form of send_retransmit_request writes the boundary           *)
(* separately.                                                             *)
WriteRequest(n) ==
  \E at \in Patterns :
    /\ Writes(n, Request(n), at, TRUE)
    /\ half' = TRUE

WriteBoundary ==
  /\ half /\ half' = FALSE
  /\ pipe' = pipe \o Boundary
  /\ Event("pipe")
  /\ UNCHANGED <<tables, epoll, place, batch, buffer, loc, resv, tries, stream, errno,
                 written, ones, spoiler, heard>>

Arrive ==
  /\ arrived < StreamLen /\ ~ hungup
  /\ arrived' = arrived + 1
  /\ Event("socket")
  /\ UNCHANGED <<tables, epoll, place, batch, udp, tries, tcp, got, hungup, errno, client, heard>>

HangUp ==
  /\ ~ hungup /\ hungup' = TRUE
  /\ Event("socket")
  /\ UNCHANGED <<tables, epoll, place, batch, udp, tries, tcp, arrived, got, errno, client, heard>>

----------------------------------------------------------------------------
(* poll_one.                                                               *)

PollWait ==
  /\ place = "poll" /\ place' = "batch"
  /\ ready # {} /\ batch' = ready /\ ready' = {}
  /\ UNCHANGED <<tables, epoll, udp, tries, stream, errno, client, heard>>

Look(f) ==
  /\ place = "batch"
  /\ f \in batch /\ batch' = batch \ {f}
  /\ place' = IF f \in subscribed THEN f ELSE place
  /\ UNCHANGED <<tables, epoll, ready, udp, tries, stream, errno, client, heard>>

PollEnds ==
  /\ place = "batch" /\ place' = "poll"
  /\ batch = {}
  /\ UNCHANGED <<tables, epoll, ready, batch, udp, tries, stream, errno, client, heard>>

(* A byte of the boundary, by its value.                                   *)
IsMark(b) == b = Mark \/ b \in ones

(* parse reads the header in m_buffer, whatever the length it is given.    *)
Heard(mem) ==
  LET said(n) == \A i \in SessionLen + 1 .. MsgLen : mem[i] = <<n, i>>
  IN { n \in 1 .. Requests : said(n) }
Parse(mem) == parsed' = Append(parsed, Max(Heard(mem) \cup {0}))

(* A read of k bytes into the buffer, and where a boundary ends in them.   *)
Size == Min({resv, Len(pipe)})
Filled ==
  [i \in 1 .. BufLen |-> IF i \in loc + 1 .. loc + Size THEN pipe[i - loc] ELSE buffer[i]]
Ends(mem) ==
  { j \in loc + 1 .. loc + Size : j >= Marks /\ \A i \in j - Marks + 1 .. j : IsMark(mem[i]) }

Reads ==
  /\ place = "pipe" /\ tries < 2
  /\ Size > 0 /\ pipe' = SubSeq(pipe, Size + 1, Len(pipe))

ReadPart ==
  /\ Reads /\ tries' = 0
  /\ LET mem == Filled IN Ends(mem) = {} /\ buffer' = mem
  /\ loc' = loc + Size
  /\ UNCHANGED <<tables, epoll, ready, place, batch, resv, stream, errno, client, heard>>

(* What follows the boundary is moved to the front, and not looked at.     *)
Moved_Kept(mem, e) == mem
Moved(mem, e) == [i \in 1 .. BufLen |-> IF i <= loc + Size - e THEN mem[e + i] ELSE mem[i]]

(* The loop does not stop at a boundary.                                   *)
AfterMark_Break == place' = "batch"
AfterMark == UNCHANGED place

ReadMark ==
  /\ Reads /\ tries' = 0
  /\ AfterMark
  /\ LET mem == Filled
         e == Min(Ends(mem))
     IN /\ Ends(mem) # {}
        /\ Parse(mem)
        /\ buffer' = Moved(mem, e) /\ loc' = loc + Size - e
  /\ UNCHANGED <<tables, epoll, ready, batch, resv, stream, errno, client, read>>

(* EAGAIN: the next read is for half as much.                              *)
Halved_NoFloor == resv \div 2
Halved == Max({resv \div 2, 1})

ReadEmpty ==
  /\ place = "pipe" /\ tries < 2 /\ tries' = tries + 1
  /\ pipe = <<>>
  /\ errno' = "EAGAIN" /\ resv' = Halved
  /\ UNCHANGED <<tables, epoll, ready, place, batch, pipe, buffer, loc, stream, client, heard>>

(* What is left, without the boundary's bytes at its end, is a message     *)
(* too; then the loop begins again.                                        *)
Rest ==
  /\ place = "pipe" /\ tries = 2 /\ tries' = 0
  /\ loc > 0 /\ loc' = 0 /\ resv' = Chunk
  /\ IF \A i \in 1 .. loc : IsMark(buffer[i]) THEN UNCHANGED parsed ELSE Parse(buffer)
  /\ UNCHANGED <<tables, epoll, ready, place, batch, pipe, buffer, stream, errno, client, read>>

ReadEnds ==
  /\ place = "pipe" /\ place' = "batch"
  /\ tries = 2 /\ tries' = 0
  /\ loc = 0 /\ resv' = Chunk
  /\ UNCHANGED <<tables, epoll, ready, batch, pipe, buffer, loc, stream, errno, client, heard>>

----------------------------------------------------------------------------
(* The socket.  The logout closes it, so that the kernel forgets it; its   *)
(* entries in the tables stay, its bytes in the buffer too.                *)

Whole_Less(bytes) == (Len(bytes) + 1) \div TcpLen
Whole(bytes) == Len(bytes) \div TcpLen
Message(bytes, k) == SubSeq(bytes, (k - 1) * TcpLen + 1, Min({k * TcpLen, Len(bytes)}))

ReadTcp ==
  LET bytes == tcp \o [i \in 1 .. arrived - got |-> got + i]
      n == Whole(bytes)
      logout == StreamLen \in { bytes[i] : i \in 1 .. Len(bytes) }
  IN /\ place = "socket" /\ arrived > got /\ got' = arrived
     /\ read' = read \o [k \in 1 .. n |-> Message(bytes, k)]
     /\ \/ /\ ~ logout
           /\ tcp' = SubSeq(bytes, n * TcpLen + 1, Len(bytes))
           /\ tries' = 0
           /\ UNCHANGED <<epoll, ready, place>>
        \/ /\ logout
           /\ tcp' = SubSeq(bytes, (n - 1) * TcpLen + 1, Len(bytes))
           /\ place' = "batch"
           /\ epoll' = epoll \ {"socket"} /\ ready' = ready \ {"socket"}
           /\ tries' = 0
  /\ UNCHANGED <<tables, batch, udp, arrived, hungup, errno, client, parsed>>

(* EAGAIN, or the end of the stream, which leaves errno as it was.         *)
ReadTcpEmpty ==
  /\ place = "socket" /\ arrived = got
  /\ ~ hungup \/ errno = "EAGAIN"
  /\ errno' = "EAGAIN"
  /\ tries' = 1 - tries
  /\ place' = IF tries = 0 THEN place ELSE "batch"
  /\ UNCHANGED <<tables, epoll, ready, batch, udp, stream, client, heard>>

(* remove_fd.                                                              *)
ReadTcpEof ==
  /\ place = "socket" /\ place' = "batch" /\ arrived = got
  /\ hungup /\ errno # "EAGAIN"
  /\ tries' = 0
  /\ epoll' = epoll \ {"socket"} /\ ready' = ready \ {"socket"}
  /\ subscribed' = subscribed \ {"socket"} /\ tcp_buffer' = {}
  /\ UNCHANGED <<added, batch, udp, stream, errno, client, heard>>

----------------------------------------------------------------------------
Init ==
  /\ added = {} /\ subscribed = {} /\ tcp_buffer = {}
  /\ epoll = {} /\ ready = {} /\ place = "setup" /\ batch = {}
  /\ pipe = <<>> /\ buffer = [i \in 1 .. BufLen |-> NoByte] /\ loc = 0 /\ resv = Chunk
  /\ tries = 0
  /\ tcp = <<>> /\ arrived = 0 /\ got = 0 /\ hungup = FALSE /\ errno = ""
  /\ written = 0 /\ ones = {} /\ half = FALSE /\ spoiler = 0
  /\ parsed = <<>> /\ read = <<>>

Exchange ==
  \/ (\E f \in Files : Add(f)) \/ StartSync
  \/ PollWait \/ (\E f \in Files : Look(f)) \/ PollEnds
  \/ ReadPart \/ ReadMark \/ ReadEmpty \/ Rest \/ ReadEnds
  \/ ReadTcp \/ ReadTcpEmpty \/ ReadTcpEof
Client ==
  \/ \E n \in 1 .. Requests : Write(n) \/ WriteRequest(n)
  \/ WriteBoundary \/ Arrive \/ HangUp

Next == Exchange \/ Client
Spec == Init /\ [][Next]_vars

(* The main loop polls for ever.                                           *)
FairSpec == Spec /\ WF_vars(Exchange)

----------------------------------------------------------------------------
(* The boundaries frame the pipe: what parse is given is each request      *)
(* once, whole and in order, wherever the reads cut them, up to the first  *)
(* request that holds a whole boundary before its last byte (not that one) *)
(* or ends in the boundary's byte or is written in two pieces (that one    *)
(* too).  Of those behind it the code keeps no promise.                    *)
Promised(n) == spoiler = 0 \/ n < spoiler
Framed == \A i \in DOMAIN parsed : Promised(i) => parsed[i] = i

(* The socket's bytes are handed on as the client's messages, in order.    *)
StreamFramed ==
  \A k \in DOMAIN read : read[k] = [i \in 1 .. TcpLen |-> (k - 1) * TcpLen + i]

(* Edges are not lost: what the client has said is all handed on, again    *)
(* and again, so that in the end nothing is left of it: of the requests    *)
(* while the frames hold, and of the socket every whole message.           *)
Unheard ==
  \/ \E n \in 1 .. written : Promised(n) /\ Len(parsed) < n
  \/ arrived \div TcpLen > Len(read)
Heeded == []<>(~ Unheard)
=============================================================================
