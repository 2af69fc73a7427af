------------------------ MODULE SimDispatcherProofs ------------------------
(***************************************************************************)
(* Theorems about the simulator's dispatcher, for any length of requests   *)
(* and reads: types, in which is that the buffer never overflows; that the *)
(* boundaries frame the pipe; that the stream is cut at its messages.      *)
(***************************************************************************)
EXTENDS SimDispatcher, SequenceTheorems, WellFoundedInduction, TLAPS

----------------------------------------------------------------------------
(* The inductive invariant.                                                *)

Frame == MsgLen + Marks

(* The bytes parse has not had: those in the buffer, then those in the     *)
(* pipe.                                                                   *)
Total == loc + Len(pipe)
At(i) == IF i <= loc THEN buffer[i] ELSE pipe[i - loc]

(* The client never leaves more than a request between two boundaries, and *)
(* ends with one, or with the request it is about to end.                  *)
Bounded(j) == \A i \in j - 2 .. j : At(i) = Mark
Window == MsgLen + 2 * Marks - 1
Dense ==
  \A p \in Nat : p + Window <= Total => \E j \in p + Marks .. p + Window : Bounded(j)
Written == IF half THEN Total - MsgLen ELSE Total
Ended == \A i \in 1 .. Written : i >= Written - 2 => At(i) = Mark

(* No boundary is left in the buffer, but for what was moved to the front. *)
Searched == \A j \in Chunk + Marks - 1 .. loc : ~ \A i \in j - 2 .. j : buffer[i] = Mark

(* Types, by what they are about.                                          *)
TablesOK ==
  /\ added \subseteq Files /\ subscribed \subseteq added /\ tcp_buffer \subseteq {"socket"}
  /\ epoll \subseteq subscribed /\ ready \subseteq Files /\ batch \subseteq Files
  /\ place \in {"setup", "poll", "batch"} \cup Files
PipeOK ==
  /\ pipe \in Seq((0 .. Requests) \X (0 .. MsgLen))
  /\ DOMAIN buffer = 1 .. BufLen /\ loc \in 0 .. BufLen - Chunk
TriesOK == resv \in 1 .. Chunk /\ tries \in 0 .. 2
ErrnoOK == errno \in {"", "EAGAIN"}
TcpOK == tcp \in Seq(1 .. StreamLen) /\ Len(tcp) < 2 * TcpLen
ArrivedOK == arrived \in 0 .. StreamLen /\ got \in 0 .. arrived /\ hungup \in BOOLEAN
ClientOK ==
  /\ half \in BOOLEAN
  /\ written \in 0 .. Requests /\ spoiler \in 0 .. written + 1
  /\ ones \subseteq (1 .. written) \X (SessionLen + 1 .. MsgLen)
ParsedOK == parsed \in Seq(0 .. Requests)
ReadOK == read \in Seq(Seq(1 .. StreamLen))

Control ==
  /\ place = "socket" => tries <= 1
  /\ place \notin Files => tries = 0
  /\ half => written >= 1

(* The bytes of the stream that are left over are those that follow the    *)
(* messages handed on.                                                     *)
Left ==
  got < StreamLen =>
    /\ got = Len(read) * TcpLen + Len(tcp)
    /\ \A i \in 1 .. Len(tcp) : tcp[i] = Len(read) * TcpLen + i

TInv == TypeOK /\ Dense /\ Ended /\ Searched /\ Control
SInv == Left /\ StreamFramed

(* As long as the promise holds, what parse has not had is the requests it *)
(* has not had, each with its boundary; that of the last may be to come.   *)
Had == Len(parsed)
Good == spoiler = 0 \/ Had + 1 < spoiler
Due == IF spoiler = 0 THEN written ELSE spoiler - 1
Complete(n) == ~ (half /\ n = written)
Place(n) == (n - Had - 1) * Frame

Given ==
  place = "pipe" /\ tries > 0 =>
    loc = 0 \/ (Had + 2 = spoiler /\ loc = MsgLen)

Lies(n) ==
  /\ Place(n) + MsgLen <= Total
  /\ \A i \in 1 .. MsgLen : At(Place(n) + i) = <<n, i>>
  /\ Complete(n) => /\ Place(n) + Frame <= Total
                  /\ \A i \in MsgLen + 1 .. Frame : At(Place(n) + i) = Mark
  /\ ~ Complete(n) => Total = Place(n) + MsgLen

(* No boundary that ends behind the request's last byte has been passed.   *)
Unfound == \A j \in MsgLen .. loc : \E i \in j - 2 .. j : ~ IsMark(At(i))

Promise ==
  /\ Had <= Due
  /\ \A n \in Had + 1 .. Due : Lies(n)
  /\ spoiler = 0 => Total = (written - Had) * Frame
  /\ loc < Frame
  /\ Unfound
  /\ Given

(* What ends the promise.                                                  *)
Ones(n) == { i \in 1 .. MsgLen : <<n, i>> \in ones }
Spoiled ==
  /\ \A n \in 1 .. written : Inside(Ones(n)) => spoiler # 0 /\ n >= spoiler
  /\ \A n \in 1 .. written : MsgLen \in Ones(n) => spoiler # 0 /\ n + 1 >= spoiler
  /\ half => spoiler # 0 /\ written + 1 >= spoiler

FInv == Spoiled /\ Framed /\ (Good => Promise)

IInv == TInv /\ SInv /\ FInv

----------------------------------------------------------------------------
(* Numbers.                                                                *)

LEMMA Numbers ==
  /\ MsgLen \in Nat /\ SessionLen \in Nat /\ Chunk \in Nat /\ Requests \in Nat
  /\ TcpLen \in Nat /\ ClientMsgs \in Nat
  /\ SessionLen >= 3 /\ MsgLen > SessionLen /\ Chunk >= 1 /\ Chunk <= MsgLen
  /\ Requests >= 1 /\ TcpLen >= 1 /\ ClientMsgs >= 1
  /\ Marks = 3 /\ Frame = MsgLen + 3 /\ Window = MsgLen + 5
  /\ BufLen = 2 * (MsgLen + 3) + Chunk
<1>1. {MsgLen, SessionLen, Chunk, Requests, TcpLen, ClientMsgs} \subseteq Nat \ {0}
  BY SimDispatcherAssumption
<1>2. /\ MsgLen \in Nat \ {0} /\ SessionLen \in Nat \ {0} /\ Chunk \in Nat \ {0}
      /\ Requests \in Nat \ {0} /\ TcpLen \in Nat \ {0} /\ ClientMsgs \in Nat \ {0}
  BY <1>1
<1>3. Marks = 3
  BY DEF Marks
<1>4. Marks <= SessionLen /\ SessionLen < MsgLen /\ Chunk <= MsgLen
  BY SimDispatcherAssumption
<1>5. QED
  BY <1>2, <1>3, <1>4 DEF Frame, Window, BufLen

LEMMA LeastNumber ==
  ASSUME NEW S \in SUBSET Nat, S # {}
  PROVE  Min(S) \in S /\ \A j \in S : Min(S) <= j
<1> DEFINE R == { ss \in Nat \X Nat : ss[1] < ss[2] }
<1>1. IsWellFoundedOn(R, Nat)
  <2>1. R = OpToRel(<, Nat)
    BY DEF OpToRel
  <2> QED
    BY <2>1, NatLessThanWellFounded
<1> HIDE DEF R
<1>2. PICK f \in S : \A g \in S : <<g, f>> \notin R
  BY <1>1, WFMin
<1>3. ASSUME NEW g \in S PROVE f <= g
  <2>1. g < f => <<g, f>> \in R
    BY DEF R
  <2> QED
    BY <1>2, <2>1
<1> QED
  BY <1>3 DEF Min

LEMMA MinOfTwo ==
  ASSUME NEW a \in Nat, NEW b \in Nat
  PROVE  Min({a, b}) = IF a <= b THEN a ELSE b
<1> DEFINE m == IF a <= b THEN a ELSE b
<1>1. m \in {a, b} /\ \A y \in {a, b} : m <= y
  OBVIOUS
<1>2. \A x \in {a, b} : (\A y \in {a, b} : x <= y) => x = m
  OBVIOUS
<1> HIDE DEF m
<1>3. Min({a, b}) = m
  BY <1>1, <1>2 DEF Min
<1> QED
  BY <1>3 DEF m

LEMMA HalvedRange ==
  ASSUME resv \in 1 .. Chunk
  PROVE  Halved \in 1 .. Chunk
<1> DEFINE h == resv \div 2
           m == IF h >= 1 THEN h ELSE 1
<1>1. h \in 0 .. Chunk
  BY Numbers
<1>2. m \in 1 .. Chunk
  BY <1>1, Numbers
<1>3. m \in {h, 1} /\ \A y \in {h, 1} : m >= y
  BY <1>1
<1>4. \A x \in {h, 1} : (\A y \in {h, 1} : x >= y) => x = m
  BY <1>1
<1>5. Max({h, 1}) = m
  <2> HIDE DEF m, h
  <2> QED
    BY <1>3, <1>4 DEF Max
<1> QED
  BY <1>2, <1>5 DEF Halved

----------------------------------------------------------------------------
(* The bytes parse has not had.                                            *)

Bytes == (0 .. Requests) \X (0 .. MsgLen)

LEMMA PipeTypes ==
  ASSUME TypeOK
  PROVE  /\ pipe \in Seq(Bytes) /\ Len(pipe) \in Nat
         /\ loc \in Nat /\ loc + Chunk <= BufLen /\ resv \in 1 .. Chunk
<1>1. pipe \in Seq(Bytes)
  BY DEF TypeOK, Bytes
<1>2. loc \in 0 .. BufLen - Chunk /\ resv \in 1 .. Chunk
  BY DEF TypeOK
<1> QED
  BY <1>1, <1>2, Numbers, LenProperties

LEMMA Grown ==
  ASSUME TypeOK, NEW bytes \in Seq(Bytes), pipe' = pipe \o bytes, buffer' = buffer, loc' = loc
  PROVE  /\ pipe' \in Seq(Bytes)
         /\ Total \in Nat /\ Total' = Total + Len(bytes)
         /\ \A i \in 1 .. Total : At(i)' = At(i)
         /\ \A i \in 1 .. Total + Len(bytes) : i > Total => At(i)' = bytes[i - Total]
<1>1. pipe \in Seq(Bytes) /\ loc \in Nat
  BY PipeTypes
<1>2. /\ pipe' \in Seq(Bytes) /\ Len(pipe') = Len(pipe) + Len(bytes)
      /\ \A i \in 1 .. Len(pipe) + Len(bytes) :
           pipe'[i] = IF i <= Len(pipe) THEN pipe[i] ELSE bytes[i - Len(pipe)]
  BY <1>1, ConcatProperties
<1>3. Len(pipe) \in Nat /\ Len(bytes) \in Nat
  BY <1>1, LenProperties
<1>4. ASSUME NEW i \in 1 .. Total PROVE At(i)' = At(i)
  BY <1>1, <1>2, <1>3 DEF At, Total
<1>5. ASSUME NEW i \in 1 .. Total + Len(bytes), i > Total PROVE At(i)' = bytes[i - Total]
  <2>1. ~ (i <= loc) /\ i - loc \in 1 .. Len(pipe) + Len(bytes) /\ ~ (i - loc <= Len(pipe))
        /\ i - loc - Len(pipe) = i - Total
    BY <1>1, <1>3, <1>5 DEF Total
  <2>2. At(i)' = pipe'[i - loc]
    BY <2>1 DEF At
  <2> QED
    BY <1>2, <2>1, <2>2
<1> QED
  BY <1>1, <1>2, <1>3, <1>4, <1>5 DEF Total

(* The first k are gone.                                                   *)
Gone(k) == Total' = Total - k /\ \A i \in 1 .. Total - k : At(i)' = At(i + k)

LEMMA SizeRange ==
  ASSUME TypeOK, Size > 0
  PROVE  /\ Size \in 1 .. Chunk /\ Size <= Len(pipe) /\ Len(pipe) \in Nat
         /\ \A i \in 1 .. loc + Size : i \in 1 .. BufLen /\ Filled[i] = At(i)
<1>1. /\ pipe \in Seq(Bytes) /\ Len(pipe) \in Nat
      /\ loc \in Nat /\ loc + Chunk <= BufLen /\ resv \in 1 .. Chunk
  BY PipeTypes
<1>2. Size \in 1 .. Chunk /\ Size <= Len(pipe)
  BY <1>1, Numbers, MinOfTwo DEF Size
<1>3. \A i \in 1 .. loc + Size : i \in 1 .. BufLen
  BY <1>1, <1>2, Numbers
<1>4. \A i \in 1 .. loc + Size : Filled[i] = At(i)
  <2> SUFFICES ASSUME NEW i \in 1 .. loc + Size PROVE Filled[i] = At(i)
    OBVIOUS
  <2>1. Filled[i] = IF i \in loc + 1 .. loc + Size THEN pipe[i - loc] ELSE buffer[i]
    BY <1>3 DEF Filled
  <2>2. i \in loc + 1 .. loc + Size <=> ~ (i <= loc)
    BY <1>1, <1>2
  <2> QED
    BY <2>1, <2>2 DEF At
<1> QED
  BY <1>1, <1>2, <1>3, <1>4

LEMMA BoundaryBytes ==
  /\ Boundary \in Seq(Bytes) /\ Len(Boundary) = 3
  /\ \A i \in 1 .. 3 : Boundary[i] = Mark
<1>1. Mark \in Bytes
  BY Numbers DEF Mark, Bytes
<1> QED
  BY <1>1, Numbers, IsASeq, LenProperties DEF Boundary

LEMMA RequestBytes ==
  ASSUME NEW n \in 1 .. Requests
  PROVE  /\ Request(n) \in Seq(Bytes) /\ Len(Request(n)) = MsgLen
         /\ \A i \in 1 .. MsgLen : Request(n)[i] = <<n, i>>
         /\ Request(n) \o Boundary \in Seq(Bytes) /\ Len(Request(n) \o Boundary) = MsgLen + 3
         /\ \A i \in 1 .. MsgLen : (Request(n) \o Boundary)[i] = <<n, i>>
         /\ \A i \in MsgLen + 1 .. MsgLen + 3 : (Request(n) \o Boundary)[i] = Mark
<1>1. \A i \in 1 .. MsgLen : <<n, i>> \in Bytes
  BY Numbers DEF Bytes
<1>2. Request(n) \in Seq(Bytes) /\ Len(Request(n)) = MsgLen
  BY <1>1, Numbers, IsASeq, LenProperties DEF Request
<1>3. \A i \in 1 .. MsgLen : Request(n)[i] = <<n, i>>
  BY Numbers DEF Request
<1>4. /\ Request(n) \o Boundary \in Seq(Bytes) /\ Len(Request(n) \o Boundary) = MsgLen + 3
      /\ \A i \in 1 .. MsgLen + 3 : (Request(n) \o Boundary)[i] =
           IF i <= MsgLen THEN Request(n)[i] ELSE Boundary[i - MsgLen]
  <2>1. ASSUME NEW a \in Seq(Bytes), NEW b \in Seq(Bytes), Len(a) = MsgLen, Len(b) = 3
        PROVE  /\ a \o b \in Seq(Bytes) /\ Len(a \o b) = MsgLen + 3
               /\ \A i \in 1 .. MsgLen + 3 :
                    (a \o b)[i] = IF i <= MsgLen THEN a[i] ELSE b[i - MsgLen]
    <3>1. MsgLen \in Nat
      BY Numbers
    <3>2. /\ a \o b \in Seq(Bytes) /\ Len(a \o b) = Len(a) + Len(b)
          /\ \A i \in 1 .. Len(a) + Len(b) :
               (a \o b)[i] = IF i <= Len(a) THEN a[i] ELSE b[i - Len(a)]
      BY ConcatProperties
    <3>3. Len(a) + Len(b) = MsgLen + 3
      BY <2>1
    <3> QED
      BY <2>1, <3>2, <3>3
  <2> QED
    BY <1>2, <2>1, BoundaryBytes
<1>5. \A i \in MsgLen + 1 .. MsgLen + 3 : (Request(n) \o Boundary)[i] = Mark
  <2>1. \A i \in MsgLen + 1 .. MsgLen + 3 :
          i \in 1 .. MsgLen + 3 /\ ~ (i <= MsgLen) /\ i - MsgLen \in 1 .. 3
    BY Numbers
  <2> QED
    BY <1>4, <2>1, BoundaryBytes
<1>6. \A i \in 1 .. MsgLen : (Request(n) \o Boundary)[i] = <<n, i>>
  <2>1. \A i \in 1 .. MsgLen : i \in 1 .. MsgLen + 3 /\ i <= MsgLen
    BY Numbers
  <2> QED
    BY <1>3, <1>4, <2>1
<1> QED
  BY <1>2, <1>3, <1>4, <1>5, <1>6

(* What the client writes keeps its boundaries as close as they were.      *)
LEMMA DenseWrite ==
  ASSUME TypeOK, Dense, Ended, NEW n \in 1 .. Requests, ~ half, ~ half',
         pipe' = pipe \o (Request(n) \o Boundary), buffer' = buffer, loc' = loc
  PROVE  Dense' /\ Ended'
<1>1. /\ Total \in Nat /\ Total' = Total + MsgLen + 3
      /\ \A i \in 1 .. Total : At(i)' = At(i)
      /\ \A i \in 1 .. Total + MsgLen + 3 : i > Total + MsgLen => At(i)' = Mark
  <2> DEFINE bytes == Request(n) \o Boundary
  <2>1. bytes \in Seq(Bytes) /\ Len(bytes) = MsgLen + 3
        /\ \A i \in MsgLen + 1 .. MsgLen + 3 : bytes[i] = Mark
    BY RequestBytes
  <2> HIDE DEF bytes
  <2>2. /\ Total \in Nat /\ Total' = Total + Len(bytes)
        /\ \A i \in 1 .. Total : At(i)' = At(i)
        /\ \A i \in 1 .. Total + Len(bytes) : i > Total => At(i)' = bytes[i - Total]
    BY <2>1, Grown DEF bytes
  <2> QED
    BY <2>1, <2>2, Numbers
<1>2. \A i \in 1 .. Total : i >= Total - 2 => At(i) = Mark
  BY DEF Ended, Written
<1>3. Ended'
  BY <1>1, Numbers DEF Ended, Written
<1>4. ASSUME NEW p \in Nat, p + Window <= Total'
      PROVE  \E j \in p + Marks .. p + Window : Bounded(j)'
  <2>1. CASE p + Window <= Total
    <3>1. PICK j \in p + Marks .. p + Window : Bounded(j)
      BY <2>1 DEF Dense
    <3>2. \A i \in j - 2 .. j : i \in 1 .. Total
      BY <1>1, <2>1, Numbers
    <3>3. Bounded(j)'
      BY <1>1, <3>1, <3>2 DEF Bounded
    <3> QED
      BY <3>3
  <2>2. CASE p + Window > Total /\ p + 3 <= Total
    <3>1. Bounded(Total)
      BY <1>1, <1>2, <2>2 DEF Bounded
    <3>2. \A i \in Total - 2 .. Total : i \in 1 .. Total /\ At(i)' = Mark
      BY <1>1, <1>2, <2>2
    <3>3. PICK j \in Nat : j = Total
      BY <1>1
    <3>4. Bounded(j)' /\ j \in p + Marks .. p + Window
      BY <2>2, <3>2, <3>3, Numbers DEF Bounded
    <3> QED
      BY <3>4
  <2>3. CASE p + 3 > Total
    <3>1. PICK j \in Nat : j = Total + MsgLen + 3
      BY <1>1, Numbers
    <3>2. j \in p + Marks .. p + Window
      BY <1>1, <1>4, <2>3, <3>1, Numbers
    <3>3. Bounded(j)'
      BY <1>1, <3>1, Numbers DEF Bounded
    <3> QED
      BY <3>2, <3>3
  <2> QED
    BY <1>1, <2>1, <2>2, <2>3, Numbers
<1> QED
  BY <1>3, <1>4 DEF Dense

LEMMA DenseWriteRequest ==
  ASSUME TypeOK, Dense, Ended, NEW n \in 1 .. Requests, ~ half, half',
         pipe' = pipe \o Request(n), buffer' = buffer, loc' = loc
  PROVE  Dense' /\ Ended'
<1>1. /\ Total \in Nat /\ Total' = Total + MsgLen
      /\ \A i \in 1 .. Total : At(i)' = At(i)
  BY RequestBytes, Grown
<1>2. \A i \in 1 .. Total : i >= Total - 2 => At(i) = Mark
  BY DEF Ended, Written
<1>3. Ended'
  <2>1. Written' = Total
    BY <1>1, Numbers DEF Written
  <2> QED
    BY <1>1, <1>2, <2>1 DEF Ended
<1>4. ASSUME NEW p \in Nat, p + Window <= Total'
      PROVE  \E j \in p + Marks .. p + Window : Bounded(j)'
  <2>1. CASE p + Window <= Total
    <3>1. PICK j \in p + Marks .. p + Window : Bounded(j)
      BY <2>1 DEF Dense
    <3>2. \A i \in j - 2 .. j : i \in 1 .. Total
      BY <1>1, <2>1, Numbers
    <3>3. Bounded(j)'
      BY <1>1, <3>1, <3>2 DEF Bounded
    <3> QED
      BY <3>3
  <2>2. CASE p + Window > Total
    <3>1. PICK j \in Nat : j = Total
      BY <1>1
    <3>2. j \in p + Marks .. p + Window
      BY <1>1, <1>4, <2>2, <3>1, Numbers
    <3>3. \A i \in j - 2 .. j : i \in 1 .. Total /\ At(i)' = Mark
      BY <1>1, <1>2, <3>1, <3>2, Numbers
    <3>4. Bounded(j)'
      BY <3>3 DEF Bounded
    <3> QED
      BY <3>2, <3>4
  <2> QED
    BY <1>1, <2>1, <2>2, Numbers
<1> QED
  BY <1>3, <1>4 DEF Dense

LEMMA DenseWriteBoundary ==
  ASSUME TypeOK, Dense, Ended, half, ~ half',
         pipe' = pipe \o Boundary, buffer' = buffer, loc' = loc
  PROVE  Dense' /\ Ended'
<1>1. /\ Total \in Nat /\ Total' = Total + 3
      /\ \A i \in 1 .. Total : At(i)' = At(i)
      /\ \A i \in 1 .. Total + 3 : i > Total => At(i)' = Mark
  <2>2. Boundary \in Seq(Bytes) /\ Len(Boundary) = 3 /\ \A i \in 1 .. 3 : Boundary[i] = Mark
    BY BoundaryBytes
  <2>3. /\ Total \in Nat /\ Total' = Total + 3
        /\ \A i \in 1 .. Total : At(i)' = At(i)
        /\ \A i \in 1 .. Total + 3 : i > Total => At(i)' = Boundary[i - Total]
    BY <2>2, Grown
  <2> QED
    BY <2>2, <2>3
<1>2. \A i \in 1 .. Total - MsgLen : i >= Total - MsgLen - 2 => At(i) = Mark
  BY DEF Ended, Written
<1>3. Ended'
  BY <1>1 DEF Ended, Written
<1>4. ASSUME NEW p \in Nat, p + Window <= Total'
      PROVE  \E j \in p + Marks .. p + Window : Bounded(j)'
  <2>1. CASE p + Window <= Total
    <3>1. PICK j \in p + Marks .. p + Window : Bounded(j)
      BY <2>1 DEF Dense
    <3>2. \A i \in j - 2 .. j : i \in 1 .. Total
      BY <1>1, <2>1, Numbers
    <3>3. Bounded(j)'
      BY <1>1, <3>1, <3>2 DEF Bounded
    <3> QED
      BY <3>3
  <2>2. CASE p + Window > Total /\ p + Window < Total + 3
    <3>1. PICK j \in Int : j = Total - MsgLen
      BY <1>1, Numbers
    <3>2. j \in p + Marks .. p + Window
      BY <1>1, <2>2, <3>1, Numbers
    <3>3. \A i \in j - 2 .. j : i \in 1 .. Total - MsgLen /\ i \in 1 .. Total /\ At(i)' = Mark
      BY <1>1, <1>2, <3>1, <3>2, Numbers
    <3>4. Bounded(j)'
      BY <3>3 DEF Bounded
    <3> QED
      BY <3>2, <3>4
  <2>3. CASE p + Window = Total + 3
    <3>1. PICK j \in Int : j = Total + 3
      BY <1>1
    <3>2. j \in p + Marks .. p + Window
      BY <2>3, <3>1, Numbers
    <3>3. Bounded(j)'
      BY <1>1, <3>1 DEF Bounded
    <3> QED
      BY <3>2, <3>3
  <2> QED
    BY <1>1, <1>4, <2>1, <2>2, <2>3, Numbers
<1> QED
  BY <1>3, <1>4 DEF Dense

(* So does what is taken from the front.                                   *)
LEMMA DenseGone ==
  ASSUME TypeOK, Dense, Ended, NEW k \in Nat, k <= Total, Gone(k), half' = half
  PROVE  Dense' /\ Ended'
<1>1. Total \in Nat /\ Total' = Total - k /\ \A i \in 1 .. Total - k : At(i)' = At(i + k)
  BY PipeTypes DEF Total, Gone
<1>2. Ended'
  <2>1. Written' = Written - k /\ Written' \in Int /\ Written' <= Total - k
    BY <1>1, Numbers DEF Written
  <2>2. ASSUME NEW i \in 1 .. Written', i >= Written' - 2 PROVE At(i)' = Mark
    <3>1. Written \in Int
      BY <1>1, Numbers DEF Written
    <3>2. i + k \in 1 .. Written /\ i + k >= Written - 2 /\ i \in 1 .. Total - k
      BY <1>1, <2>1, <2>2, <3>1
    <3> QED
      BY <1>1, <3>2 DEF Ended
  <2> QED
    BY <2>2 DEF Ended
<1>3. ASSUME NEW p \in Nat, p + Window <= Total'
      PROVE  \E j \in p + Marks .. p + Window : Bounded(j)'
  <2>1. p + k \in Nat /\ p + k + Window <= Total
    BY <1>1, <1>3, Numbers
  <2>2. PICK j \in p + k + Marks .. p + k + Window : Bounded(j)
    BY <2>1 DEF Dense
  <2>3. PICK q \in Int : q = j - k
    BY <1>1, Numbers
  <2>4. q \in p + Marks .. p + Window
    BY <2>3, Numbers
  <2>5. \A i \in q - 2 .. q : i \in 1 .. Total - k /\ i + k \in j - 2 .. j
    BY <1>1, <2>1, <2>3, <2>4, Numbers
  <2>6. Bounded(q)'
    BY <1>1, <2>2, <2>5 DEF Bounded
  <2> QED
    BY <2>4, <2>6
<1> QED
  BY <1>2, <1>3 DEF Dense

----------------------------------------------------------------------------
(* poll_one on the pipe.                                                   *)

(* What parse makes of the bytes it looks at.                              *)
LEMMA HeardOne ==
  ASSUME NEW mem
  PROVE  /\ Max(Heard(mem) \cup {0}) \in 0 .. Requests
         /\ \A n \in 1 .. Requests :
              (\A i \in SessionLen + 1 .. MsgLen : mem[i] = <<n, i>>) => Max(Heard(mem) \cup {0}) = n
<1>0. \A n \in 1 .. Requests :
        (\A i \in SessionLen + 1 .. MsgLen : mem[i] = <<n, i>>) => n \in Heard(mem)
  BY DEF Heard
<1>1. \A n \in Heard(mem) : n \in 1 .. Requests /\ mem[MsgLen] = <<n, MsgLen>>
  BY Numbers DEF Heard
<1>2. ASSUME NEW n \in Heard(mem) PROVE Max(Heard(mem) \cup {0}) = n
  <2>1. Heard(mem) \cup {0} = {n, 0}
    BY <1>1
  <2>2. n \in {n, 0} /\ \A y \in {n, 0} : n >= y
    BY <1>1, Numbers
  <2>3. \A x \in {n, 0} : (\A y \in {n, 0} : x >= y) => x = n
    BY <1>1, Numbers
  <2> QED
    BY <2>1, <2>2, <2>3 DEF Max
<1>3. CASE Heard(mem) = {}
  <2>1. Heard(mem) \cup {0} = {0}
    BY <1>3
  <2>2. Max({0}) = 0
    BY DEF Max
  <2> QED
    BY <1>3, <1>0, <2>1, <2>2, Numbers
<1>4. CASE Heard(mem) # {}
  <2>1. PICK n \in Heard(mem) : TRUE
    BY <1>4
  <2>2. n \in 1 .. Requests /\ n \in 0 .. Requests
    BY <1>1, <2>1, Numbers
  <2>3. Max(Heard(mem) \cup {0}) = n
    BY <1>2, <2>1
  <2>4. \A m \in Heard(mem) : m = n
    BY <1>1, <2>1
  <2> QED
    BY <1>0, <2>2, <2>3, <2>4
<1> QED
  BY <1>3, <1>4

LEMMA Parsed ==
  ASSUME TypeOK, NEW mem, Parse(mem)
  PROVE  /\ parsed' \in Seq(0 .. Requests) /\ Had \in Nat /\ Had' = Had + 1
         /\ DOMAIN parsed = 1 .. Had /\ DOMAIN parsed' = 1 .. Had + 1
         /\ \A i \in 1 .. Had : parsed'[i] = parsed[i]
         /\ \A n \in 1 .. Requests :
              (\A i \in SessionLen + 1 .. MsgLen : mem[i] = <<n, i>>) => parsed'[Had + 1] = n
<1> DEFINE r == Max(Heard(mem) \cup {0})
<1>1. /\ r \in 0 .. Requests
      /\ \A n \in 1 .. Requests : (\A i \in SessionLen + 1 .. MsgLen : mem[i] = <<n, i>>) => r = n
  BY HeardOne
<1>2. parsed' = Append(parsed, r)
  BY DEF Parse
<1>3. parsed \in Seq(0 .. Requests)
  BY DEF TypeOK
<1> HIDE DEF r
<1>4. /\ parsed' \in Seq(0 .. Requests) /\ Len(parsed') = Len(parsed) + 1
      /\ \A i \in 1 .. Len(parsed) : parsed'[i] = parsed[i]
      /\ parsed'[Len(parsed) + 1] = r
  BY <1>1, <1>2, <1>3, AppendProperties
<1>5. Len(parsed) \in Nat /\ DOMAIN parsed = 1 .. Len(parsed) /\ DOMAIN parsed' = 1 .. Len(parsed')
  BY <1>3, <1>4, LenProperties
<1> QED
  BY <1>1, <1>4, <1>5 DEF Had

(* A read takes from the pipe what it puts into the buffer.                *)
LEMMA ReadGone ==
  ASSUME TypeOK, Size > 0, pipe' = SubSeq(pipe, Size + 1, Len(pipe)),
         NEW e \in Nat, e <= loc + Size, loc' = loc + Size - e,
         \A i \in 1 .. loc + Size - e : buffer'[i] = Filled[i + e]
  PROVE  /\ pipe' \in Seq(Bytes) /\ loc' \in Nat
         /\ e <= Total /\ Total \in Nat /\ Gone(e)
         /\ \A i \in 1 .. loc' : At(i)' = buffer'[i]
<1>1. /\ pipe \in Seq(Bytes) /\ Len(pipe) \in Nat /\ loc \in Nat
      /\ Size \in Nat /\ Size <= Len(pipe)
      /\ \A i \in 1 .. loc + Size : Filled[i] = At(i)
  BY PipeTypes, SizeRange, Numbers
<1>2. /\ pipe' \in Seq(Bytes) /\ Len(pipe') = Len(pipe) - Size
      /\ \A i \in 1 .. Len(pipe) - Size : pipe'[i] = pipe[Size + i]
  <2> DEFINE k == Size
  <2>1. k \in Nat /\ k <= Len(pipe) /\ pipe' = SubSeq(pipe, k + 1, Len(pipe))
    BY <1>1
  <2> HIDE DEF k
  <2> DEFINE m == k + 1
             n == Len(pipe)
  <2>2. /\ m \in Int /\ n \in Int /\ \A i \in m .. n : pipe[i] \in Bytes
        /\ n - m + 1 = Len(pipe) - k
        /\ (IF m <= n THEN n - m + 1 ELSE 0) = Len(pipe) - k
        /\ \A i \in 1 .. Len(pipe) - k : m + i - 1 = k + i
    BY <1>1, <2>1, ElementOfSeq
  <2>3. pipe' = SubSeq(pipe, m, n)
    BY <2>1
  <2> HIDE DEF m, n
  <2>4. /\ SubSeq(pipe, m, n) \in Seq(Bytes)
        /\ Len(SubSeq(pipe, m, n)) = IF m <= n THEN n - m + 1 ELSE 0
        /\ \A i \in 1 .. n - m + 1 : SubSeq(pipe, m, n)[i] = pipe[m + i - 1]
    BY <2>2, SubSeqProperties
  <2>5. /\ pipe' \in Seq(Bytes) /\ Len(pipe') = Len(pipe) - k
        /\ \A i \in 1 .. Len(pipe) - k : pipe'[i] = pipe[k + i]
    BY <2>2, <2>3, <2>4
  <2> QED
    BY <2>5 DEF k
<1>3. Total \in Nat /\ e <= Total /\ Total' = Total - e /\ loc' \in Nat
  <2>1. loc' \in Nat
    BY <1>1
  <2>2. /\ loc + Len(pipe) \in Nat /\ e <= loc + Len(pipe)
        /\ (loc + Size - e) + (Len(pipe) - Size) = loc + Len(pipe) - e
    BY <1>1
  <2>3. Total = loc + Len(pipe)
    BY DEF Total
  <2>4. Total' = loc' + Len(pipe')
    BY DEF Total
  <2>5. Total' = loc + Len(pipe) - e
    BY <1>2, <2>2, <2>4
  <2>6. loc \in Nat /\ Len(pipe) \in Nat
    BY <1>1
  <2> QED
    BY <2>1, <2>2, <2>3, <2>5, <2>6
<1>4. ASSUME NEW i \in 1 .. Total - e PROVE At(i)' = At(i + e)
  <2>1. CASE i <= loc + Size - e
    <3>1. i \in 1 .. loc + Size - e /\ i + e \in 1 .. loc + Size
      BY <1>1, <2>1
    <3>2. At(i)' = buffer'[i]
      BY <2>1 DEF At
    <3> QED
      BY <1>1, <3>1, <3>2
  <2>2. CASE ~ (i <= loc + Size - e)
    <3>1. /\ i - loc' \in 1 .. Len(pipe) - Size /\ Size + (i - loc') = i + e - loc
          /\ ~ (i + e <= loc) /\ ~ (i <= loc')
      BY <1>1, <2>2 DEF Total
    <3>2. At(i)' = pipe'[i - loc']
      BY <3>1 DEF At
    <3>3. At(i + e) = pipe[i + e - loc]
      <4>1. i \in Int /\ e \in Int /\ loc \in Int /\ ~ (i + e <= loc)
        BY <1>1, <1>3, <3>1
      <4> QED
        BY <4>1 DEF At
    <3> QED
      BY <1>2, <3>1, <3>2, <3>3
  <2> QED
    BY <2>1, <2>2
<1>5. \A i \in 1 .. loc' : At(i)' = buffer'[i]
  BY <1>3 DEF At
<1> QED
  BY <1>2, <1>3, <1>4, <1>5 DEF Gone

(* A search finds the boundaries that end in what has been read.           *)
LEMMA EndsAre ==
  ASSUME TypeOK, Size > 0
  PROVE  \A j : j \in Ends(Filled) <=>
           j \in loc + 1 .. loc + Size /\ j >= 3 /\ \A i \in j - 2 .. j : IsMark(At(i))
<1>1. /\ loc \in Nat /\ Size \in Nat
      /\ \A i \in 1 .. loc + Size : Filled[i] = At(i)
  BY PipeTypes, SizeRange, Numbers
<1>2. ASSUME NEW j \in loc + 1 .. loc + Size, j >= 3
      PROVE  (\A i \in j - 2 .. j : IsMark(Filled[i])) <=> \A i \in j - 2 .. j : IsMark(At(i))
  <2>1. \A i \in j - 2 .. j : i \in 1 .. loc + Size
    BY <1>1, <1>2
  <2> QED
    BY <1>1, <2>1
<1>3. \A j \in Int : j - Marks + 1 = j - 2
  BY Numbers
<1>4. \A j \in loc + 1 .. loc + Size : j \in Int
  BY <1>1
<1> QED
  BY <1>2, <1>3, <1>4, Numbers DEF Ends

(* The buffer does not overflow: a boundary would have been found in it.   *)
LEMMA NoOverflow ==
  ASSUME loc' \in Nat, pipe' \in Seq(Bytes), Dense', Searched'
  PROVE  loc' \in 0 .. BufLen - Chunk
<1>1. Len(pipe') \in Nat
  BY LenProperties
<1> SUFFICES ASSUME loc' >= Chunk - 1 + Window PROVE FALSE
  BY Numbers
<1> DEFINE p == Chunk - 1
<1>2. p \in Nat /\ p + Window <= Total'
  BY <1>1, Numbers DEF Total
<1> HIDE DEF p
<1>3. PICK j \in p + Marks .. p + Window : Bounded(j)'
  BY <1>2 DEF Dense
<1>4. j \in Chunk + Marks - 1 .. loc' /\ \A i \in j - 2 .. j : i <= loc'
  BY <1>2, Numbers DEF p
<1>5. \A i \in j - 2 .. j : buffer'[i] = Mark
  BY <1>3, <1>4 DEF Bounded, At
<1> QED
  BY <1>4, <1>5 DEF Searched

----------------------------------------------------------------------------
(* Types, bounds and the boundaries: the actions.                          *)

LEMMA Types ==
  TypeOK <=> /\ TablesOK /\ PipeOK /\ TriesOK /\ ErrnoOK /\ TcpOK /\ ArrivedOK /\ ClientOK
             /\ ParsedOK /\ ReadOK
BY DEF TypeOK, TablesOK, PipeOK, TriesOK, ErrnoOK, TcpOK, ArrivedOK, ClientOK, ParsedOK, ReadOK

LEMMA TypesAgain ==
  ASSUME TablesOK', PipeOK', TriesOK', ErrnoOK', TcpOK', ArrivedOK', ClientOK', ParsedOK', ReadOK'
  PROVE  TypeOK'
BY DEF TypeOK, TablesOK, PipeOK, TriesOK, ErrnoOK, TcpOK, ArrivedOK, ClientOK, ParsedOK, ReadOK

LEMMA SameTypes ==
  ASSUME TypeOK
  PROVE  /\ UNCHANGED <<tables, epoll, ready, batch, place>> => TablesOK'
         /\ UNCHANGED <<pipe, buffer, loc>> => PipeOK'
         /\ UNCHANGED <<resv, tries>> => TriesOK'
         /\ UNCHANGED errno => ErrnoOK'
         /\ UNCHANGED tcp => TcpOK'
         /\ UNCHANGED <<arrived, got, hungup>> => ArrivedOK'
         /\ UNCHANGED client => ClientOK'
         /\ UNCHANGED parsed => ParsedOK'
         /\ UNCHANGED read => ReadOK'
<1>1. /\ TablesOK /\ PipeOK /\ TriesOK /\ ErrnoOK /\ TcpOK /\ ArrivedOK /\ ClientOK
      /\ ParsedOK /\ ReadOK
  BY Types
<1>2. UNCHANGED <<tables, epoll, ready, batch, place>> => TablesOK'
  BY <1>1 DEF TablesOK, tables
<1>3. UNCHANGED client => ClientOK'
  BY <1>1 DEF ClientOK, client
<1>4. UNCHANGED <<pipe, buffer, loc>> => PipeOK'
  BY <1>1 DEF PipeOK
<1>5. UNCHANGED <<resv, tries>> => TriesOK'
  BY <1>1 DEF TriesOK
<1>6. UNCHANGED errno => ErrnoOK'
  BY <1>1, Zenon DEF ErrnoOK
<1> QED
  BY <1>1, <1>2, <1>3, <1>4, <1>5, <1>6 DEF TcpOK, ArrivedOK, ParsedOK, ReadOK

LEMMA StreamLenNat == StreamLen \in Nat
BY Numbers DEF StreamLen

LEMMA Unmoved ==
  ASSUME Dense, Ended, Searched, UNCHANGED <<pipe, buffer, loc, half>>
  PROVE  Dense' /\ Ended' /\ Searched'
<1>1. Total' = Total /\ Written' = Written /\ \A i : At(i)' = At(i)
  BY DEF Total, Written, At
<1>2. \A j : Bounded(j)' <=> Bounded(j)
  BY <1>1 DEF Bounded
<1> QED
  BY <1>1, <1>2 DEF Dense, Ended, Searched

LEMMA SameHalf ==
  ASSUME Control, half' = half, written' = written
  PROVE  (half => written >= 1)'
BY Zenon DEF Control

LEMMA TInvStart ==
  ASSUME TInv, (\E f \in Files : Add(f)) \/ StartSync
  PROVE  TInv'
<1>0. TypeOK /\ Dense /\ Ended /\ Searched /\ Control
  BY DEF TInv
<1>1. UNCHANGED <<pipe, buffer, loc, half>>
  BY DEF Add, StartSync, udp, client
<1>2. Dense' /\ Ended' /\ Searched'
  BY <1>0, <1>1, Unmoved
<1>3. UNCHANGED <<batch, udp, tries, stream, errno, client, heard>>
  BY DEF Add, StartSync
<1>4. TablesOK'
  BY <1>0, <1>3, Types DEF TablesOK, Add, StartSync, Waiting, Files
<1>5. TypeOK'
  BY <1>0, <1>3, <1>4, SameTypes, TypesAgain DEF udp, stream, heard
<1>6. Control'
  BY <1>0, <1>3 DEF Control, Add, StartSync, Files, client
<1> QED
  BY <1>2, <1>5, <1>6 DEF TInv

LEMMA TInvPoll ==
  ASSUME TInv, PollWait \/ (\E f \in Files : Look(f)) \/ PollEnds
  PROVE  TInv'
<1>0. TypeOK /\ Dense /\ Ended /\ Searched /\ Control
  BY DEF TInv
<1>1. UNCHANGED <<pipe, buffer, loc, half>>
  BY DEF PollWait, Look, PollEnds, udp, client
<1>2. Dense' /\ Ended' /\ Searched'
  BY <1>0, <1>1, Unmoved
<1>3. UNCHANGED <<tables, epoll, udp, tries, stream, errno, client, heard>>
  BY DEF PollWait, Look, PollEnds
<1>4. TablesOK'
  BY <1>0, <1>3, Types DEF TablesOK, PollWait, Look, PollEnds, Files, tables
<1>5. TypeOK'
  BY <1>0, <1>3, <1>4, SameTypes, TypesAgain DEF udp, stream, heard
<1>6. Control'
  BY <1>0, <1>3 DEF Control, PollWait, Look, PollEnds, Files, client
<1> QED
  BY <1>2, <1>5, <1>6 DEF TInv

LEMMA TInvArrivals ==
  ASSUME TInv, Arrive \/ HangUp
  PROVE  TInv'
<1>0. TypeOK /\ Dense /\ Ended /\ Searched /\ Control
  BY DEF TInv
<1>1. UNCHANGED <<pipe, buffer, loc, half>>
  BY DEF Arrive, HangUp, udp, client
<1>2. Dense' /\ Ended' /\ Searched'
  BY <1>0, <1>1, Unmoved
<1>3. UNCHANGED <<tables, epoll, place, batch, udp, tries, tcp, got, errno, client, heard>>
  BY DEF Arrive, HangUp
<1>4. TablesOK'
  BY <1>0, <1>3, Types DEF TablesOK, Arrive, HangUp, Event, Files, tables
<1>5. ArrivedOK'
  <2>1. ArrivedOK
    BY <1>0, Types
  <2>1a. hungup \in BOOLEAN
    BY <2>1 DEF ArrivedOK
  <2>2. hungup' \in BOOLEAN
    BY <2>1a DEF Arrive, HangUp
  <2>3. got' = got /\ (arrived' = arrived \/ (arrived < StreamLen /\ arrived' = arrived + 1))
    BY DEF Arrive, HangUp
  <2>4. arrived \in 0 .. StreamLen /\ got \in 0 .. arrived
    BY <2>1 DEF ArrivedOK
  <2>5. arrived' \in 0 .. StreamLen /\ got' \in 0 .. arrived'
    BY <2>3, <2>4, StreamLenNat
  <2> QED
    BY <2>2, <2>5 DEF ArrivedOK
<1>6. TypeOK'
  BY <1>0, <1>3, <1>4, <1>5, SameTypes, TypesAgain DEF udp, heard
<1>7. Control'
  BY <1>0, <1>3 DEF Control, client
<1> QED
  BY <1>2, <1>6, <1>7 DEF TInv

LEMMA TInvEmpty ==
  ASSUME TInv, ReadEmpty \/ ReadEnds \/ ReadTcpEmpty \/ ReadTcpEof
  PROVE  TInv'
<1>0. TypeOK /\ Dense /\ Ended /\ Searched /\ Control
  BY DEF TInv
<1>1. UNCHANGED <<pipe, buffer, loc, half>>
  BY DEF ReadEmpty, ReadEnds, ReadTcpEmpty, ReadTcpEof, udp, client
<1>2. Dense' /\ Ended' /\ Searched'
  BY <1>0, <1>1, Unmoved
<1>3. UNCHANGED <<added, batch, pipe, buffer, loc, stream, client, heard>>
  BY DEF ReadEmpty, ReadEnds, ReadTcpEmpty, ReadTcpEof, tables, udp
<1>4. TablesOK'
  BY <1>0, Types DEF TablesOK, ReadEmpty, ReadEnds, ReadTcpEmpty, ReadTcpEof, Files, tables
<1>5. resv' \in 1 .. Chunk
  <2>1. resv \in 1 .. Chunk
    BY <1>0, PipeTypes
  <2>2. resv' = resv \/ resv' = Halved \/ resv' = Chunk
    BY DEF ReadEmpty, ReadEnds, ReadTcpEmpty, ReadTcpEof, udp
  <2> QED
    BY <2>1, <2>2, HalvedRange, Numbers
<1>6. tries' \in 0 .. 2 /\ ErrnoOK' /\ Control'
  <2>0. tries \in 0 .. 2
    BY <1>0, Types DEF TriesOK
  <2>1. written' = written /\ half' = half
    BY <1>3 DEF client
  <2>2. place = "socket" => tries <= 1
    BY <1>0 DEF Control
  <2>3. (half => written >= 1)'
    BY <1>0, <2>1, SameHalf
  <2>4. \/ tries' = 0 /\ place' = place /\ place = "pipe"
        \/ tries' = 0 /\ place' = "batch"
        \/ tries < 2 /\ tries' = tries + 1 /\ place' = place /\ place = "pipe"
        \/ place = "socket" /\ tries' = 1 - tries /\ place' = IF tries = 0 THEN place ELSE "batch"
    BY DEF ReadEmpty, ReadEnds, ReadTcpEmpty, ReadTcpEof
  <2>5. errno' = errno \/ errno' = "EAGAIN"
    BY DEF ReadEmpty, ReadEnds, ReadTcpEmpty, ReadTcpEof
  <2>8. ErrnoOK'
    BY <1>0, <2>5, Types, Zenon DEF ErrnoOK
  <2>6. tries' \in 0 .. 2
    BY <2>0, <2>2, <2>4
  <2>7. (place' = "socket" => tries' <= 1) /\ (place' \notin Files => tries' = 0)
    BY <2>0, <2>2, <2>4 DEF Files
  <2> QED
    BY <2>3, <2>6, <2>7, <2>8 DEF Control
<1>7. TriesOK'
  BY <1>5, <1>6 DEF TriesOK
<1>8. TypeOK'
  BY <1>0, <1>3, <1>4, <1>6, <1>7, SameTypes, TypesAgain DEF stream, heard
<1> QED
  BY <1>2, <1>6, <1>8 DEF TInv

LEMMA TInvReadPart ==
  ASSUME TInv, ReadPart
  PROVE  /\ TInv' /\ Gone(0)
         /\ \A j \in loc + 1 .. loc' : j >= 3 => \E i \in j - 2 .. j : ~ IsMark(At(i))
<1>0. TypeOK /\ Dense /\ Ended /\ Searched /\ Control
  BY DEF TInv
<1>1. /\ place = "pipe" /\ Size > 0 /\ pipe' = SubSeq(pipe, Size + 1, Len(pipe)) /\ tries' = 0
      /\ buffer' = Filled /\ loc' = loc + Size /\ Ends(Filled) = {} /\ half' = half
      /\ UNCHANGED <<tables, epoll, ready, place, batch, resv, stream, errno, client, heard>>
  BY DEF ReadPart, Reads, client
<1>2. /\ loc \in Nat /\ Size \in Nat
      /\ \A i \in 1 .. loc + Size : i \in 1 .. BufLen /\ Filled[i] = At(i)
  BY <1>0, <1>1, PipeTypes, SizeRange, Numbers
<1>3. /\ pipe' \in Seq(Bytes) /\ loc' \in Nat /\ Total \in Nat /\ Gone(0)
  <2>1. /\ 0 \in Nat /\ 0 <= loc + Size /\ loc' = loc + Size - 0
        /\ \A i \in 1 .. loc + Size - 0 : buffer'[i] = Filled[i + 0]
    BY <1>1, <1>2
  <2> QED
    BY <1>0, <1>1, <2>1, ReadGone
<1>4. Dense' /\ Ended'
  <2>1. 0 \in Nat /\ 0 <= Total
    BY <1>3
  <2> QED
    BY <1>0, <1>1, <1>3, <2>1, DenseGone
<1>5. \A j \in loc + 1 .. loc' : j >= 3 => \E i \in j - 2 .. j : ~ IsMark(At(i))
  BY <1>0, <1>1, EndsAre
<1>6. Searched'
  <2> SUFFICES ASSUME NEW j \in Chunk + Marks - 1 .. loc'
               PROVE  \E i \in j - 2 .. j : buffer'[i] # Mark
    BY DEF Searched
  <2>1. j \in Int /\ j >= 3 /\ j <= loc + Size /\ \A i \in j - 2 .. j : i \in 1 .. loc + Size
    BY <1>1, <1>2, Numbers
  <2>2. CASE j <= loc
    <3>1. j \in Chunk + Marks - 1 .. loc
      BY <2>1, <2>2
    <3>2. PICK i \in j - 2 .. j : buffer[i] # Mark
      BY <1>0, <3>1 DEF Searched
    <3>3. i <= loc
      BY <1>2, <2>1, <2>2
    <3> QED
      BY <1>1, <1>2, <2>1, <3>2, <3>3 DEF At
  <2>3. CASE ~ (j <= loc)
    <3>1. j \in loc + 1 .. loc'
      BY <1>1, <1>2, <2>1, <2>3
    <3>2. PICK i \in j - 2 .. j : ~ IsMark(At(i))
      BY <1>5, <2>1, <3>1
    <3> QED
      BY <1>1, <1>2, <2>1, <3>2 DEF IsMark
  <2> QED
    BY <2>2, <2>3
<1>7. loc' \in 0 .. BufLen - Chunk
  BY <1>3, <1>4, <1>6, NoOverflow
<1>8. DOMAIN buffer' = 1 .. BufLen
  BY <1>1 DEF Filled
<1>9. PipeOK'
  BY <1>3, <1>7, <1>8 DEF PipeOK, Bytes
<1>10. TriesOK' /\ Control'
  <2>1. tries' = 0 /\ UNCHANGED <<place, half, written, resv>>
    BY <1>1 DEF client
  <2>2. (half => written >= 1)'
    BY <1>0, <2>1, SameHalf
  <2>3. TriesOK
    BY <1>0, Types
  <2>4. TriesOK'
    BY <2>1, <2>3 DEF TriesOK
  <2>5. (place = "socket" => tries <= 1)' /\ (place \notin Files => tries = 0)'
    BY <2>1
  <2> QED
    BY <2>2, <2>4, <2>5 DEF Control
<1>11. TypeOK'
  BY <1>0, <1>1, <1>9, <1>10, SameTypes, TypesAgain DEF stream, heard
<1> QED
  BY <1>3, <1>4, <1>5, <1>6, <1>10, <1>11 DEF TInv

(* The first boundary to end in what has been read is where the buffer is  *)
(* cut.                                                                    *)
Cut(e) ==
  /\ e \in loc + 1 .. loc + Size /\ e >= 3 /\ \A i \in e - 2 .. e : IsMark(At(i))
  /\ \A j \in loc + 1 .. loc + Size : j >= 3 /\ j < e => \E i \in j - 2 .. j : ~ IsMark(At(i))
  /\ loc' = loc + Size - e /\ Gone(e)

LEMMA TInvReadMark ==
  ASSUME TInv, ReadMark
  PROVE  TInv' /\ Parse(Filled) /\ \E e \in Nat : Cut(e)
<1>0. TypeOK /\ Dense /\ Ended /\ Searched /\ Control
  BY DEF TInv
<1> DEFINE e == Min(Ends(Filled))
<1>1. /\ place = "pipe" /\ Size > 0 /\ pipe' = SubSeq(pipe, Size + 1, Len(pipe)) /\ tries' = 0
      /\ Ends(Filled) # {} /\ Parse(Filled) /\ place' = place
      /\ buffer' = Moved(Filled, e) /\ loc' = loc + Size - e
      /\ UNCHANGED <<tables, epoll, ready, batch, resv, stream, errno, client, read>>
  BY DEF ReadMark, Reads, AfterMark
<1>2. /\ loc \in Nat /\ Size \in Nat /\ Size <= Chunk
      /\ \A i \in 1 .. loc + Size : i \in 1 .. BufLen /\ Filled[i] = At(i)
  BY <1>0, <1>1, PipeTypes, SizeRange, Numbers
<1>3. \A j : j \in Ends(Filled) <=>
        j \in loc + 1 .. loc + Size /\ j >= 3 /\ \A i \in j - 2 .. j : IsMark(At(i))
  BY <1>0, <1>1, EndsAre
<1>4. e \in Ends(Filled) /\ \A j \in Ends(Filled) : e <= j
  <2>1. Ends(Filled) \in SUBSET Nat
    BY <1>2, <1>3
  <2> QED
    BY <1>1, <2>1, LeastNumber
<1>5. DOMAIN buffer' = 1 .. BufLen
  BY <1>1 DEF Moved
<1>6. \A i \in 1 .. BufLen : buffer'[i] = IF i <= loc + Size - e THEN Filled[e + i] ELSE Filled[i]
  BY <1>1 DEF Moved
<1> HIDE DEF e
<1>7. e \in Nat /\ e <= loc + Size /\ e > loc
  BY <1>2, <1>3, <1>4
<1>8. \A i \in 1 .. loc + Size - e : buffer'[i] = Filled[i + e]
  <2>1. \A i \in 1 .. loc + Size - e : i \in 1 .. loc + Size /\ i <= loc + Size - e /\ e + i = i + e
    BY <1>2, <1>7
  <2> QED
    BY <1>2, <1>6, <2>1
<1>9. pipe' \in Seq(Bytes) /\ loc' \in Nat /\ e <= Total /\ Gone(e)
  BY <1>0, <1>1, <1>7, <1>8, ReadGone
<1>10. Cut(e)
  <2>1. e \in loc + 1 .. loc + Size /\ e >= 3 /\ \A i \in e - 2 .. e : IsMark(At(i))
    BY <1>3, <1>4
  <2>2. ASSUME NEW j \in loc + 1 .. loc + Size, j >= 3, j < e
        PROVE  \E i \in j - 2 .. j : ~ IsMark(At(i))
    <3>1. ~ (e <= j)
      BY <1>2, <1>7, <2>2
    <3> QED
      BY <1>3, <1>4, <2>2, <3>1
  <2>3. loc' = loc + Size - e
    BY <1>1
  <2> QED
    BY <1>9, <2>1, <2>2, <2>3 DEF Cut
<1>11. half' = half /\ written' = written
  BY <1>1 DEF client
<1>12. Dense' /\ Ended'
  BY <1>0, <1>7, <1>9, <1>11, DenseGone
<1>13. Searched'
  <2>1. loc' < Chunk
    <3>1. loc' = loc + Size - e
      BY <1>1
    <3>2. Chunk \in Nat
      BY Numbers
    <3> QED
      BY <1>2, <1>7, <3>1, <3>2
  <2> QED
    BY <1>9, <2>1, Numbers DEF Searched
<1>14. PipeOK'
  <2>1. loc' \in 0 .. BufLen - Chunk
    BY <1>9, <1>12, <1>13, NoOverflow
  <2> QED
    BY <1>5, <1>9, <2>1 DEF PipeOK, Bytes
<1>15. TriesOK' /\ Control'
  <2>1. TriesOK'
    BY <1>0, <1>1, Types DEF TriesOK
  <2>2. (place = "socket" => tries <= 1)' /\ (place \notin Files => tries = 0)'
    BY <1>1
  <2>3. (half => written >= 1)'
    BY <1>0, <1>11, SameHalf
  <2> QED
    BY <2>1, <2>2, <2>3 DEF Control
<1>16. ParsedOK'
  BY <1>0, <1>1, Parsed DEF ParsedOK
<1>17. TypeOK'
  BY <1>0, <1>1, <1>14, <1>15, <1>16, SameTypes, TypesAgain DEF stream
<1> QED
  BY <1>1, <1>7, <1>10, <1>12, <1>13, <1>15, <1>17 DEF TInv

LEMMA TInvRest ==
  ASSUME TInv, Rest
  PROVE  /\ TInv' /\ Gone(loc) /\ loc' = 0
         /\ (\A i \in 1 .. loc : IsMark(At(i))) => UNCHANGED parsed
         /\ ~ (\A i \in 1 .. loc : IsMark(At(i))) => Parse(buffer)
<1>0. TypeOK /\ Dense /\ Ended /\ Searched /\ Control
  BY DEF TInv
<1>1. /\ tries' = 0 /\ loc' = 0 /\ resv' = Chunk
      /\ IF \A i \in 1 .. loc : IsMark(buffer[i]) THEN UNCHANGED parsed ELSE Parse(buffer)
      /\ UNCHANGED <<tables, epoll, ready, place, batch, pipe, buffer, stream, errno, client, read>>
  BY DEF Rest
<1>2. /\ pipe \in Seq(Bytes) /\ Len(pipe) \in Nat /\ loc \in Nat
  BY <1>0, PipeTypes
<1>3. Gone(loc) /\ loc <= Total
  <2>1. Total' = Total - loc /\ loc <= Total
    BY <1>1, <1>2 DEF Total
  <2>2. \A i \in 1 .. Total - loc : At(i)' = At(i + loc)
    <3> SUFFICES ASSUME NEW i \in 1 .. Total - loc PROVE At(i)' = At(i + loc)
      OBVIOUS
    <3>1. i \in Nat /\ ~ (i <= 0) /\ ~ (i + loc <= loc) /\ i - 0 = i /\ i + loc - loc = i
      BY <1>2 DEF Total
    <3>2. At(i)' = pipe[i]
      BY <1>1, <3>1 DEF At
    <3>3. At(i + loc) = pipe[i]
      BY <1>2, <3>1 DEF At
    <3> QED
      BY <3>2, <3>3
  <2> QED
    BY <2>1, <2>2 DEF Gone
<1>4. half' = half /\ written' = written
  BY <1>1 DEF client
<1>5. Dense' /\ Ended'
  BY <1>0, <1>2, <1>3, <1>4, DenseGone
<1>6. Searched'
  BY <1>1, Numbers DEF Searched
<1>7. PipeOK'
  <2>1. loc' \in 0 .. BufLen - Chunk
    BY <1>1, Numbers
  <2>2. PipeOK
    BY <1>0, Types
  <2> QED
    BY <1>1, <2>1, <2>2 DEF PipeOK
<1>8. TriesOK' /\ Control'
  <2>1. TriesOK'
    BY <1>1, Numbers DEF TriesOK
  <2>2. (place = "socket" => tries <= 1)' /\ (place \notin Files => tries = 0)'
    BY <1>1
  <2>3. (half => written >= 1)'
    BY <1>0, <1>4, SameHalf
  <2> QED
    BY <2>1, <2>2, <2>3 DEF Control
<1>9. ParsedOK'
  <2>1. CASE UNCHANGED parsed
    BY <1>0, <2>1, SameTypes
  <2>2. CASE Parse(buffer)
    BY <1>0, <2>2, Parsed DEF ParsedOK
  <2> QED
    BY <1>1, <2>1, <2>2
<1>10. TypeOK'
  BY <1>0, <1>1, <1>7, <1>8, <1>9, SameTypes, TypesAgain DEF stream
<1>11. (\A i \in 1 .. loc : IsMark(At(i))) <=> (\A i \in 1 .. loc : IsMark(buffer[i]))
  <2>1. \A i \in 1 .. loc : At(i) = buffer[i]
    BY <1>2 DEF At
  <2> QED
    BY <2>1
<1> QED
  BY <1>1, <1>3, <1>5, <1>6, <1>8, <1>10, <1>11 DEF TInv

LEMMA TablesAfterEvent ==
  ASSUME TypeOK, Event("pipe"), UNCHANGED <<tables, epoll, place, batch>>
  PROVE  TablesOK'
<1>1. ready' \subseteq Files
  BY Types DEF TablesOK, Event, Files
<1> QED
  BY <1>1, Types DEF TablesOK, tables

LEMMA PipeAfterWrite ==
  ASSUME TypeOK, NEW bytes \in Seq(Bytes), pipe' = pipe \o bytes, buffer' = buffer, loc' = loc
  PROVE  PipeOK'
<1>1. PipeOK /\ pipe' \in Seq(Bytes)
  BY Types, Grown
<1> QED
  BY <1>1 DEF PipeOK, Bytes

(* What is written, with its boundary or without.                          *)
LEMMA Written1 ==
  ASSUME TypeOK, NEW n \in 1 .. Requests, Write(n) \/ WriteRequest(n)
  PROVE  \E bytes \in {Request(n) \o Boundary, Request(n)}, at \in Patterns, odd \in BOOLEAN :
           /\ Writes(n, bytes, at, odd)
           /\ MsgLen \in at => odd
           /\ half' => odd
           /\ half' \in BOOLEAN
           /\ IF half' THEN bytes = Request(n) ELSE bytes = Request(n) \o Boundary
<1>1. CASE Write(n)
  <2>1. PICK at \in Patterns :
          Writes(n, Request(n) \o Boundary, at, MsgLen \in at) /\ half' = half
    BY <1>1 DEF Write
  <2>2. ~ half /\ ~ half' /\ half' \in BOOLEAN
    BY <2>1, Types, Zenon DEF Writes, ClientOK
  <2>3. (MsgLen \in at) \in BOOLEAN
    OBVIOUS
  <2> QED
    BY <2>1, <2>2, <2>3
<1>2. CASE WriteRequest(n)
  <2>1. PICK at \in Patterns : Writes(n, Request(n), at, TRUE) /\ half' = TRUE
    BY <1>2 DEF WriteRequest
  <2> QED
    BY <2>1
<1> QED
  BY <1>1, <1>2

LEMMA TInvWrite ==
  ASSUME TInv, NEW n \in 1 .. Requests, Write(n) \/ WriteRequest(n)
  PROVE  TInv'
<1>0. TypeOK /\ Dense /\ Ended /\ Searched /\ Control
  BY DEF TInv
<1>1. PICK bytes \in {Request(n) \o Boundary, Request(n)}, at \in Patterns, odd \in BOOLEAN :
        /\ Writes(n, bytes, at, odd)
        /\ half' \in BOOLEAN
        /\ IF half' THEN bytes = Request(n) ELSE bytes = Request(n) \o Boundary
  BY <1>0, Written1
<1>2. bytes \in Seq(Bytes)
  BY <1>1, RequestBytes
<1>3. /\ pipe' = pipe \o bytes /\ buffer' = buffer /\ loc' = loc /\ Event("pipe")
      /\ UNCHANGED <<tables, epoll, place, batch, resv, tries, stream, errno, heard>>
  BY <1>1 DEF Writes
<1>4. /\ ~ half /\ n = written + 1 /\ written' = n /\ ones' = ones \cup ({n} \X at)
      /\ spoiler' = spoiler \/ spoiler' = 0 \/ spoiler' = n \/ spoiler' = n + 1
  BY <1>1 DEF Writes
<1>5. Dense' /\ Ended'
  <2>1. CASE half'
    BY <1>0, <1>1, <1>3, <1>4, <2>1, DenseWriteRequest
  <2>2. CASE ~ half'
    BY <1>0, <1>1, <1>3, <1>4, <2>2, DenseWrite
  <2> QED
    BY <2>1, <2>2
<1>6. Searched'
  BY <1>0, <1>3 DEF Searched
<1>7. Control'
  <2>1. (place = "socket" => tries <= 1)' /\ (place \notin Files => tries = 0)'
    BY <1>0, <1>3 DEF Control
  <2>2. written' >= 1
    BY <1>4
  <2> QED
    BY <2>1, <2>2 DEF Control
<1>8. ClientOK'
  <2>1. /\ written \in 0 .. Requests /\ spoiler \in 0 .. written + 1
        /\ ones \subseteq (1 .. written) \X (SessionLen + 1 .. MsgLen)
    BY <1>0, Types DEF ClientOK
  <2>2. written' \in 0 .. Requests /\ n \in 1 .. written' /\ 1 .. written \subseteq 1 .. written'
    BY <1>4, <2>1
  <2>3. spoiler' \in 0 .. written' + 1
    BY <1>4, <2>1, <2>2
  <2>4. at \subseteq SessionLen + 1 .. MsgLen
    BY SimDispatcherAssumption
  <2>5. ones' \subseteq (1 .. written') \X (SessionLen + 1 .. MsgLen)
    BY <1>4, <2>1, <2>2, <2>4
  <2> QED
    BY <1>1, <2>2, <2>3, <2>5 DEF ClientOK
<1>9. TypeOK'
  BY <1>0, <1>2, <1>3, <1>8, TablesAfterEvent, PipeAfterWrite, SameTypes, TypesAgain DEF stream, heard
<1> QED
  BY <1>5, <1>6, <1>7, <1>9 DEF TInv

LEMMA TInvWriteBoundary ==
  ASSUME TInv, WriteBoundary
  PROVE  TInv'
<1>0. TypeOK /\ Dense /\ Ended /\ Searched /\ Control
  BY DEF TInv
<1>1. /\ pipe' = pipe \o Boundary /\ buffer' = buffer /\ loc' = loc /\ Event("pipe")
      /\ UNCHANGED <<tables, epoll, place, batch, resv, tries, stream, errno, written, ones, spoiler, heard>>
  BY DEF WriteBoundary
<1>2. half /\ half' = FALSE
  BY DEF WriteBoundary
<1>3. Dense' /\ Ended'
  BY <1>0, <1>1, <1>2, DenseWriteBoundary
<1>4. Searched'
  BY <1>0, <1>1 DEF Searched
<1>5. Control'
  <2>1. (place = "socket" => tries <= 1)' /\ (place \notin Files => tries = 0)'
    BY <1>0, <1>1 DEF Control
  <2> QED
    BY <1>2, <2>1 DEF Control
<1>6. ClientOK'
  <2>1. /\ written \in 0 .. Requests /\ spoiler \in 0 .. written + 1
        /\ ones \subseteq (1 .. written) \X (SessionLen + 1 .. MsgLen)
    BY <1>0, Types DEF ClientOK
  <2>2. written' = written /\ ones' = ones /\ spoiler' = spoiler
    BY <1>1
  <2> QED
    BY <1>2, <2>1, <2>2 DEF ClientOK
<1>7. TypeOK'
  BY <1>0, <1>1, <1>6, BoundaryBytes, TablesAfterEvent, PipeAfterWrite, SameTypes, TypesAgain
     DEF stream, heard
<1> QED
  BY <1>3, <1>4, <1>5, <1>7 DEF TInv

----------------------------------------------------------------------------
(* The socket.                                                             *)

(* Where the messages begin.                                               *)
Off(k) == k * TcpLen

LEMMA Offsets ==
  /\ Off(0) = 0 /\ Off(1) = TcpLen /\ Off(ClientMsgs) = StreamLen
  /\ \A k \in Nat : Off(k) \in Nat /\ Off(k + 1) = Off(k) + TcpLen
  /\ \A j, k \in Nat : Off(j + k) = Off(j) + Off(k)
  /\ \A j, k \in Nat : j < k => Off(j) + TcpLen <= Off(k)
<1>1. TcpLen \in Nat /\ TcpLen >= 1 /\ ClientMsgs \in Nat
  BY Numbers
<1>2. \A k \in Nat : Off(k) \in Nat /\ Off(k + 1) = Off(k) + TcpLen
  BY <1>1 DEF Off
<1>3. \A j, k \in Nat : Off(j + k) = Off(j) + Off(k)
  BY <1>1 DEF Off
<1>4. ASSUME NEW j \in Nat, NEW k \in Nat, j < k PROVE Off(j) + TcpLen <= Off(k)
  <2>1. PICK d \in Nat : k = (j + 1) + d
    <3>1. k - (j + 1) \in Nat /\ k = (j + 1) + (k - (j + 1))
      BY <1>4
    <3> QED
      BY <3>1
  <2>2. Off(k) = Off(j + 1) + Off(d)
    BY <1>3, <2>1
  <2> QED
    BY <1>1, <1>2, <2>2
<1> QED
  BY <1>1, <1>2, <1>3, <1>4 DEF Off, StreamLen

LEMMA WholeMessages ==
  ASSUME NEW bytes, Len(bytes) \in Nat
  PROVE  /\ Whole(bytes) \in Nat
         /\ Off(Whole(bytes)) <= Len(bytes) /\ Len(bytes) < Off(Whole(bytes)) + TcpLen
<1> DEFINE L == Len(bytes)
<1>1. TcpLen \in Nat /\ TcpLen >= 1 /\ L \in Nat
  BY Numbers
<1> HIDE DEF L
<1>2. L \div TcpLen \in Int /\ TcpLen * (L \div TcpLen) <= L /\ L < TcpLen * (L \div TcpLen) + TcpLen
  BY <1>1
<1>3. L \div TcpLen \in Nat
  BY <1>1, <1>2
<1> QED
  BY <1>1, <1>2, <1>3 DEF Whole, Off, L

(* The bytes ReadTcp looks at: positions that follow the messages read.    *)
Arrived == tcp \o [i \in 1 .. arrived - got |-> got + i]

LEMMA ArrivedBytes ==
  ASSUME TypeOK, Left, arrived > got
  PROVE  /\ Len(read) \in Nat /\ arrived \in Nat /\ arrived <= StreamLen /\ got < StreamLen
         /\ Arrived \in Seq(1 .. StreamLen)
         /\ Len(Arrived) = arrived - Off(Len(read)) /\ Len(Arrived) \in Nat \ {0}
         /\ \A i \in 1 .. Len(Arrived) : Arrived[i] = Off(Len(read)) + i
         /\ Off(Len(read)) \in Nat
<1>1. /\ tcp \in Seq(1 .. StreamLen) /\ read \in Seq(Seq(1 .. StreamLen))
      /\ arrived \in 0 .. StreamLen /\ got \in 0 .. arrived
  BY Types DEF TcpOK, ReadOK, ArrivedOK
<1>2. Len(read) \in Nat /\ Len(tcp) \in Nat /\ arrived \in Nat /\ got \in Nat /\ got < StreamLen
  BY <1>1, StreamLenNat, LenProperties
<1>3. /\ got = Off(Len(read)) + Len(tcp) /\ Off(Len(read)) \in Nat
      /\ \A i \in 1 .. Len(tcp) : tcp[i] = Off(Len(read)) + i
  BY <1>2, Offsets DEF Left, Off
<1> DEFINE d == arrived - got
           new == [i \in 1 .. d |-> got + i]
<1>4. d \in Nat /\ d > 0 /\ \A i \in 1 .. d : got + i \in 1 .. StreamLen
  BY <1>1, <1>2, StreamLenNat
<1>5. new \in Seq(1 .. StreamLen) /\ Len(new) = d /\ \A i \in 1 .. d : new[i] = got + i
  <2> HIDE DEF d
  <2> QED
    BY <1>4, IsASeq, LenProperties
<1>6. Arrived = tcp \o new
  BY DEF Arrived
<1> HIDE DEF d, new
<1>7. /\ Arrived \in Seq(1 .. StreamLen) /\ Len(Arrived) = Len(tcp) + Len(new)
      /\ \A i \in 1 .. Len(tcp) + Len(new) :
           Arrived[i] = IF i <= Len(tcp) THEN tcp[i] ELSE new[i - Len(tcp)]
  BY <1>1, <1>5, <1>6, ConcatProperties
<1>8. Len(tcp) + Len(new) = arrived - Off(Len(read)) /\ arrived - Off(Len(read)) \in Nat \ {0}
  <2>1. PICK o \in Nat : o = Off(Len(read))
    BY <1>3
  <2>2. got = o + Len(tcp) /\ Len(new) = arrived - got
    BY <1>3, <1>5, <2>1 DEF d
  <2>3. Len(tcp) + Len(new) = arrived - o /\ arrived - o \in Nat \ {0}
    BY <1>2, <2>2
  <2> QED
    BY <2>1, <2>3
<1>9. ASSUME NEW i \in 1 .. Len(tcp) + Len(new) PROVE Arrived[i] = Off(Len(read)) + i
  <2>1. CASE i <= Len(tcp)
    BY <1>2, <1>3, <1>5, <1>7, <2>1
  <2>2. CASE ~ (i <= Len(tcp))
    <3>1. i - Len(tcp) \in 1 .. d
      BY <1>2, <1>4, <1>5, <2>2
    <3>2. Arrived[i] = got + (i - Len(tcp))
      BY <1>5, <1>7, <2>2, <3>1
    <3> QED
      BY <1>2, <1>3, <1>4, <1>5, <3>2
  <2> QED
    BY <2>1, <2>2
<1> QED
  BY <1>1, <1>2, <1>3, <1>7, <1>8, <1>9

(* A message of the bytes is one of the stream.                            *)
LEMMA MessageIs ==
  ASSUME NEW bytes \in Seq(1 .. StreamLen), NEW m \in Nat, NEW k \in 1 .. Whole(bytes),
         \A i \in 1 .. Len(bytes) : bytes[i] = Off(m) + i
  PROVE  /\ Message(bytes, k) \in Seq(1 .. StreamLen)
         /\ Message(bytes, k) = [i \in 1 .. TcpLen |-> Off(m + k - 1) + i]
<1>1. /\ Len(bytes) \in Nat /\ Whole(bytes) \in Nat /\ Off(Whole(bytes)) <= Len(bytes)
      /\ TcpLen \in Nat /\ TcpLen >= 1
  BY Numbers, LenProperties, WholeMessages
<1> DEFINE a == Off(k - 1)
           e == Off(k)
           f == Off(m + k - 1)
<1>2. /\ a \in Nat /\ e = a + TcpLen /\ e \in Nat /\ e <= Len(bytes)
      /\ f = Off(m) + a /\ f \in Nat /\ Off(m) \in Nat
  <2>1. k \in Nat /\ k - 1 \in Nat /\ (k - 1) + 1 = k /\ m + (k - 1) = m + k - 1 /\ m + k - 1 \in Nat
    BY <1>1
  <2>2. Off(k) = Off(k - 1) + TcpLen /\ Off(m + k - 1) = Off(m) + Off(k - 1)
    BY <2>1, Offsets
  <2>3. k = Whole(bytes) \/ k < Whole(bytes)
    BY <1>1
  <2>4. Off(k) <= Len(bytes)
    <3>1. CASE k = Whole(bytes)
      BY <1>1, <3>1
    <3>2. CASE k < Whole(bytes)
      <4>1. Off(k) + TcpLen <= Off(Whole(bytes)) /\ Off(k) \in Nat /\ Off(Whole(bytes)) \in Nat
        BY <1>1, <2>1, <3>2, Offsets
      <4> QED
        BY <1>1, <4>1
    <3> QED
      BY <2>3, <3>1, <3>2
  <2> QED
    BY <2>1, <2>2, <2>4, Offsets
<1>3. Message(bytes, k) = SubSeq(bytes, a + 1, e)
  <2>1. Message(bytes, k) = SubSeq(bytes, Off(k - 1) + 1, Min({Off(k), Len(bytes)}))
    BY DEF Message, Off
  <2> HIDE DEF a
  <2>2. Min({e, Len(bytes)}) = e
    <3> HIDE DEF e
    <3> QED
      BY <1>1, <1>2, MinOfTwo
  <2> QED
    BY <2>1, <2>2 DEF a
<1> HIDE DEF a, e, f
<1>4. DEFINE s == SubSeq(bytes, a + 1, e)
<1>5. /\ s \in Seq(1 .. StreamLen) /\ Len(s) = TcpLen
      /\ \A i \in 1 .. TcpLen : s[i] = bytes[a + i]
  <2> DEFINE x == a + 1
  <2>1. /\ x \in Int /\ e \in Int /\ \A i \in x .. e : bytes[i] \in 1 .. StreamLen
        /\ e - x + 1 = TcpLen /\ (IF x <= e THEN e - x + 1 ELSE 0) = TcpLen
        /\ \A i \in 1 .. TcpLen : x + i - 1 = a + i
    <3>1. x \in Int /\ e \in Int /\ e - x + 1 = TcpLen /\ x <= e
      BY <1>1, <1>2
    <3>2. \A i \in x .. e : i \in 1 .. Len(bytes)
      BY <1>1, <1>2
    <3>3. \A i \in x .. e : bytes[i] \in 1 .. StreamLen
      BY <3>2, ElementOfSeq
    <3>4. \A i \in 1 .. TcpLen : x + i - 1 = a + i
      BY <1>1, <1>2
    <3> QED
      BY <3>1, <3>3, <3>4
  <2> HIDE DEF x
  <2>2. /\ SubSeq(bytes, x, e) \in Seq(1 .. StreamLen)
        /\ Len(SubSeq(bytes, x, e)) = IF x <= e THEN e - x + 1 ELSE 0
        /\ \A i \in 1 .. e - x + 1 : SubSeq(bytes, x, e)[i] = bytes[x + i - 1]
    BY <2>1, SubSeqProperties
  <2> QED
    BY <2>1, <2>2 DEF x
<1>6. \A i \in 1 .. TcpLen : s[i] = f + i
  <2>1. \A i \in 1 .. TcpLen : a + i \in 1 .. Len(bytes) /\ Off(m) + (a + i) = f + i
    BY <1>1, <1>2
  <2> HIDE DEF s
  <2> QED
    BY <1>5, <2>1
<1>7. s = [i \in 1 .. TcpLen |-> f + i]
  <2> HIDE DEF s
  <2>1. s = [i \in 1 .. Len(s) |-> s[i]]
    BY <1>5
  <2> QED
    BY <1>5, <1>6, <2>1
<1> QED
  BY <1>3, <1>5, <1>7 DEF f

LEMMA Remainder ==
  ASSUME NEW bytes \in Seq(1 .. StreamLen), NEW c \in Nat, Off(c) <= Len(bytes), NEW t,
         t = SubSeq(bytes, c * TcpLen + 1, Len(bytes))
  PROVE  /\ t \in Seq(1 .. StreamLen) /\ Len(t) = Len(bytes) - Off(c) /\ Len(t) \in Nat
         /\ \A i \in 1 .. Len(t) : t[i] = bytes[Off(c) + i]
<1> DEFINE o == Off(c)
           x == o + 1
           y == Len(bytes)
<1>1. o \in Nat /\ y \in Nat /\ o <= y
  BY Offsets, LenProperties
<1>2. t = SubSeq(bytes, x, y)
  BY DEF Off
<1> HIDE DEF o
<1>3. /\ x \in Int /\ y \in Int /\ y - x + 1 = y - o /\ (IF x <= y THEN y - x + 1 ELSE 0) = y - o
      /\ y - o \in Nat
  <2> HIDE DEF y
  <2> QED
    BY <1>1
<1>4. \A i \in x .. y : bytes[i] \in 1 .. StreamLen
  <2>1. \A i \in x .. y : i \in 1 .. Len(bytes)
    BY <1>1
  <2> QED
    BY <2>1, ElementOfSeq
<1>5. \A i \in 1 .. y - o : x + i - 1 = o + i
  BY <1>1
<1> HIDE DEF x, y
<1>6. /\ SubSeq(bytes, x, y) \in Seq(1 .. StreamLen)
      /\ Len(SubSeq(bytes, x, y)) = IF x <= y THEN y - x + 1 ELSE 0
      /\ \A i \in 1 .. y - x + 1 : SubSeq(bytes, x, y)[i] = bytes[x + i - 1]
  BY <1>3, <1>4, SubSeqProperties
<1>7. t \in Seq(1 .. StreamLen) /\ Len(t) = y - o /\ \A i \in 1 .. y - o : t[i] = bytes[o + i]
  BY <1>2, <1>3, <1>5, <1>6
<1> QED
  BY <1>3, <1>7 DEF o, y

LEMMA IInvReadTcp ==
  ASSUME TInv, SInv, ReadTcp
  PROVE  TInv' /\ SInv'
<1>0. TypeOK /\ Dense /\ Ended /\ Searched /\ Control /\ Left /\ StreamFramed
  BY DEF TInv, SInv
<1> DEFINE n == Whole(Arrived)
           m == Len(read)
           new == [k \in 1 .. n |-> Message(Arrived, k)]
           logout == StreamLen \in { Arrived[i] : i \in 1 .. Len(Arrived) }
<1>1. /\ place = "socket" /\ arrived > got /\ got' = arrived /\ tries' = 0
      /\ read' = read \o new
      /\ IF logout
         THEN /\ tcp' = SubSeq(Arrived, (n - 1) * TcpLen + 1, Len(Arrived))
              /\ place' = "batch"
              /\ epoll' = epoll \ {"socket"} /\ ready' = ready \ {"socket"}
         ELSE /\ tcp' = SubSeq(Arrived, n * TcpLen + 1, Len(Arrived))
              /\ UNCHANGED <<epoll, ready, place>>
      /\ UNCHANGED <<tables, batch, udp, arrived, hungup, errno, client, parsed>>
  BY DEF ReadTcp, Arrived
<1> DEFINE bytes == Arrived
<1>2. /\ m \in Nat /\ arrived \in Nat /\ arrived <= StreamLen /\ got < StreamLen
      /\ Arrived \in Seq(1 .. StreamLen)
      /\ Len(Arrived) = arrived - Off(m) /\ Len(Arrived) \in Nat \ {0}
      /\ \A i \in 1 .. Len(Arrived) : Arrived[i] = Off(m) + i
      /\ Off(m) \in Nat
  BY <1>0, <1>1, ArrivedBytes
<1>3. n \in Nat /\ Off(n) <= Len(Arrived) /\ Len(Arrived) < Off(n) + TcpLen /\ Off(n) \in Nat
  BY <1>2, WholeMessages, Offsets
<1>4. /\ new \in Seq(Seq(1 .. StreamLen)) /\ Len(new) = n
      /\ \A k \in 1 .. n : new[k] = [i \in 1 .. TcpLen |-> Off(m + k - 1) + i]
  <2>1. \A k \in 1 .. n : /\ Message(Arrived, k) \in Seq(1 .. StreamLen)
                          /\ Message(Arrived, k) = [i \in 1 .. TcpLen |-> Off(m + k - 1) + i]
    BY <1>2, MessageIs
  <2> HIDE DEF n, m
  <2> QED
    BY <1>3, <2>1, IsASeq, LenProperties
<1> HIDE DEF n, new, logout
<1>5. read \in Seq(Seq(1 .. StreamLen))
  BY <1>0, Types DEF ReadOK
<1>6. /\ read' \in Seq(Seq(1 .. StreamLen)) /\ Len(read') = m + n
      /\ \A k \in 1 .. m + n : read'[k] = IF k <= m THEN read[k] ELSE new[k - m]
  <2>1. /\ read \o new \in Seq(Seq(1 .. StreamLen)) /\ Len(read \o new) = Len(read) + Len(new)
        /\ \A k \in 1 .. Len(read) + Len(new) :
             (read \o new)[k] = IF k <= Len(read) THEN read[k] ELSE new[k - Len(read)]
    <3>1. new \in Seq(Seq(1 .. StreamLen))
      BY <1>4
    <3> QED
      BY <1>5, <3>1, ConcatProperties
  <2>2. Len(new) = n /\ read' = read \o new
    BY <1>1, <1>4
  <2> QED
    BY <2>1, <2>2
<1>7. StreamFramed'
  <2>1. DOMAIN read' = 1 .. m + n /\ DOMAIN read = 1 .. m
    BY <1>5, <1>6, LenProperties
  <2> HIDE DEF m
  <2>2. ASSUME NEW k \in 1 .. m + n
        PROVE  read'[k] = [i \in 1 .. TcpLen |-> (k - 1) * TcpLen + i]
    <3>1. CASE k <= m
      <4>1. k \in 1 .. m
        BY <1>2, <1>3, <3>1
      <4>2. read[k] = [i \in 1 .. TcpLen |-> (k - 1) * TcpLen + i]
        BY <1>0, <2>1, <4>1 DEF StreamFramed
      <4> QED
        BY <1>6, <3>1, <4>2
    <3>2. CASE ~ (k <= m)
      <4>1. k - m \in 1 .. n /\ m + (k - m) - 1 = k - 1
        BY <1>2, <1>3, <3>2
      <4>2. read'[k] = [i \in 1 .. TcpLen |-> Off(m + (k - m) - 1) + i]
        BY <1>4, <1>6, <3>2, <4>1
      <4> QED
        BY <4>1, <4>2 DEF Off
    <3> QED
      BY <3>1, <3>2
  <2> QED
    BY <2>1, <2>2 DEF StreamFramed
<1> HIDE DEF m
<1>8. ASSUME ~ logout PROVE TcpOK' /\ Left'
  <2>1. tcp' = SubSeq(Arrived, n * TcpLen + 1, Len(Arrived))
    BY <1>1, <1>8
  <2>2. /\ tcp' \in Seq(1 .. StreamLen) /\ Len(tcp') = Len(Arrived) - Off(n) /\ Len(tcp') \in Nat
        /\ \A i \in 1 .. Len(tcp') : tcp'[i] = Arrived[Off(n) + i]
    <3>1. Arrived \in Seq(1 .. StreamLen) /\ n \in Nat /\ Off(n) <= Len(Arrived)
      BY <1>2, <1>3
    <3> QED
      BY <2>1, <3>1, Remainder
  <2>3. TcpOK'
    <3>1. Len(tcp') < 2 * TcpLen
      BY <1>2, <1>3, <2>2, Numbers
    <3> QED
      BY <2>2, <3>1 DEF TcpOK
  <2>4. Left'
    <3>1. Off(m + n) = Off(m) + Off(n)
      BY <1>2, <1>3, Offsets
    <3>2. got' = Off(m + n) + Len(tcp')
      BY <1>1, <1>2, <1>3, <2>2, <3>1
    <3>3. ASSUME NEW i \in 1 .. Len(tcp') PROVE tcp'[i] = Off(m + n) + i
      <4>1. Off(n) + i \in 1 .. Len(Arrived)
        BY <1>2, <1>3, <2>2
      <4>2. tcp'[i] = Off(m) + (Off(n) + i)
        BY <1>2, <2>2, <4>1
      <4> QED
        BY <1>2, <1>3, <3>1, <4>2
    <3> QED
      BY <1>6, <3>2, <3>3 DEF Left, Off
  <2> QED
    BY <2>3, <2>4
<1>9. ASSUME logout PROVE TcpOK' /\ Left'
  <2>1. arrived = StreamLen
    <3>1. PICK i \in 1 .. Len(Arrived) : Arrived[i] = StreamLen
      BY <1>9 DEF logout
    <3>2. Off(m) + i = StreamLen
      BY <1>2, <3>1
    <3> QED
      BY <1>2, <3>2, StreamLenNat
  <2>2. n >= 1 /\ n - 1 \in Nat /\ Off(n) = Off(n - 1) + TcpLen /\ Off(n - 1) \in Nat
    <3>1. Off(m) < Off(ClientMsgs) /\ ClientMsgs \in Nat
      <4>1. Off(ClientMsgs) = StreamLen /\ ClientMsgs \in Nat
        BY Offsets, Numbers
      <4>2. Len(Arrived) = StreamLen - Off(m) /\ Len(Arrived) >= 1 /\ Off(m) \in Nat
        BY <1>2, <2>1
      <4> QED
        BY <4>1, <4>2, StreamLenNat
    <3>2. m < ClientMsgs
      <4>1. CASE ClientMsgs < m
        <5>1. Off(ClientMsgs) + TcpLen <= Off(m) /\ Off(ClientMsgs) \in Nat
          BY <1>2, <3>1, <4>1, Offsets
        <5>2. TcpLen \in Nat /\ Off(m) \in Nat
          BY <1>2, Numbers
        <5> QED
          BY <3>1, <5>1, <5>2
      <4>2. CASE ClientMsgs = m
        BY <1>2, <3>1, <4>2
      <4> QED
        BY <1>2, <3>1, <4>1, <4>2
    <3>3. Off(m) + TcpLen <= StreamLen
      BY <1>2, <3>1, <3>2, Offsets
    <3>4. Len(Arrived) >= TcpLen
      BY <1>2, <2>1, <3>3, StreamLenNat, Numbers
    <3>5. n # 0
      BY <1>3, <3>4, Offsets, Numbers
    <3>6. n >= 1 /\ n - 1 \in Nat /\ (n - 1) + 1 = n
      BY <1>3, <3>5
    <3> QED
      BY <3>6, Offsets
  <2>3. tcp' = SubSeq(Arrived, (n - 1) * TcpLen + 1, Len(Arrived))
    BY <1>1, <1>9
  <2>4. Off(n - 1) <= Len(Arrived)
    BY <1>2, <1>3, <2>2, Numbers
  <2>5. tcp' \in Seq(1 .. StreamLen) /\ Len(tcp') = Len(Arrived) - Off(n - 1)
    BY <1>2, <2>2, <2>3, <2>4, Remainder
  <2>6. TcpOK'
    <3>1. Len(tcp') < 2 * TcpLen
      BY <1>2, <1>3, <2>2, <2>5, Numbers
    <3> QED
      BY <2>5, <3>1 DEF TcpOK
  <2>7. Left'
    BY <1>1, <2>1 DEF Left, StreamLen
  <2> QED
    BY <2>6, <2>7
<1>10. UNCHANGED <<pipe, buffer, loc, half, resv, written>>
  BY <1>1 DEF udp, client
<1>11. Dense' /\ Ended' /\ Searched'
  BY <1>0, <1>10, Unmoved
<1>12. TablesOK'
  <2>1. TablesOK
    BY <1>0, Types
  <2> QED
    BY <1>1, <2>1 DEF TablesOK, tables
<1>13. ArrivedOK'
  <2>1. arrived' \in 0 .. StreamLen /\ got' \in 0 .. arrived'
    BY <1>1, <1>2, StreamLenNat
  <2>2. hungup' = hungup /\ ArrivedOK
    BY <1>0, <1>1, Types
  <2> QED
    BY <2>1, <2>2 DEF ArrivedOK
<1>14. TriesOK' /\ Control'
  <2>1. TriesOK'
    <3>1. resv \in 1 .. Chunk
      BY <1>0, PipeTypes
    <3> QED
      BY <1>1, <1>10, <3>1 DEF TriesOK
  <2>2. (half => written >= 1)'
    BY <1>0, <1>10, SameHalf
  <2>3. (place = "socket" => tries <= 1)' /\ (place \notin Files => tries = 0)'
    BY <1>1
  <2> QED
    BY <2>1, <2>2, <2>3 DEF Control
<1>15. ReadOK'
  BY <1>6 DEF ReadOK
<1>16. TcpOK' /\ Left'
  BY <1>8, <1>9
<1>17. TypeOK'
  BY <1>0, <1>1, <1>10, <1>12, <1>13, <1>14, <1>15, <1>16, SameTypes, TypesAgain
<1> QED
  BY <1>7, <1>11, <1>14, <1>16, <1>17 DEF TInv, SInv

----------------------------------------------------------------------------
(* The frames.                                                             *)

LEMMA FramedTypes ==
  ASSUME TypeOK
  PROVE  /\ Had \in Nat /\ DOMAIN parsed = 1 .. Had
         /\ written \in 0 .. Requests /\ spoiler \in 0 .. written + 1
         /\ ones \subseteq (1 .. written) \X (SessionLen + 1 .. MsgLen)
         /\ loc \in Nat /\ Total \in Nat /\ loc <= Total /\ half \in BOOLEAN
<1>1. parsed \in Seq(0 .. Requests)
  BY Types DEF ParsedOK
<1>2. Had \in Nat /\ DOMAIN parsed = 1 .. Had
  BY <1>1, LenProperties DEF Had
<1>3. /\ written \in 0 .. Requests /\ spoiler \in 0 .. written + 1
      /\ ones \subseteq (1 .. written) \X (SessionLen + 1 .. MsgLen)
      /\ half \in BOOLEAN
  BY Types DEF ClientOK
<1>4. loc \in Nat /\ Len(pipe) \in Nat
  BY PipeTypes
<1>5. Total \in Nat /\ loc <= Total
  BY <1>4 DEF Total
<1> QED
  BY <1>2, <1>3, <1>4, <1>5

LEMMA Places ==
  ASSUME Had \in Nat
  PROVE  /\ Place(Had + 1) = 0
         /\ \A n \in Nat : n > Had => Place(n) \in Nat
         /\ \A n \in Nat : n > Had + 1 => Place(n) = (n - (Had + 1) - 1) * Frame + Frame
<1>1. Frame \in Nat
  BY Numbers
<1>2. Place(Had + 1) = 0
  <2>1. Had + 1 - Had - 1 = 0
    OBVIOUS
  <2>2. Place(Had + 1) = (Had + 1 - Had - 1) * Frame
    BY DEF Place
  <2> QED
    BY <1>1, <2>1, <2>2
<1>3. ASSUME NEW n \in Nat, n > Had PROVE Place(n) \in Nat
  <2>1. PICK d \in Nat : d = n - Had - 1
    BY <1>3
  <2>2. d * Frame \in Nat
    BY <1>1
  <2> QED
    BY <2>1, <2>2 DEF Place
<1>4. ASSUME NEW n \in Nat, n > Had + 1 PROVE Place(n) = (n - (Had + 1) - 1) * Frame + Frame
  <2>1. PICK d \in Nat : d = n - (Had + 1) - 1
    BY <1>4
  <2>2. n - Had - 1 = d + 1
    BY <2>1
  <2>3. (d + 1) * Frame = d * Frame + Frame
    BY <1>1
  <2> QED
    BY <2>1, <2>2, <2>3 DEF Place
<1> QED
  BY <1>2, <1>3, <1>4

(* The front of what parse has not had.                                    *)
LEMMA NextRequest ==
  ASSUME TypeOK, FInv, Good, Total > 0
  PROVE  /\ Had + 1 \in 1 .. Due /\ Had + 1 \in 1 .. Requests
         /\ MsgLen <= Total /\ \A i \in 1 .. MsgLen : At(i) = <<Had + 1, i>>
         /\ Complete(Had + 1) => /\ Frame <= Total
                                 /\ \A i \in MsgLen + 1 .. Frame : At(i) = Mark
         /\ ~ Complete(Had + 1) => Total = MsgLen
<1>1. Promise
  BY DEF FInv
<1>2. /\ Had \in Nat /\ written \in 0 .. Requests /\ spoiler \in 0 .. written + 1
      /\ loc \in Nat /\ Total \in Nat /\ loc <= Total
      /\ Frame \in Nat /\ MsgLen \in Nat /\ MsgLen >= 1 /\ Requests \in Nat
  BY FramedTypes, Numbers
<1>3. Due \in 0 .. Requests /\ Due >= Had + 1
  <2>1. CASE spoiler = 0
    <3>1. Total = (written - Had) * Frame /\ Due = written /\ Had <= written
      BY <1>1, <2>1 DEF Promise, Due
    <3>2. written # Had
      <4>1. 0 * Frame = 0
        BY <1>2
      <4> QED
        BY <1>2, <3>1, <4>1
    <3> QED
      BY <1>2, <3>1, <3>2
  <2>2. CASE spoiler # 0
    BY <1>2, <2>2 DEF Good, Due
  <2> QED
    BY <2>1, <2>2
<1>4. Lies(Had + 1) /\ Had + 1 \in 1 .. Due /\ Had + 1 \in 1 .. Requests
  <2>1. Had + 1 \in Had + 1 .. Due
    BY <1>2, <1>3
  <2> QED
    BY <1>1, <1>2, <1>3, <2>1 DEF Promise
<1>5. Place(Had + 1) = 0
  BY <1>2, Places
<1>6. /\ \A i \in 1 .. MsgLen : Place(Had + 1) + i = i
      /\ \A i \in MsgLen + 1 .. Frame : Place(Had + 1) + i = i
      /\ Place(Had + 1) + MsgLen = MsgLen /\ Place(Had + 1) + Frame = Frame
  BY <1>2, <1>5
<1>7. MsgLen <= Total /\ (Complete(Had + 1) => Frame <= Total) /\ (~ Complete(Had + 1) => Total = MsgLen)
  BY <1>4, <1>6 DEF Lies
<1>8. \A i \in 1 .. MsgLen : At(i) = <<Had + 1, i>>
  <2>1. \A i \in 1 .. MsgLen : At(Place(Had + 1) + i) = <<Had + 1, i>>
    BY <1>4 DEF Lies
  <2> QED
    BY <1>6, <2>1
<1>9. ASSUME Complete(Had + 1) PROVE \A i \in MsgLen + 1 .. Frame : At(i) = Mark
  <2>1. \A i \in MsgLen + 1 .. Frame : At(Place(Had + 1) + i) = Mark
    BY <1>4, <1>9 DEF Lies
  <2> QED
    BY <1>6, <2>1
<1> QED
  BY <1>4, <1>7, <1>8, <1>9

(* What a request's bytes are does not depend on the rest of the pipe.     *)
LEMMA LiesStill ==
  ASSUME TypeOK, NEW n \in Nat, n > Had, Lies(n), Had' = Had, Total' \in Nat,
         \A i \in 1 .. Total : At(i)' = At(i),
         \/ Total' = Total /\ (Complete(n)' <=> Complete(n))
         \/ Total' >= Total /\ Complete(n) /\ Complete(n)'
  PROVE  Lies(n)'
<1>1. Place(n) \in Nat /\ Place(n)' = Place(n) /\ Total \in Nat /\ MsgLen \in Nat /\ Frame = MsgLen + 3
  BY FramedTypes, Places, Numbers DEF Place
<1>2. ASSUME NEW i \in 1 .. MsgLen PROVE At(Place(n) + i)' = <<n, i>>
  <2>1. Place(n) + i \in 1 .. Total
    BY <1>1 DEF Lies
  <2>2. PICK j \in 1 .. Total : j = Place(n) + i
    BY <2>1
  <2>3. At(j)' = At(j)
    OBVIOUS
  <2> QED
    BY <1>1, <2>2, <2>3 DEF Lies
<1>3. ASSUME Complete(n), NEW i \in MsgLen + 1 .. Frame PROVE At(Place(n) + i)' = Mark
  <2>1. Place(n) + i \in 1 .. Total
    BY <1>1, <1>3 DEF Lies
  <2>2. PICK j \in 1 .. Total : j = Place(n) + i
    BY <2>1
  <2>3. At(j)' = At(j)
    OBVIOUS
  <2> QED
    BY <1>1, <1>3, <2>2, <2>3 DEF Lies
<1>4. Place(n) + MsgLen <= Total' /\ (Complete(n) => Place(n) + Frame <= Total')
  BY <1>1 DEF Lies
<1>5. ~ Complete(n)' => Total' = Place(n) + MsgLen
  BY <1>1 DEF Lies
<1> QED
  BY <1>1, <1>2, <1>3, <1>4, <1>5 DEF Lies

LEMMA FInvKept ==
  ASSUME TypeOK, FInv, UNCHANGED <<pipe, buffer, loc, parsed, written, ones, half, spoiler>>,
         place' = "pipe" /\ tries' > 0 => place = "pipe" /\ tries > 0
  PROVE  FInv'
<1>1. /\ Total' = Total /\ Had' = Had /\ (\A i : At(i)' = At(i))
      /\ \A n : Place(n)' = Place(n) /\ (Complete(n)' <=> Complete(n))
  BY DEF Total, Had, At, Place, Complete
<1>2. (Good' <=> Good) /\ Due' = Due
  BY <1>1 DEF Good, Due
<1>3. \A n : Lies(n) => Lies(n)'
  BY <1>1 DEF Lies
<1>4. (Given => Given') /\ (Unfound => Unfound')
  BY <1>1 DEF Given, Unfound, IsMark
<1>5. Spoiled'
  BY DEF FInv, Spoiled, Ones
<1>6. Framed'
  BY DEF FInv, Framed, Promised
<1>7. Promise => Promise'
  BY <1>1, <1>2, <1>3, <1>4 DEF Promise
<1> QED
  BY <1>2, <1>5, <1>6, <1>7 DEF FInv

LEMMA FInvOthers ==
  ASSUME TInv, FInv,
         \/ (\E f \in Files : Add(f) \/ Look(f)) \/ StartSync \/ PollWait \/ PollEnds
         \/ Arrive \/ HangUp \/ ReadEnds \/ ReadTcp \/ ReadTcpEmpty \/ ReadTcpEof
  PROVE  FInv'
<1>0. TypeOK /\ Control
  BY DEF TInv
<1>1. UNCHANGED <<pipe, buffer, loc, parsed, written, ones, half, spoiler>>
  BY DEF Add, Look, StartSync, PollWait, PollEnds, Arrive, HangUp, ReadEnds, ReadTcp, ReadTcpEmpty,
         ReadTcpEof, udp, client, heard
<1>2. tries \in 0 .. 2
  BY <1>0, Types DEF TriesOK
<1>3. place' = "pipe" /\ tries' > 0 => place = "pipe" /\ tries > 0
  <2>1. place \notin Files => tries = 0
    BY <1>0 DEF Control
  <2> QED
    BY <1>2, <2>1 DEF Add, Look, StartSync, PollWait, PollEnds, Arrive, HangUp, ReadEnds, ReadTcp,
         ReadTcpEmpty, ReadTcpEof, Files
<1> QED
  BY <1>0, <1>1, <1>3, FInvKept

(* Nothing is left to be read: the buffer is empty, or holds the request   *)
(* whose boundary is to come.                                              *)
LEMMA FInvEmpty ==
  ASSUME TInv, FInv, ReadEmpty
  PROVE  FInv'
<1>0. TypeOK /\ Control
  BY DEF TInv
<1>1. /\ pipe = <<>> /\ place = "pipe" /\ place' = place
      /\ UNCHANGED <<pipe, buffer, loc, parsed, written, ones, half, spoiler>>
  BY DEF ReadEmpty, client, heard
<1>2. /\ Had \in Nat /\ written \in 0 .. Requests /\ spoiler \in 0 .. written + 1
      /\ loc \in Nat /\ Total = loc /\ Frame \in Nat /\ MsgLen \in Nat
  <2>1. Len(pipe) = 0
    BY <1>1
  <2>2. /\ Had \in Nat /\ written \in 0 .. Requests /\ spoiler \in 0 .. written + 1
        /\ loc \in Nat /\ Frame \in Nat /\ MsgLen \in Nat
    BY <1>0, FramedTypes, Numbers
  <2> QED
    BY <2>1, <2>2 DEF Total
<1>3. ASSUME Good, loc # 0
      PROVE  Had + 2 = spoiler /\ loc = MsgLen
  <2>1. Promise /\ Spoiled
    BY <1>3 DEF FInv
  <2>2. Total > 0
    BY <1>2, <1>3
  <2>3. ~ Complete(Had + 1)
    <3>1. ~ (Frame <= Total)
      BY <1>2, <2>1 DEF Promise
    <3> QED
      BY <1>0, <1>3, <2>2, <3>1, NextRequest
  <2>4. half /\ Had + 1 = written
    BY <2>3 DEF Complete
  <2>5. Had + 1 <= Due /\ loc = MsgLen
    <3>1. Had + 1 \in 1 .. Due /\ Total = MsgLen
      BY <1>0, <1>3, <2>2, <2>3, NextRequest
    <3> QED
      BY <1>2, <3>1
  <2>6. spoiler # 0 /\ written + 1 >= spoiler
    BY <2>1, <2>4 DEF Spoiled
  <2> QED
    BY <1>2, <2>4, <2>5, <2>6 DEF Due
<1>4. /\ Total' = Total /\ Had' = Had /\ (\A i : At(i)' = At(i))
      /\ \A n : Place(n)' = Place(n) /\ (Complete(n)' <=> Complete(n))
  BY <1>1 DEF Total, Had, At, Place, Complete
<1>5. (Good' <=> Good) /\ Due' = Due
  BY <1>1, <1>4 DEF Good, Due
<1>6. \A n : Lies(n) => Lies(n)'
  BY <1>4 DEF Lies
<1>7. (Good => Given') /\ (Unfound => Unfound')
  BY <1>1, <1>3, <1>4 DEF Given, Unfound, IsMark
<1>8. Spoiled'
  BY <1>1 DEF FInv, Spoiled, Ones
<1>9. Framed'
  BY <1>1 DEF FInv, Framed, Promised
<1>10. Good /\ Promise => Promise'
  BY <1>1, <1>4, <1>5, <1>6, <1>7 DEF Promise
<1> QED
  BY <1>5, <1>8, <1>9, <1>10 DEF FInv

LEMMA MarkBytes ==
  /\ IsMark(Mark)
  /\ \A n \in 1 .. Requests, i \in 1 .. MsgLen : IsMark(<<n, i>>) <=> i \in Ones(n)
BY Numbers DEF IsMark, Mark, Ones

(* No boundary ends before the request's last byte, nor before its own but *)
(* where that byte has the boundary's value.                               *)
LEMMA NextBoundary ==
  ASSUME TypeOK, FInv, Good, Total > 0
  PROVE  /\ \A e \in Nat : e >= 3 /\ e <= Total /\ (\A i \in e - 2 .. e : IsMark(At(i))) =>
              e >= IF MsgLen \in Ones(Had + 1) THEN MsgLen ELSE Frame
         /\ Complete(Had + 1) => \A i \in MsgLen + 1 .. Frame : i <= Total /\ IsMark(At(i))
<1> DEFINE n == Had + 1
<1>1. /\ n \in 1 .. Due /\ n \in 1 .. Requests
      /\ MsgLen <= Total /\ \A i \in 1 .. MsgLen : At(i) = <<n, i>>
      /\ Complete(n) => /\ Frame <= Total
                        /\ \A i \in MsgLen + 1 .. Frame : At(i) = Mark
  BY NextRequest
<1>2. /\ Total \in Nat /\ MsgLen \in Nat /\ MsgLen >= 4 /\ Frame = MsgLen + 3
      /\ Had \in Nat /\ written \in 0 .. Requests /\ spoiler \in 0 .. written + 1
  BY FramedTypes, Numbers
<1>3. n \in 1 .. written
  BY <1>1, <1>2 DEF Due
<1>4. ~ Inside(Ones(n))
  <2>1. Spoiled
    BY DEF FInv
  <2> QED
    BY <1>2, <1>3, <2>1 DEF Spoiled, Good
<1> HIDE DEF n
<1>5. ASSUME NEW e \in Nat, e >= 3, e <= Total, \A i \in e - 2 .. e : IsMark(At(i))
      PROVE  e >= IF MsgLen \in Ones(n) THEN MsgLen ELSE Frame
  <2>1. \A i \in e - 2 .. e : i \in 1 .. MsgLen => i \in Ones(n)
    BY <1>1, <1>5, MarkBytes
  <2>2. e >= MsgLen
    <3> SUFFICES ASSUME e < MsgLen PROVE FALSE
      BY <1>2, <1>5
    <3>1. PICK k \in 1 .. MsgLen : k = e - 2
      BY <1>2, <1>5
    <3>2. k \in Ones(n) /\ k + 1 \in Ones(n) /\ k + 2 \in Ones(n) /\ k + 2 < MsgLen
      BY <1>2, <1>5, <2>1, <3>1
    <3> QED
      BY <1>4, <3>2 DEF Inside
  <2>3. MsgLen \notin Ones(n) => e >= Frame
    <3> SUFFICES ASSUME e < Frame PROVE MsgLen \in Ones(n)
      BY <1>2, <1>5
    <3>1. MsgLen \in e - 2 .. e /\ MsgLen \in 1 .. MsgLen
      BY <1>2, <1>5, <2>2
    <3> QED
      BY <2>1, <3>1
  <2> QED
    BY <2>2, <2>3
<1>6. Complete(n) => \A i \in MsgLen + 1 .. Frame : i <= Total /\ IsMark(At(i))
  BY <1>1, <1>2, MarkBytes
<1> QED
  BY <1>5, <1>6 DEF n

LEMMA FInvReadPart ==
  ASSUME TInv, FInv, ReadPart
  PROVE  FInv'
<1>0. TypeOK
  BY DEF TInv
<1>1. /\ Size > 0 /\ loc' = loc + Size /\ tries' = 0
      /\ UNCHANGED <<parsed, written, ones, half, spoiler>>
  BY DEF ReadPart, Reads, client, heard
<1>2. /\ TypeOK' /\ Gone(0)
      /\ \A j \in loc + 1 .. loc' : j >= 3 => \E i \in j - 2 .. j : ~ IsMark(At(i))
  BY TInvReadPart DEF TInv
<1>3. /\ Had \in Nat /\ loc \in Nat /\ Total \in Nat /\ Frame = MsgLen + 3
      /\ MsgLen \in Nat /\ MsgLen >= 4 /\ Size \in Nat
      /\ loc' <= Total /\ Total > 0 /\ written \in 0 .. Requests /\ spoiler \in 0 .. written + 1
  <2>1. Size \in Nat /\ Size <= Len(pipe) /\ Len(pipe) \in Nat
    BY <1>0, <1>1, SizeRange, Numbers
  <2>2. Had \in Nat /\ loc \in Nat /\ Total \in Nat /\ written \in 0 .. Requests /\ spoiler \in 0 .. written + 1
    BY <1>0, FramedTypes
  <2>3. loc' <= Total /\ Total > 0
    BY <1>1, <2>1, <2>2 DEF Total
  <2> QED
    BY <2>1, <2>2, <2>3, Numbers
<1>4. Total' = Total /\ Had' = Had /\ \A i \in 1 .. Total : At(i)' = At(i)
  <2>1. Total' = Total
    BY <1>2, <1>3 DEF Gone
  <2>2. \A i \in 1 .. Total : i \in 1 .. Total - 0 /\ i + 0 = i
    BY <1>3
  <2> QED
    BY <1>1, <1>2, <2>1, <2>2 DEF Gone, Had
<1>5. \A n : Complete(n)' <=> Complete(n)
  BY <1>1 DEF Complete
<1>6. (Good' <=> Good) /\ Due' = Due
  BY <1>1, <1>4 DEF Good, Due
<1>7. Spoiled' /\ Framed'
  BY <1>1 DEF FInv, Spoiled, Ones, Framed, Promised
<1>8. ASSUME Good PROVE Promise'
  <2>1. Promise
    BY <1>8 DEF FInv
  <2>2. \A n \in Had + 1 .. Due : Lies(n)'
    <3> SUFFICES ASSUME NEW n \in Had + 1 .. Due PROVE Lies(n)'
      OBVIOUS
    <3>1. Due \in Nat
      BY <1>3 DEF Due
    <3>2. n \in Nat /\ n > Had /\ Lies(n)
      BY <1>3, <2>1, <3>1 DEF Promise
    <3> QED
      BY <1>0, <1>3, <1>4, <1>5, <3>2, LiesStill
  <2>3. Complete(Had + 1) => \A i \in MsgLen + 1 .. Frame : i <= Total /\ IsMark(At(i))
    BY <1>0, <1>3, <1>8, NextBoundary
  <2>4. loc' > MsgLen => Complete(Had + 1)
    <3>1. ~ Complete(Had + 1) => Total = MsgLen
      BY <1>0, <1>3, <1>8, NextRequest
    <3> QED
      BY <1>1, <1>3, <3>1
  <2>5. loc' < Frame
    <3> SUFFICES ASSUME loc' >= Frame PROVE FALSE
      BY <1>1, <1>3
    <3>1. PICK j \in loc + 1 .. loc' : j = Frame
      BY <1>1, <1>3, <2>1 DEF Promise
    <3>2. \A i \in j - 2 .. j : i \in MsgLen + 1 .. Frame
      BY <1>3, <3>1
    <3>3. Complete(Had + 1)
      BY <1>1, <1>3, <2>4
    <3> QED
      BY <1>2, <1>3, <2>3, <3>1, <3>2, <3>3
  <2>6. Unfound'
    <3> SUFFICES ASSUME NEW j \in MsgLen .. loc' PROVE (\E i \in j - 2 .. j : ~ IsMark(At(i)))'
      BY DEF Unfound
    <3>1. j \in Nat /\ j >= 3 /\ \A i \in j - 2 .. j : i \in 1 .. Total
      BY <1>1, <1>3
    <3>2. \E i \in j - 2 .. j : ~ IsMark(At(i))
      <4>1. CASE j <= loc
        BY <1>3, <2>1, <4>1 DEF Promise, Unfound
      <4>2. CASE j > loc
        BY <1>1, <1>2, <1>3, <3>1, <4>2
      <4> QED
        BY <1>3, <3>1, <4>1, <4>2
    <3> QED
      BY <1>1, <1>4, <3>1, <3>2 DEF IsMark
  <2>7. Given'
    BY <1>1 DEF Given
  <2>8. Had' <= Due' /\ (spoiler' = 0 => Total' = (written' - Had') * Frame)
    BY <1>1, <1>4, <1>6, <2>1 DEF Promise
  <2>9. \A n \in Had' + 1 .. Due' : Lies(n)'
    BY <1>4, <1>6, <2>2
  <2> QED
    BY <2>5, <2>6, <2>7, <2>8, <2>9 DEF Promise, Frame
<1> QED
  BY <1>6, <1>7, <1>8 DEF FInv

(* Behind the request that spoils the frames no promise is kept.           *)
LEMMA SpoiltStays ==
  ASSUME TypeOK, Framed, ~ Good, spoiler' = spoiler, Had' \in Nat, Had' >= Had,
         DOMAIN parsed' = 1 .. Had', \A i \in 1 .. Had : parsed'[i] = parsed[i]
  PROVE  Framed' /\ ~ Good'
<1>1. /\ Had \in Nat /\ DOMAIN parsed = 1 .. Had /\ spoiler \in Nat /\ spoiler # 0 /\ Had + 1 >= spoiler
  <2>1. /\ Had \in Nat /\ DOMAIN parsed = 1 .. Had /\ written \in 0 .. Requests
        /\ spoiler \in 0 .. written + 1
    BY FramedTypes
  <2> QED
    BY <2>1 DEF Good
<1>2. ASSUME NEW i \in 1 .. Had', Promised(i)' PROVE parsed'[i] = i
  <2>1. i < spoiler /\ i \in 1 .. Had
    BY <1>1, <1>2 DEF Promised
  <2>2. Promised(i)
    BY <2>1 DEF Promised
  <2> QED
    BY <1>1, <2>1, <2>2 DEF Framed
<1>3. Framed'
  BY <1>2 DEF Framed
<1>4. ~ Good'
  <2>1. PICK h \in Nat : h = Had'
    OBVIOUS
  <2>2. h + 1 >= spoiler
    <3>1. h >= Had
      BY <2>1, Zenon
    <3>2. \A a, b, c \in Nat : a + 1 >= b /\ c >= a => c + 1 >= b
      OBVIOUS
    <3> QED
      BY <1>1, <2>1, <3>1, <3>2, Zenon
  <2>3. Good' <=> spoiler' = 0 \/ h + 1 < spoiler'
    BY <2>1 DEF Good
  <2> QED
    BY <1>1, <2>2, <2>3
<1> QED
  BY <1>3, <1>4

(* A request is heard, and the promise of the frames holds for the others. *)
LEMMA HeardNext ==
  ASSUME TypeOK, Framed, NEW mem, Parse(mem), spoiler' = spoiler, Had + 1 \in 1 .. Requests,
         \A i \in 1 .. MsgLen : mem[i] = <<Had + 1, i>>
  PROVE  Framed' /\ Had' = Had + 1
<1>1. /\ Had \in Nat /\ Had' = Had + 1
      /\ DOMAIN parsed = 1 .. Had /\ DOMAIN parsed' = 1 .. Had + 1
      /\ \A i \in 1 .. Had : parsed'[i] = parsed[i]
      /\ \A n \in 1 .. Requests :
           (\A i \in SessionLen + 1 .. MsgLen : mem[i] = <<n, i>>) => parsed'[Had + 1] = n
  BY Parsed
<1>2. parsed'[Had + 1] = Had + 1
  <2>1. \A i \in SessionLen + 1 .. MsgLen : i \in 1 .. MsgLen
    BY Numbers
  <2> QED
    BY <1>1, <2>1
<1>3. ASSUME NEW i \in 1 .. Had + 1, Promised(i)' PROVE parsed'[i] = i
  <2>1. CASE i = Had + 1
    BY <1>2, <2>1
  <2>2. CASE i # Had + 1
    <3>1. i \in 1 .. Had
      BY <1>1, <2>2
    <3>2. Promised(i)
      BY <1>3 DEF Promised
    <3> QED
      BY <1>1, <3>1, <3>2 DEF Framed
  <2> QED
    BY <2>1, <2>2
<1> QED
  BY <1>1, <1>3 DEF Framed

(* The next request gone with its boundary, the others are as they were.   *)
LEMMA LiesNext ==
  ASSUME TypeOK, NEW n \in Nat, n > Had + 1, Lies(n), Had' = Had + 1, Gone(Frame), Frame <= Total,
         Complete(n)' <=> Complete(n)
  PROVE  Lies(n)'
<1>1. Had \in Nat /\ Total \in Nat /\ Frame \in Nat /\ MsgLen \in Nat
  BY FramedTypes, Numbers
<1>2. Place(n) = Place(n)' + Frame /\ Place(n)' \in Nat /\ Place(n) \in Nat
  <2>1. Place(n) = (n - (Had + 1) - 1) * Frame + Frame
    BY <1>1, Places
  <2>2. Place(n)' = (n - (Had + 1) - 1) * Frame
    BY DEF Place, Frame
  <2>3. PICK d \in Nat : d = n - (Had + 1) - 1
    BY <1>1
  <2>4. d * Frame \in Nat
    BY <1>1
  <2> QED
    BY <1>1, <2>1, <2>2, <2>3, <2>4
<1>3. Total' = Total - Frame /\ \A i \in 1 .. Total - Frame : At(i)' = At(i + Frame)
  BY DEF Gone
<1>4. ASSUME NEW i \in Nat, i >= 1, Place(n) + i <= Total
      PROVE  At(Place(n) + i)' = At(Place(n) + i)
  <2>1. PICK j \in 1 .. Total - Frame : j = Place(n)' + i
    BY <1>1, <1>2, <1>4
  <2>2. j + Frame = Place(n) + i
    BY <1>1, <1>2, <2>1
  <2>3. At(j)' = At(j + Frame)
    BY <1>3
  <2> QED
    BY <2>1, <2>2, <2>3
<1>5. \A i \in 1 .. MsgLen : At(Place(n) + i)' = <<n, i>>
  BY <1>1, <1>2, <1>4 DEF Lies
<1>6. ASSUME Complete(n), NEW i \in MsgLen + 1 .. Frame PROVE At(Place(n) + i)' = Mark
  BY <1>1, <1>2, <1>4, <1>6 DEF Lies
<1>7. /\ Place(n)' + MsgLen <= Total' /\ (Complete(n) => Place(n)' + Frame <= Total')
      /\ ~ Complete(n) => Total' = Place(n)' + MsgLen
  BY <1>1, <1>2, <1>3 DEF Lies
<1>8. Place(n)' = (n - Had' - 1) * Frame
  BY DEF Place, Frame
<1> QED
  BY <1>5, <1>6, <1>7 DEF Lies, Frame

LEMMA FInvReadMark ==
  ASSUME TInv, FInv, ReadMark
  PROVE  FInv'
<1>0. TypeOK /\ Framed /\ Spoiled
  BY DEF TInv, FInv
<1>1. /\ Size > 0 /\ tries' = 0
      /\ UNCHANGED <<written, ones, half, spoiler>>
  BY DEF ReadMark, Reads, client
<1>2. TypeOK' /\ Parse(Filled) /\ \E e \in Nat : Cut(e)
  BY TInvReadMark DEF TInv
<1>3. PICK e \in Nat : Cut(e)
  BY <1>2
<1>4. /\ Had \in Nat /\ loc \in Nat /\ Total \in Nat /\ Frame = MsgLen + 3
      /\ MsgLen \in Nat /\ MsgLen >= 4 /\ Size \in Nat /\ Size <= MsgLen
      /\ loc + Size <= Total /\ Total > 0 /\ written \in 0 .. Requests /\ spoiler \in 0 .. written + 1
      /\ \A i \in 1 .. loc + Size : Filled[i] = At(i)
  <2>1. /\ Size \in Nat /\ Size <= Len(pipe) /\ Len(pipe) \in Nat /\ Size <= MsgLen
        /\ \A i \in 1 .. loc + Size : Filled[i] = At(i)
    BY <1>0, <1>1, SizeRange, Numbers
  <2>2. Had \in Nat /\ loc \in Nat /\ Total \in Nat /\ written \in 0 .. Requests /\ spoiler \in 0 .. written + 1
    BY <1>0, FramedTypes
  <2>3. loc + Size <= Total /\ Total > 0
    BY <1>1, <2>1, <2>2 DEF Total
  <2> QED
    BY <2>1, <2>2, <2>3, Numbers
<1>5. /\ Had' = Had + 1 /\ DOMAIN parsed' = 1 .. Had + 1
      /\ \A i \in 1 .. Had : parsed'[i] = parsed[i]
  BY <1>0, <1>2, Parsed
<1>6. Spoiled'
  BY <1>0, <1>1 DEF Spoiled, Ones
<1>7. CASE ~ Good
  <2>1. Framed' /\ ~ Good'
    BY <1>0, <1>1, <1>4, <1>5, <1>7, SpoiltStays
  <2> QED
    BY <1>6, <2>1 DEF FInv
<1>8. CASE Good
  <2>1. Promise
    BY <1>8 DEF FInv
  <2>2. /\ e \in loc + 1 .. loc + Size /\ e >= 3 /\ \A i \in e - 2 .. e : IsMark(At(i))
        /\ \A j \in loc + 1 .. loc + Size : j >= 3 /\ j < e => \E i \in j - 2 .. j : ~ IsMark(At(i))
        /\ loc' = loc + Size - e /\ Gone(e)
    BY <1>3 DEF Cut
  <2>3. e >= MsgLen /\ (MsgLen \notin Ones(Had + 1) => e >= Frame)
    <3>1. e <= Total
      BY <1>4, <2>2
    <3> QED
      BY <1>0, <1>4, <1>8, <2>2, <3>1, NextBoundary
  <2>4. Complete(Had + 1) => \A i \in MsgLen + 1 .. Frame : i <= Total /\ IsMark(At(i))
    BY <1>0, <1>4, <1>8, NextBoundary
  <2>5. /\ Had + 1 \in 1 .. Due /\ Had + 1 \in 1 .. Requests
        /\ \A i \in 1 .. MsgLen : At(i) = <<Had + 1, i>>
        /\ Complete(Had + 1) => Frame <= Total
    BY <1>0, <1>4, <1>8, NextRequest
  <2>6. Complete(Had + 1) /\ MsgLen \notin Ones(Had + 1) => e = Frame
    <3> SUFFICES ASSUME Complete(Had + 1), MsgLen \notin Ones(Had + 1), e > Frame PROVE FALSE
      BY <1>4, <2>3
    <3>1. PICK j \in loc + 1 .. loc + Size : j = Frame
      BY <1>4, <2>1, <2>2 DEF Promise
    <3>2. \A i \in j - 2 .. j : i \in MsgLen + 1 .. Frame
      BY <1>4, <3>1
    <3> QED
      <4>1. \A i \in j - 2 .. j : IsMark(At(i))
        BY <2>4, <3>2
      <4>2. j \in Nat /\ j >= 3 /\ j < e
        BY <1>4, <3>1
      <4> QED
        BY <2>2, <4>1, <4>2
  <2>7. Framed'
    <3>1. \A i \in 1 .. MsgLen : i \in 1 .. loc + Size
      BY <1>4, <2>2, <2>3
    <3>2. \A i \in 1 .. MsgLen : Filled[i] = <<Had + 1, i>>
      BY <1>4, <2>5, <3>1
    <3> QED
      BY <1>0, <1>1, <1>2, <2>5, <3>2, HeardNext
  <2>8. ASSUME Good' PROVE Promise'
    <3>1. MsgLen \notin Ones(Had + 1) /\ Complete(Had + 1)
      <4>1. Had + 1 \in 1 .. written
        BY <1>4, <2>5 DEF Due
      <4>2. spoiler = 0 \/ Had + 2 < spoiler
        BY <1>1, <1>4, <1>5, <2>8 DEF Good
      <4> QED
        BY <1>0, <1>4, <4>1, <4>2 DEF Spoiled, Complete
    <3>2. Gone(Frame) /\ loc' = loc + Size - Frame
      BY <2>2, <2>6, <3>1
    <3>3. Due' = Due /\ Due \in Nat /\ \A n : Complete(n)' <=> Complete(n)
      BY <1>1, <1>4 DEF Due, Complete
    <3>4. \A n \in Had' + 1 .. Due' : Lies(n)'
      <4> SUFFICES ASSUME NEW n \in Had + 2 .. Due PROVE Lies(n)'
        BY <1>4, <1>5, <3>3
      <4>1. n \in Nat /\ n > Had + 1 /\ n \in Had + 1 .. Due
        BY <1>4, <3>3
      <4>2. Lies(n)
        BY <2>1, <4>1 DEF Promise
      <4> QED
        BY <1>0, <1>5, <2>5, <3>1, <3>2, <3>3, <4>1, <4>2, LiesNext
    <3>5. loc' < MsgLen
      BY <1>4, <2>1, <3>2 DEF Promise
    <3>6. spoiler' = 0 => Total' = (written' - Had') * Frame
      <4> SUFFICES ASSUME spoiler = 0 PROVE Total' = (written - (Had + 1)) * Frame
        BY <1>1, <1>5
      <4>1. Total = (written - Had) * Frame /\ Had + 1 <= written
        BY <2>1, <2>5, <1>4 DEF Promise, Due
      <4>2. PICK d \in Nat : d = written - (Had + 1)
        BY <1>4, <4>1
      <4>3. written - Had = d + 1
        BY <1>4, <4>2
      <4>4. (d + 1) * Frame = d * Frame + Frame /\ d * Frame \in Nat
        BY <1>4
      <4>5. Total' = Total - Frame
        BY <3>2 DEF Gone
      <4> QED
        BY <1>4, <4>1, <4>2, <4>3, <4>4, <4>5
    <3>7. Had' <= Due'
      BY <1>5, <2>5, <3>3
    <3>8. Given'
      BY <1>1 DEF Given
    <3>9. loc' < Frame /\ Unfound'
      <4>1. loc' \in Nat
        BY <1>4, <2>2
      <4> QED
        BY <1>4, <3>5, <4>1 DEF Unfound
    <3>10. Frame' = Frame
      BY DEF Frame
    <3> QED
      BY <3>4, <3>6, <3>7, <3>8, <3>9, <3>10 DEF Promise
  <2> QED
    BY <1>6, <2>7, <2>8 DEF FInv
<1> QED
  BY <1>7, <1>8

(* What is left in the buffer is the request whose boundary is to come.    *)
LEMMA FInvRest ==
  ASSUME TInv, FInv, Rest
  PROVE  FInv'
<1>0. TypeOK /\ Framed /\ Spoiled
  BY DEF TInv, FInv
<1>1. /\ place = "pipe" /\ tries = 2 /\ loc > 0
      /\ UNCHANGED <<written, ones, half, spoiler>>
  BY DEF Rest, client
<1>2. /\ (\A i \in 1 .. loc : IsMark(At(i))) => UNCHANGED parsed
      /\ ~ (\A i \in 1 .. loc : IsMark(At(i))) => Parse(buffer)
  BY TInvRest
<1>3. Had \in Nat /\ DOMAIN parsed = 1 .. Had /\ loc \in Nat /\ Total \in Nat /\ loc <= Total
  BY <1>0, FramedTypes
<1>4. Spoiled'
  BY <1>0, <1>1 DEF Spoiled, Ones
<1>5. CASE ~ Good
  <2>1. /\ Had' \in Nat /\ Had' >= Had /\ DOMAIN parsed' = 1 .. Had'
        /\ \A i \in 1 .. Had : parsed'[i] = parsed[i]
    <3>1. CASE UNCHANGED parsed
      BY <1>3, <3>1 DEF Had
    <3>2. CASE Parse(buffer)
      BY <1>0, <1>3, <3>2, Parsed
    <3> QED
      BY <1>2, <3>1, <3>2
  <2>2. Framed' /\ ~ Good'
    BY <1>0, <1>1, <1>5, <2>1, SpoiltStays
  <2> QED
    BY <1>4, <2>2 DEF FInv
<1>6. CASE Good
  <2>1. Had + 2 = spoiler /\ loc = MsgLen
    BY <1>1, <1>3, <1>6 DEF FInv, Promise, Given
  <2>2. /\ Had + 1 \in 1 .. Requests
        /\ \A i \in 1 .. MsgLen : At(i) = <<Had + 1, i>>
    BY <1>0, <1>1, <1>3, <1>6, NextRequest
  <2>3. \A i \in 1 .. MsgLen : buffer[i] = <<Had + 1, i>>
    BY <1>3, <2>1, <2>2 DEF At
  <2>4. Parse(buffer)
    <3>1. 1 \in 1 .. MsgLen /\ 1 \notin SessionLen + 1 .. MsgLen
      BY Numbers
    <3>2. ones \subseteq (1 .. written) \X (SessionLen + 1 .. MsgLen)
      BY <1>0, FramedTypes
    <3>3. ~ IsMark(At(1))
      BY <2>2, <3>1, <3>2, MarkBytes DEF Ones
    <3> QED
      BY <1>2, <2>1, <3>1, <3>3
  <2>5. Framed' /\ Had' = Had + 1
    BY <1>0, <1>1, <2>2, <2>3, <2>4, HeardNext
  <2>6. ~ Good'
    BY <1>1, <1>3, <2>1, <2>5 DEF Good
  <2> QED
    BY <1>4, <2>5, <2>6 DEF FInv
<1> QED
  BY <1>5, <1>6

(* What the client writes comes behind the requests it has written.        *)
LEMMA FInvWrite ==
  ASSUME TInv, FInv, NEW n \in 1 .. Requests, Write(n) \/ WriteRequest(n)
  PROVE  FInv'
<1>0. TypeOK /\ Framed /\ Spoiled
  BY DEF TInv, FInv
<1>1. PICK bytes \in {Request(n) \o Boundary, Request(n)}, at \in Patterns, odd \in BOOLEAN :
        /\ Writes(n, bytes, at, odd)
        /\ MsgLen \in at => odd
        /\ half' => bytes = Request(n) /\ odd
        /\ ~ half' => bytes = Request(n) \o Boundary
  BY <1>0, Written1
<1>2. /\ bytes \in Seq(Bytes) /\ Len(bytes) = IF half' THEN MsgLen ELSE Frame
      /\ \A i \in 1 .. MsgLen : bytes[i] = <<n, i>>
      /\ ~ half' => \A i \in MsgLen + 1 .. Frame : bytes[i] = Mark
  BY <1>1, RequestBytes, Numbers
<1>3. /\ pipe' = pipe \o bytes /\ buffer' = buffer /\ loc' = loc
      /\ UNCHANGED <<place, tries, parsed>>
  BY <1>1 DEF Writes, heard
<1>4. /\ ~ half /\ n = written + 1 /\ written' = n
      /\ ones' = ones \cup ({n} \X at) /\ at \subseteq SessionLen + 1 .. MsgLen
      /\ spoiler # 0 => spoiler' = spoiler
      /\ spoiler = 0 => spoiler' = IF Inside(at) THEN n ELSE IF odd THEN n + 1 ELSE 0
  BY <1>1, SimDispatcherAssumption DEF Writes
<1>5. /\ Had \in Nat /\ written \in 0 .. Requests
      /\ ones \subseteq (1 .. written) \X (SessionLen + 1 .. MsgLen)
      /\ spoiler \in 0 .. written + 1 /\ loc \in Nat /\ Total \in Nat /\ loc <= Total
      /\ MsgLen \in Nat /\ MsgLen >= 4 /\ Frame = MsgLen + 3 /\ DOMAIN parsed = 1 .. Had
  BY <1>0, FramedTypes, Numbers
<1>6. /\ Total' = Total + Len(bytes) /\ Total' \in Nat /\ Total' >= Total
      /\ \A i \in 1 .. Total : At(i)' = At(i)
      /\ \A i \in 1 .. Total + Len(bytes) : i > Total => At(i)' = bytes[i - Total]
  <2>1. /\ Total' = Total + Len(bytes)
        /\ \A i \in 1 .. Total : At(i)' = At(i)
        /\ \A i \in 1 .. Total + Len(bytes) : i > Total => At(i)' = bytes[i - Total]
    BY <1>0, <1>2, <1>3, Grown
  <2>2. Len(bytes) \in Nat
    BY <1>2, LenProperties
  <2> QED
    BY <1>5, <2>1, <2>2
<1>7. Had' = Had
  BY <1>3 DEF Had
<1>8. \A m \in Nat : m <= written => Complete(m) /\ Complete(m)'
  BY <1>4, <1>5 DEF Complete
<1>9. Spoiled'
  <2>1. \A m \in 1 .. written : Ones(m)' = Ones(m)
    BY <1>4, <1>5 DEF Ones
  <2>2. Ones(n)' = at
    <3>1. \A i : <<n, i>> \notin ones
      BY <1>4, <1>5
    <3>2. at \subseteq 1 .. MsgLen
      BY <1>4, Numbers
    <3> QED
      BY <1>4, <3>1, <3>2 DEF Ones
  <2>3. ASSUME NEW m \in 1 .. written',
               Inside(Ones(m)') \/ MsgLen \in Ones(m)' \/ (m = n /\ odd)
        PROVE  /\ spoiler' # 0 /\ m + 1 >= spoiler'
               /\ Inside(Ones(m)') => m >= spoiler'
    <3>1. CASE m # n
      <4>1. m \in 1 .. written
        BY <1>4, <1>5, <3>1
      <4> QED
        BY <1>0, <1>4, <1>5, <2>1, <2>3, <3>1, <4>1 DEF Spoiled
    <3>2. CASE m = n
      <4>1. Inside(at) \/ odd
        BY <1>1, <2>2, <2>3, <3>2
      <4>2. spoiler # 0 => spoiler' # 0 /\ spoiler' <= n
        BY <1>4, <1>5
      <4>3. spoiler = 0 => spoiler' # 0 /\ spoiler' <= n + 1 /\ (Inside(at) => spoiler' = n)
        BY <1>4, <1>5, <4>1
      <4> QED
        BY <1>4, <1>5, <2>2, <3>2, <4>2, <4>3
    <3> QED
      BY <3>1, <3>2
  <2>4. written' \in 1 .. written'
    BY <1>4, <1>5
  <2>5. half' => odd
    BY <1>1
  <2>6. \A m : Inside(Ones(m)) ' <=> Inside(Ones(m)')
    BY DEF Inside
  <2> QED
    BY <1>4, <2>3, <2>4, <2>5, <2>6 DEF Spoiled
<1>10. Framed'
  <2>1. ASSUME NEW i \in 1 .. Had, Promised(i)' PROVE Promised(i)
    BY <1>4, <2>1 DEF Promised
  <2> QED
    BY <1>0, <1>3, <1>5, <2>1 DEF Framed
<1>11. ASSUME Good' PROVE Good
  BY <1>4, <1>7, <1>11 DEF Good
<1>12. ASSUME Good, Good' PROVE Promise'
  <2>1. Promise
    BY <1>12 DEF FInv
  <2>2. ASSUME NEW m \in Had + 1 .. Due, Due <= written PROVE Lies(m)'
    <3>1. m \in Nat /\ m > Had /\ m <= written
      <4>1. Due \in Nat
        BY <1>5 DEF Due
      <4> QED
        BY <1>5, <2>2, <4>1
    <3>2. Lies(m) /\ Complete(m) /\ Complete(m)'
      BY <1>8, <2>1, <3>1 DEF Promise
    <3> QED
      BY <1>0, <1>6, <1>7, <3>1, <3>2, LiesStill
  <2>10. Unfound'
    <3>1. CASE loc = 0
      BY <1>3, <1>5, <3>1 DEF Unfound
    <3>2. CASE loc # 0
      <4>1. Total > 0 /\ loc <= Frame
        BY <1>5, <2>1, <3>2 DEF Promise
      <4>2. /\ Had + 1 \in 1 .. Due
            /\ \A i \in 1 .. MsgLen : At(i) = <<Had + 1, i>>
            /\ Complete(Had + 1) => \A i \in MsgLen + 1 .. Frame : At(i) = Mark
            /\ ~ Complete(Had + 1) => Total = MsgLen
        BY <1>0, <1>12, <4>1, NextRequest
      <4>3. Had + 1 # n
        BY <1>4, <1>5, <4>2 DEF Due
      <4>4. \A i \in 1 .. loc : At(i) = <<Had + 1, i>> \/ At(i) = Mark
        BY <1>5, <4>1, <4>2
      <4>5. \A i \in 1 .. loc : ~ IsMark(At(i)) => ~ IsMark(At(i))'
        <5>1. \A i : <<Had + 1, i>> \in ones' => <<Had + 1, i>> \in ones
          BY <1>4, <4>3
        <5>2. \A i \in 1 .. loc : At(i)' = At(i)
          BY <1>5, <1>6
        <5> QED
          BY <4>4, <5>1, <5>2 DEF IsMark
      <4>6. ASSUME NEW j \in MsgLen .. loc PROVE (\E i \in j - 2 .. j : ~ IsMark(At(i)))'
        <5>1. \A i \in j - 2 .. j : i \in 1 .. loc
          BY <1>5
        <5>2. PICK i \in j - 2 .. j : ~ IsMark(At(i))
          BY <2>1 DEF Promise, Unfound
        <5> QED
          BY <4>5, <5>1, <5>2
      <4> QED
        BY <1>3, <4>6 DEF Unfound
    <3> QED
      BY <3>1, <3>2
  <2>3. CASE spoiler # 0
    <3>1. /\ Due = spoiler - 1 /\ Due' = Due /\ spoiler' = spoiler /\ Due <= written
          /\ Had + 1 <= written
      BY <1>4, <1>5, <1>12, <2>3 DEF Due, Good
    <3>4. Given'
      <4>1. Given
        BY <2>1 DEF Promise
      <4> QED
        BY <1>3, <1>7, <3>1, <4>1 DEF Given
    <3>5. \A m \in Had' + 1 .. Due' : Lies(m)'
      BY <1>7, <2>2, <3>1
    <3> QED
      BY <1>3, <1>7, <2>1, <2>3, <2>10, <3>1, <3>4, <3>5 DEF Promise, Frame
  <2>4. CASE spoiler = 0
    <3>1. Due = written /\ Due' \in Nat /\ Due' <= n /\ Had <= Due' /\ Had <= written
      <4>1. Due = written /\ Had <= written
        BY <2>1, <2>4 DEF Due, Promise
      <4>2. CASE Inside(at)
        BY <1>4, <1>5, <1>7, <1>12, <2>4, <4>1, <4>2 DEF Due, Good
      <4>3. CASE ~ Inside(at)
        BY <1>4, <1>5, <2>4, <4>1, <4>3 DEF Due
      <4> QED
        BY <4>2, <4>3, <4>1
    <3>3. /\ n \in Nat /\ n > Had /\ Place(n) = Total /\ Place(n)' = Total
      <4>1. n - Had - 1 = written - Had
        BY <1>4, <1>5
      <4>2. Total = (written - Had) * Frame
        BY <2>1, <2>4 DEF Promise
      <4>3. Place(n) = (n - Had - 1) * Frame /\ Place(n)' = (n - Had - 1) * Frame
        BY <1>7 DEF Place, Frame
      <4> QED
        BY <1>4, <1>5, <3>1, <4>1, <4>2, <4>3
    <3>4. \A i \in 1 .. MsgLen : At(Place(n) + i)' = <<n, i>>
      <4> SUFFICES ASSUME NEW i \in 1 .. MsgLen PROVE At(Place(n) + i)' = <<n, i>>
        OBVIOUS
      <4>1. PICK j \in 1 .. Total + Len(bytes) : j = Total + i
        BY <1>2, <1>5
      <4>2. j > Total /\ j - Total = i
        BY <1>5, <4>1
      <4>3. At(j)' = <<n, i>>
        BY <1>2, <1>6, <4>1, <4>2
      <4> QED
        BY <3>3, <4>1, <4>3
    <3>5. ASSUME ~ half' PROVE \A i \in MsgLen + 1 .. Frame : At(Place(n) + i)' = Mark
      <4> SUFFICES ASSUME NEW i \in MsgLen + 1 .. Frame PROVE At(Place(n) + i)' = Mark
        OBVIOUS
      <4>1. PICK j \in 1 .. Total + Len(bytes) : j = Total + i
        BY <1>2, <1>5, <3>5
      <4>2. j > Total /\ j - Total = i
        BY <1>5, <4>1
      <4>3. At(j)' = Mark
        BY <1>2, <1>6, <3>5, <4>1, <4>2
      <4> QED
        BY <3>3, <4>1, <4>3
    <3>6. Complete(n)' <=> ~ half'
      BY <1>4 DEF Complete
    <3>7. Lies(n)'
      BY <1>2, <1>5, <1>6, <3>3, <3>4, <3>5, <3>6 DEF Lies, Frame
    <3>8. \A m \in Had' + 1 .. Due' : Lies(m)'
      <4> SUFFICES ASSUME NEW m \in Had + 1 .. n PROVE Lies(m)'
        BY <1>7, <3>1
      <4>1. m = n \/ m \in Had + 1 .. Due
        BY <1>4, <1>5, <3>1
      <4> QED
        BY <1>5, <2>2, <3>1, <3>7, <4>1
    <3>9. spoiler' = 0 => Total' = (written' - Had') * Frame
      <4> SUFFICES ASSUME spoiler' = 0 PROVE Total + Len(bytes) = (n - Had) * Frame
        BY <1>4, <1>6, <1>7
      <4>1. ~ half'
        BY <1>1, <1>4, <1>5
      <4>2. PICK d \in Nat : d = written - Had
        BY <1>5, <3>1
      <4>3. n - Had = d + 1
        BY <1>4, <1>5, <4>2
      <4>4. (d + 1) * Frame = d * Frame + Frame
        BY <1>5
      <4>5. Total = d * Frame
        BY <2>1, <2>4, <4>2 DEF Promise
      <4> QED
        BY <1>2, <4>1, <4>3, <4>4, <4>5
    <3>10. Given'
      <4>1. Given
        BY <2>1 DEF Promise
      <4> QED
        BY <1>3, <1>5, <2>4, <4>1 DEF Given
    <3>12. Had' <= Due' /\ loc' < Frame
      BY <1>3, <1>4, <1>5, <1>7, <2>1, <3>1 DEF Promise
    <3> QED
      BY <1>3, <1>7, <2>10, <3>8, <3>9, <3>10, <3>12 DEF Promise, Frame
  <2> QED
    BY <2>3, <2>4
<1> QED
  BY <1>9, <1>10, <1>11, <1>12 DEF FInv

LEMMA FInvWriteBoundary ==
  ASSUME TInv, FInv, WriteBoundary
  PROVE  FInv'
<1>0. TypeOK /\ Framed /\ Spoiled
  BY DEF TInv, FInv
<1>1. /\ pipe' = pipe \o Boundary /\ buffer' = buffer /\ loc' = loc
      /\ UNCHANGED <<place, tries, parsed, written, ones, spoiler>>
  BY DEF WriteBoundary, heard
<1>2. half /\ ~ half'
  BY DEF WriteBoundary
<1>3. /\ Had \in Nat /\ written \in 0 .. Requests /\ spoiler \in 0 .. written + 1
      /\ loc \in Nat /\ Total \in Nat /\ loc <= Total
      /\ MsgLen \in Nat /\ Frame = MsgLen + 3 /\ DOMAIN parsed = 1 .. Had
  BY <1>0, FramedTypes, Numbers
<1>4. /\ Total' = Total + 3
      /\ \A i \in 1 .. Total : At(i)' = At(i)
      /\ \A i \in 1 .. Total + 3 : i > Total => At(i)' = Mark
  <2>1. /\ Total' = Total + 3
        /\ \A i \in 1 .. Total : At(i)' = At(i)
        /\ \A i \in 1 .. Total + 3 : i > Total => At(i)' = Boundary[i - Total]
    BY <1>0, <1>1, BoundaryBytes, Grown
  <2> QED
    BY <1>3, <2>1, BoundaryBytes
<1>5. Had' = Had /\ spoiler # 0
  BY <1>0, <1>1, <1>2 DEF Had, Spoiled
<1>6. \A m : Complete(m)' /\ (~ Complete(m) => m = written)
  BY <1>2 DEF Complete
<1>7. Spoiled'
  BY <1>0, <1>1, <1>2 DEF Spoiled, Ones
<1>8. Framed'
  BY <1>0, <1>1 DEF Framed, Promised
<1>9. (Good' <=> Good) /\ Due' = Due /\ Due = spoiler - 1
  BY <1>1, <1>5 DEF Good, Due
<1>10. ASSUME Good PROVE Promise'
  <2>1. Promise
    BY <1>10 DEF FInv
  <2>2. ASSUME NEW m \in Had + 1 .. Due PROVE Lies(m)'
    <3>1. m \in Nat /\ m > Had /\ Lies(m)
      BY <1>3, <1>9, <2>1 DEF Promise
    <3>2. CASE Complete(m)
      BY <1>0, <1>3, <1>4, <1>5, <1>6, <3>1, <3>2, LiesStill
    <3>3. CASE ~ Complete(m)
      <4>1. /\ Total = Place(m) + MsgLen /\ Place(m) \in Nat
            /\ \A i \in 1 .. MsgLen : At(Place(m) + i) = <<m, i>>
        BY <1>3, <3>1, <3>3, Places DEF Lies
      <4>2. Place(m)' = Place(m)
        BY <1>5 DEF Place, Frame
      <4>3. \A i \in 1 .. MsgLen : At(Place(m) + i)' = <<m, i>>
        <5> SUFFICES ASSUME NEW i \in 1 .. MsgLen PROVE At(Place(m) + i)' = <<m, i>>
          OBVIOUS
        <5>1. PICK j \in 1 .. Total : j = Place(m) + i
          BY <1>3, <4>1
        <5>2. At(j)' = At(j)
          BY <1>4
        <5> QED
          BY <4>1, <4>2, <5>1, <5>2
      <4>4. \A i \in MsgLen + 1 .. Frame : At(Place(m) + i)' = Mark
        <5> SUFFICES ASSUME NEW i \in MsgLen + 1 .. Frame PROVE At(Place(m) + i)' = Mark
          OBVIOUS
        <5>1. PICK j \in 1 .. Total + 3 : j = Place(m) + i
          BY <1>3, <4>1
        <5>2. At(j)' = Mark
          BY <1>3, <1>4, <4>1, <5>1
        <5> QED
          BY <4>2, <5>1, <5>2
      <4> QED
        BY <1>3, <1>4, <1>6, <4>1, <4>2, <4>3, <4>4 DEF Lies, Frame
    <3> QED
      BY <3>2, <3>3
  <2>3. Given'
    <3>1. Given
      BY <2>1 DEF Promise
    <3> QED
      BY <1>1, <1>5, <3>1 DEF Given
  <2>4. \A m \in Had' + 1 .. Due' : Lies(m)'
    BY <1>5, <1>9, <2>2
  <2>5. Unfound'
    <3> SUFFICES ASSUME NEW j \in MsgLen .. loc PROVE (\E i \in j - 2 .. j : ~ IsMark(At(i)))'
      BY <1>1 DEF Unfound
    <3>1. PICK i \in j - 2 .. j : ~ IsMark(At(i))
      BY <2>1 DEF Promise, Unfound
    <3>2. i \in 1 .. Total
      BY <1>3, Numbers
    <3>3. At(i)' = At(i)
      BY <1>4, <3>2
    <3> QED
      BY <1>1, <3>1, <3>3 DEF IsMark
  <2> QED
    BY <1>1, <1>5, <1>9, <2>1, <2>3, <2>4, <2>5 DEF Promise, Frame
<1> QED
  BY <1>7, <1>8, <1>9, <1>10 DEF FInv

----------------------------------------------------------------------------
(* The invariant.                                                          *)

LEMMA SInvKept ==
  ASSUME SInv, UNCHANGED <<tcp, got, read>>
  PROVE  SInv'
BY DEF SInv, Left, StreamFramed

LEMMA InitIInv == Init => IInv
<1> SUFFICES ASSUME Init PROVE IInv
  OBVIOUS
<1>1. /\ added = {} /\ subscribed = {} /\ tcp_buffer = {}
      /\ epoll = {} /\ ready = {} /\ place = "setup" /\ batch = {}
      /\ pipe = <<>> /\ buffer = [i \in 1 .. BufLen |-> NoByte] /\ loc = 0 /\ resv = Chunk
      /\ tries = 0 /\ tcp = <<>> /\ arrived = 0 /\ got = 0 /\ hungup = FALSE
      /\ written = 0 /\ ones = {} /\ half = FALSE /\ spoiler = 0
      /\ parsed = <<>> /\ read = <<>>
  BY DEF Init
<1>2. TablesOK
  BY <1>1 DEF TablesOK, Files
<1>3. PipeOK
  <2>1. 0 \in 0 .. BufLen - Chunk
    BY Numbers
  <2> QED
    BY <1>1, <2>1 DEF PipeOK
<1>4. TriesOK /\ ErrnoOK
  <2>1. TriesOK
    BY <1>1, Numbers DEF TriesOK
  <2>2. ErrnoOK
    BY Zenon DEF Init, ErrnoOK
  <2> QED
    BY <2>1, <2>2
<1>5. TcpOK /\ ArrivedOK
  <2>1. tcp \in Seq(1 .. StreamLen) /\ Len(tcp) = 0
    BY <1>1
  <2>2. 0 < 2 * TcpLen
    <3>1. TcpLen \in Nat /\ TcpLen >= 1
      BY Numbers
    <3> QED
      BY <3>1
  <2>3. TcpOK
    BY <2>1, <2>2 DEF TcpOK
  <2>4. arrived \in 0 .. StreamLen /\ got \in 0 .. arrived
    BY <1>1, StreamLenNat
  <2>5. hungup \in BOOLEAN
    BY <1>1
  <2> QED
    BY <2>3, <2>4, <2>5 DEF ArrivedOK
<1>6. ClientOK
  <2>1. half \in BOOLEAN /\ ones = {} /\ written = 0 /\ spoiler = 0
    BY <1>1
  <2>2. 0 \in 0 .. Requests
    BY Numbers
  <2> QED
    BY <2>1, <2>2 DEF ClientOK
<1>7. ParsedOK /\ ReadOK
  BY <1>1 DEF ParsedOK, ReadOK
<1>8. TypeOK
  BY <1>2, <1>3, <1>4, <1>5, <1>6, <1>7, Types
<1>9. Len(pipe) = 0 /\ Len(parsed) = 0 /\ Len(read) = 0 /\ Len(tcp) = 0
      /\ DOMAIN parsed = {} /\ DOMAIN read = {}
  BY <1>1
<1>10. Total = 0 /\ Had = 0 /\ Due = 0
  BY <1>1, <1>9 DEF Total, Had, Due
<1>11. Dense /\ Ended /\ Searched
  BY <1>1, <1>10, Numbers DEF Dense, Ended, Written, Searched
<1>12. Control
  BY <1>1 DEF Control
<1>13. SInv
  <2>1. 0 * TcpLen = 0
    BY Numbers
  <2> QED
    BY <1>1, <1>9, <2>1 DEF SInv, Left, StreamFramed
<1>14. Spoiled /\ Framed
  BY <1>1, <1>9 DEF Spoiled, Framed
<1>15. Promise
  <2>1. (0 - 0) * Frame = 0
    BY Numbers
  <2>2. Frame > 0
    BY Numbers
  <2> QED
    BY <1>1, <1>10, <2>1, <2>2, Numbers DEF Promise, Given, Unfound
<1> QED
  BY <1>8, <1>11, <1>12, <1>13, <1>14, <1>15 DEF IInv, TInv, FInv

LEMMA NextIInv == IInv /\ [Next]_vars => IInv'
<1> SUFFICES ASSUME IInv, [Next]_vars PROVE IInv'
  OBVIOUS
<1>0. TInv /\ SInv /\ FInv /\ TypeOK
  BY DEF IInv, TInv
<1>1. ASSUME (\E f \in Files : Add(f)) \/ StartSync \/ PollWait \/ (\E f \in Files : Look(f)) \/ PollEnds
      PROVE  IInv'
  <2>1. UNCHANGED <<tcp, got, read>>
    BY <1>1 DEF Add, StartSync, PollWait, Look, PollEnds, stream, heard
  <2> QED
    BY <1>0, <1>1, <2>1, TInvStart, TInvPoll, SInvKept, FInvOthers DEF IInv
<1>2. ASSUME Arrive \/ HangUp PROVE IInv'
  <2>1. UNCHANGED <<tcp, got, read>>
    BY <1>2 DEF Arrive, HangUp, heard
  <2> QED
    BY <1>0, <1>2, <2>1, TInvArrivals, SInvKept, FInvOthers DEF IInv
<1>3. ASSUME ReadEmpty \/ ReadEnds \/ ReadTcpEmpty \/ ReadTcpEof PROVE IInv'
  <2>1. UNCHANGED <<tcp, got, read>>
    BY <1>3 DEF ReadEmpty, ReadEnds, ReadTcpEmpty, ReadTcpEof, stream, heard
  <2> QED
    BY <1>0, <1>3, <2>1, TInvEmpty, SInvKept, FInvEmpty, FInvOthers DEF IInv
<1>4. ASSUME ReadPart PROVE IInv'
  <2>1. UNCHANGED <<tcp, got, read>>
    BY <1>4 DEF ReadPart, stream, heard
  <2> QED
    BY <1>0, <1>4, <2>1, TInvReadPart, SInvKept, FInvReadPart DEF IInv
<1>5. ASSUME ReadMark PROVE IInv'
  <2>1. UNCHANGED <<tcp, got, read>>
    BY <1>5 DEF ReadMark, stream
  <2> QED
    BY <1>0, <1>5, <2>1, TInvReadMark, SInvKept, FInvReadMark DEF IInv
<1>6. ASSUME Rest PROVE IInv'
  <2>1. UNCHANGED <<tcp, got, read>>
    BY <1>6 DEF Rest, stream
  <2> QED
    BY <1>0, <1>6, <2>1, TInvRest, SInvKept, FInvRest DEF IInv
<1>7. ASSUME ReadTcp PROVE IInv'
  BY <1>0, <1>7, IInvReadTcp, FInvOthers DEF IInv
<1>8. ASSUME NEW n \in 1 .. Requests, Write(n) \/ WriteRequest(n) PROVE IInv'
  <2>1. UNCHANGED <<tcp, got, read>>
    BY <1>8 DEF Write, WriteRequest, Writes, stream, heard
  <2> QED
    BY <1>0, <1>8, <2>1, TInvWrite, SInvKept, FInvWrite DEF IInv
<1>9. ASSUME WriteBoundary PROVE IInv'
  <2>1. UNCHANGED <<tcp, got, read>>
    BY <1>9 DEF WriteBoundary, stream, heard
  <2> QED
    BY <1>0, <1>9, <2>1, TInvWriteBoundary, SInvKept, FInvWriteBoundary DEF IInv
<1>10. CASE UNCHANGED vars
  <2>1. /\ UNCHANGED <<tables, epoll, ready, place, batch>>
        /\ UNCHANGED <<pipe, buffer, loc, resv, tries, errno>>
        /\ UNCHANGED <<tcp, arrived, got, hungup, parsed, read>>
        /\ UNCHANGED <<client, written, ones, half, spoiler>>
    BY <1>10 DEF vars, udp, stream, client, heard
  <2>2. TypeOK'
    BY <1>0, <2>1, SameTypes, TypesAgain
  <2>3. Dense' /\ Ended' /\ Searched'
    BY <1>0, <2>1, Unmoved DEF TInv
  <2>4. Control'
    <3>1. Control /\ (half => written >= 1)'
      BY <1>0, <2>1, SameHalf DEF TInv
    <3> QED
      BY <2>1, <3>1 DEF Control
  <2>5. SInv'
    BY <1>0, <2>1, SInvKept
  <2>6. FInv'
    BY <1>0, <2>1, FInvKept
  <2> QED
    BY <2>2, <2>3, <2>4, <2>5, <2>6 DEF IInv, TInv
<1> QED
  BY <1>1, <1>2, <1>3, <1>4, <1>5, <1>6, <1>7, <1>8, <1>9, <1>10 DEF Next, Exchange, Client

(* Of what the dispatcher keeps: the buffer of the pipe never overflows,   *)
(* whatever is written and however it is read, for a boundary is found in  *)
(* it first; nor does the buffer of the socket hold two messages.          *)
THEOREM BuffersBounded == Spec => []TypeOK
<1>1. IInv => TypeOK
  BY DEF IInv, TInv
<1> QED
  BY <1>1, InitIInv, NextIInv, PTL DEF Spec

(* poll_one hands parse the requests, each once, whole and in order, for   *)
(* any lengths of requests and reads and any bytes in them, up to the      *)
(* first that holds a boundary, ends in its byte or is written in two      *)
(* pieces (see Framed).                                                    *)
THEOREM PipeIsFramed == Spec => []Framed
<1>1. IInv => Framed
  BY DEF IInv, FInv
<1> QED
  BY <1>1, InitIInv, NextIInv, PTL DEF Spec

(* The dispatcher hands on the socket's bytes as the client's messages,    *)
(* wherever the reads cut them.                                            *)
THEOREM StreamIsCut == Spec => []StreamFramed
<1>1. IInv => StreamFramed
  BY DEF IInv, SInv
<1> QED
  BY <1>1, InitIInv, NextIInv, PTL DEF Spec
=============================================================================
