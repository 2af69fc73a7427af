-------------------------- MODULE OrderBookUpdates --------------------------
(***************************************************************************)
(* Proofs about what the order book of the client tells others, with the   *)
(* one thread a handler is made for: the quote its subscribers were last   *)
(* sent, the order file it records, the trades of executions.              *)
(***************************************************************************)
EXTENDS OrderBookProofs

----------------------------------------------------------------------------
(* The inside of a product.                                                *)

LEMMA SameInside ==
  ASSUME NEW B, NEW C, NEW p, \A s \in Sides : Best(B, p, s) = Best(C, p, s)
  PROVE  Inside(B, p) = Inside(C, p)
<1>1. ASSUME NEW s \in Sides PROVE Level(B, p, s) = Level(C, p, s)
  BY <1>1 DEF Level
<1>2. QED
  BY <1>1 DEF Inside

(* Only the orders of a product matter to its inside.                      *)
LEMMA OtherOrders ==
  ASSUME NEW B, NEW C, NEW p, \A o : o.product = p => (o \in B <=> o \in C)
  PROVE  Inside(B, p) = Inside(C, p)
<1>1. ASSUME NEW s \in Sides PROVE Line(B, p, s) = Line(C, p, s)
  BY DEF Line
<1>2. \A s \in Sides : Best(B, p, s) = Best(C, p, s)
  BY <1>1 DEF Best
<1>3. QED
  BY <1>2, SameInside

LEMMA BeatsItself == ASSUME NEW o \in Orders PROVE Beats(o, o)
<1>1. o.price \in Nat
  BY DEF Orders
<1>2. QED
  BY <1>1 DEF Beats

(* The first order of a product changes it.                                *)
LEMMA FirstOrder ==
  ASSUME NEW B \in SUBSET Orders, NEW o \in Orders, \A q \in B : q.product # o.product
  PROVE  Inside(B, o.product) # Inside(B \cup {o}, o.product)
<1> DEFINE p == o.product
           s == o.side
<1>1. Best(B, p, s) = {}
  BY DEF Best, Line
<1>2. Line(B \cup {o}, p, s) = {o}
  BY DEF Line
<1>3. o \in Best(B \cup {o}, p, s)
  <2>1. Beats(o, o)
    BY BeatsItself
  <2>2. QED
    BY <1>2, <2>1 DEF Best
<1>4. Level(B, p, s).price = {} /\ o.price \in Level(B \cup {o}, p, s).price
  BY <1>1, <1>3 DEF Level
<1>5. s \in Sides
  BY DEF Orders
<1>6. QED
  BY <1>4, <1>5 DEF Inside

(* An order that is not on the best level can go, or lose some of its      *)
(* size, and nobody sees it.                                               *)
LEMMA BehindTheBest ==
  ASSUME NEW B \in SUBSET Orders, NEW o \in B, o \notin Best(B, o.product, o.side),
         NEW N \in SUBSET Orders,
         \A n \in N : n.product = o.product /\ n.side = o.side /\ n.price = o.price
  PROVE  \A p : Inside((B \ {o}) \cup N, p) = Inside(B, p)
<1> DEFINE C == (B \ {o}) \cup N
<1> SUFFICES ASSUME NEW p PROVE Inside(C, p) = Inside(B, p)
  OBVIOUS
<1>1. CASE p # o.product
  BY <1>1, OtherOrders
<1>2. CASE p = o.product
  <2>1. ASSUME NEW s \in Sides PROVE Best(C, p, s) = Best(B, p, s)
    <3>1. CASE s # o.side
      <4>1. Line(C, p, s) = Line(B, p, s)
        BY <3>1 DEF Line
      <4>2. QED
        BY <4>1 DEF Best
    <3>2. CASE s = o.side
      <4>1. o \in Line(B, p, s)
        BY <1>2, <3>2 DEF Line
      <4>2. PICK q \in Line(B, p, s) : ~Beats(o, q)
        BY <1>2, <3>2, <4>1 DEF Best
      <4>3. Line(C, p, s) = (Line(B, p, s) \ {o}) \cup N
        BY <1>2, <3>2 DEF Line
      <4>4. \A r \in Line(B, p, s) \cup N : r \in Orders /\ r.price \in Nat /\ r.side = s
        BY <3>2 DEF Line, Orders
      <4>5. q # o /\ q \in Line(C, p, s)
        BY <4>1, <4>2, <4>3, BeatsItself
      <4>6. \A n \in N : n \notin Best(C, p, s)
        BY <4>1, <4>2, <4>4, <4>5 DEF Best, Beats
      <4>7. \A r \in Line(B, p, s) : Beats(r, q) => Beats(r, o) /\ \A n \in N : Beats(r, n)
        BY <4>1, <4>2, <4>4 DEF Beats
      <4>8. ASSUME NEW r \in Best(B, p, s) PROVE r \in Best(C, p, s)
        <5>1. r \in Line(B, p, s) /\ Beats(r, q) /\ r # o
          BY <1>2, <3>2, <4>8 DEF Best
        <5>2. \A z \in Line(C, p, s) : Beats(r, z)
          BY <4>3, <4>7, <4>8, <5>1 DEF Best
        <5>3. QED
          BY <4>3, <5>1, <5>2 DEF Best
      <4>9. ASSUME NEW r \in Best(C, p, s) PROVE r \in Best(B, p, s)
        <5>1. r \in Line(C, p, s) /\ r \in Line(B, p, s) /\ Beats(r, q)
          BY <4>3, <4>5, <4>6, <4>9 DEF Best
        <5>2. \A z \in Line(B, p, s) : Beats(r, z)
          BY <4>3, <4>7, <4>9, <5>1 DEF Best
        <5>3. QED
          BY <5>1, <5>2 DEF Best
      <4>10. QED
        BY <4>8, <4>9
    <3>3. QED
      BY <3>1, <3>2
  <2> HIDE DEF C
  <2>2. QED
    BY <2>1, SameInside
<1>3. QED
  BY <1>1, <1>2

----------------------------------------------------------------------------
(* The trade update of the handler is a whole one, whatever threads there  *)
(* are.                                                                    *)

Trades == [product : Products, price : Nat, size : Nat, side : Sides]
TradeOK == m_trade \in Trades

LEMMA MDPriceNat ==
  ASSUME NEW m \in Messages, m.type \in {"A", "U", "C", "P"}
  PROVE  MDPrice(m) \in Nat
<1>1. Multiplier(m.key.book) \in {0, 1, 10, 100}
  BY DEF Multiplier
<1>2. m.price \in Nat
  BY NumberAssumption DEF Messages
<1>3. QED
  BY <1>1, <1>2 DEF MDPrice

(* The numbers of every message that has them.                             *)
LEMMA Counted ==
  ASSUME NEW m \in Messages
  PROVE  /\ m.type \in {"A", "U", "E", "C", "P"} => m.qty \in 1 .. SizeMod - 1
         /\ m.type = "Z" => m.bid \in 1 .. SizeMod - 1 /\ m.ask \in 1 .. SizeMod - 1
<1>1. m.type \in {"A", "U", "E", "C", "P"} => m.qty \in Quantities
  BY DEF Messages
<1>2. m.type = "Z" => m.bid \in Quantities /\ m.ask \in Quantities
  BY DEF Messages
<1>3. QED
  BY <1>1, <1>2, NumberAssumption

LEMMA TradeInit == Init => TradeOK
<1>1. 0 \in Products
  BY EntryCount, FS_EmptySet DEF Products
<1>2. QED
  BY <1>1 DEF Init, Trades, TradeOK, Sides

LEMMA TradeTake ==
  ASSUME TInv, m_trade \in Trades, NEW t \in Threads, NEW m \in Messages, Take(t, m)
  PROVE  m_trade' \in Trades
<1>1. CASE m.type = "P" /\ m_trade' # m_trade
  <2>1. m_trade' = [product |-> product[m.key.book], price |-> MDPrice(m),
                    size |-> m.qty, side |-> Flip(m.key.side)]
    BY <1>1 DEF Take, FillTrade
  <2>2. product[m.key.book] \in Products
    BY KeyBook DEF TInv, TypeOK
  <2>3. MDPrice(m) \in Nat
    BY <1>1, MDPriceNat
  <2>4. m.qty \in Nat
    BY <1>1, Counted, NumberAssumption
  <2>5. QED
    BY <2>1, <2>2, <2>3, <2>4 DEF Trades, Flip, Sides
<1>2. QED
  BY <1>1 DEF Take, FillTrade

LEMMA TradeExecute ==
  ASSUME TInv, m_trade \in Trades, NEW t \in Threads, Execute(t)
  PROVE  m_trade' \in Trades
<1>1. PICK o \in unlocked_find_order(t) :
        m_trade' = [m_trade EXCEPT !.product = o.product, !.side = Flip(o.side),
                                   !.price = IF msg[t].type = "E" THEN o.price ELSE @]
  BY DEF Execute
<1>2. o \in Orders
  BY DEF unlocked_find_order, TInv, TypeOK
<1>3. QED
  BY <1>1, <1>2 DEF Trades, Orders, Flip, Sides

LEMMA TradeSend ==
  ASSUME TInv, m_trade \in Trades, NEW t \in Threads, Send(t)
  PROVE  m_trade' \in Trades
<1>1. msg[t] \in Messages
  BY DEF Send, TInv, TypeOK
<1>2. CASE IsTrade(t) /\ msg[t].type # "Z"
  <2>1. m_trade' = TradeToSend(msg[t]) /\ msg[t].type \in {"P", "E", "C"}
    BY <1>2 DEF Send, send_trade_update, IsTrade
  <2>2. CASE msg[t].type = "P"
    BY <2>1, <2>2 DEF TradeToSend
  <2>3. CASE msg[t].type \in {"E", "C"}
    <3>1. msg[t].qty \in Nat /\ (msg[t].type = "C" => MDPrice(msg[t]) \in Nat)
      BY <1>1, <2>3, MessageFields, MDPriceNat
    <3>2. QED
      BY <2>1, <2>3, <3>1 DEF TradeToSend, Trades
  <2>4. QED
    BY <2>1, <2>2, <2>3
<1>3. QED
  BY <1>2 DEF Send, send_trade_update

LEMMA TradeNext == TInv /\ TradeOK /\ [Next]_vars => TradeOK'
<1> SUFFICES ASSUME TInv, m_trade \in Trades, [Next]_vars PROVE m_trade' \in Trades
  BY DEF TradeOK
<1>1. ASSUME NEW t \in Threads, Step(t) PROVE m_trade' \in Trades
  BY <1>1, TradeTake, TradeExecute, TradeSend
  DEF Step, NewId, NotFound, Add, Delete, Replace
<1>2. QED
  BY <1>1 DEF Next, StartStop, Reset, vars, updateVars

----------------------------------------------------------------------------
(* The quote.                                                              *)

(* The message in work is for a product the table has; the quote about to  *)
(* be sent is of the product that changed.                                 *)
Quoting(t) ==
  /\ pc[t] \in {"new", "book"} => product[msg[t].key.book] # 0
  /\ pc[t] # "send" => inside_changed[t] = 0
  /\ pc[t] = "send" /\ inside_changed[t] # 0 =>
       msg[t].type # "Z" /\ QuoteProduct(t) = inside_changed[t]

Quoted(o) == shown[o.product] = Inside(book, o.product)

QInv ==
  /\ DOMAIN shown = Products
  /\ \A o \in book : o.product # 0
  /\ \A t \in Threads : Quoting(t)
  /\ ~mode.builder =>
       \A o \in book : Quoted(o) \/ \E t \in Threads :
                         pc[t] = "send" /\ inside_changed[t] = o.product

LEMMA QInvInit == Init => QInv
  BY DEF Init, QInv, Quoting

LEMMA QInvTake ==
  ASSUME TInv, QInv, NEW t \in Threads, Threads = {t}, NEW m \in Messages, Take(t, m)
  PROVE  QInv'
<1>1. /\ pc' = [pc EXCEPT ![t] = Fate(m)] /\ pc[t] = "idle" /\ book' = book /\ shown' = shown
      /\ inside_changed' = inside_changed /\ mode' = mode
  BY DEF Take
<1>2. pc \in [Threads -> {"idle", "new", "book", "send"}] /\ msg \in [Threads -> Messages \cup {Nothing}]
  BY DEF TInv, TypeOK
<1>3. pc'[t] = Fate(m) /\ inside_changed[t] = 0
  BY <1>1, <1>2 DEF QInv, Quoting
<1>4. ASSUME Fate(m) \in {"new", "book"} PROVE product'[msg'[t].key.book] # 0
  <2>1. msg' = [msg EXCEPT ![t] = m]
    BY <1>4 DEF Take
  <2>2. m.type # "R" /\ product[m.key.book] # 0
    BY <1>4 DEF Fate
  <2>3. product' = product /\ msg'[t] = m
    BY <1>2, <2>1, <2>2 DEF Take, Directory
  <2>4. QED
    BY <2>2, <2>3
<1>5. Quoting(t)'
  BY <1>1, <1>3, <1>4 DEF Quoting
<1>6. ~mode'.builder => \A o \in book' : Quoted(o)'
  BY <1>1 DEF QInv, Quoted
<1>7. QED
  BY <1>1, <1>5, <1>6 DEF QInv

LEMMA QInvNewId ==
  ASSUME TInv, QInv, NEW t \in Threads, Threads = {t}, NewId(t)
  PROVE  QInv'
<1>1. /\ pc' = [pc EXCEPT ![t] = "book"] /\ pc[t] = "new" /\ book' = book /\ shown' = shown
      /\ inside_changed' = inside_changed /\ mode' = mode /\ product' = product /\ msg' = msg
  BY DEF NewId, symbolVars
<1>2. pc'[t] = "book"
  BY <1>1 DEF TInv, TypeOK
<1>3. Quoting(t)'
  BY <1>1, <1>2 DEF QInv, Quoting
<1>4. QED
  BY <1>1, <1>3 DEF QInv, Quoted

(* What an operation on the table has to keep: an inside that differs is   *)
(* said to have changed, and of the product that will be looked up.        *)
LEMMA QInvTable ==
  ASSUME TInv, QInv, NEW t \in Threads, Threads = {t}, pc[t] = "book",
         NEW f, NEW p, Locals(t, f, p),
         p # 0 => msg[t].type # "Z" /\ QuoteProduct(t)' = p,
         \A o \in book' :
           /\ o.product # 0
           /\ \/ p = o.product
              \/ /\ Inside(book', o.product) = Inside(book, o.product)
                 /\ \E q \in book : q.product = o.product
  PROVE  QInv'
<1>1. /\ pc' = [pc EXCEPT ![t] = "send"] /\ inside_changed' = [inside_changed EXCEPT ![t] = p]
      /\ shown' = shown /\ mode' = mode /\ msg' = msg
  BY DEF Locals
<1>2. pc'[t] = "send" /\ inside_changed'[t] = p
  BY <1>1 DEF TInv, TypeOK
<1>3. Quoting(t)'
  BY <1>1, <1>2 DEF Quoting
<1>4. ASSUME ~mode.builder, NEW o \in book', p # o.product PROVE Quoted(o)'
  <2>1. PICK q \in book : q.product = o.product
    BY <1>4
  <2>2. Quoted(q)
    BY <1>4, <2>1 DEF QInv
  <2>3. QED
    BY <1>1, <1>4, <2>1, <2>2 DEF Quoted
<1>5. QED
  BY <1>1, <1>2, <1>3, <1>4 DEF QInv

LEMMA QInvNotFound ==
  ASSUME TInv, QInv, NEW t \in Threads, Threads = {t}, NotFound(t)
  PROVE  QInv'
<1>1. pc[t] = "book" /\ Locals(t, FALSE, 0) /\ book' = book
  BY DEF NotFound
<1>2. QED
  BY <1>1, QInvTable DEF QInv

LEMMA QInvAdd ==
  ASSUME TInv, QInv, NEW t \in Threads, Threads = {t}, Add(t)
  PROVE  QInv'
<1> DEFINE m == msg[t]
           n == [id |-> order_id[t], product |-> product[m.key.book], side |-> m.key.side,
                 price |-> MDPrice(m), size |-> m.qty % SizeMod]
           p == IfInside(book', n.product)
<1>1. /\ pc[t] = "book" /\ m.type = "A" /\ book' = book \cup {n} /\ Locals(t, TRUE, p)
      /\ book \subseteq Orders /\ TInv'
  BY TInvAdd DEF Add, TInv, TypeOK
<1>2. n.product # 0
  BY <1>1 DEF QInv, Quoting
<1>3. n \in Orders
  <2> HIDE DEF n
  <2>1. QED
    BY <1>1 DEF TInv, TypeOK
<1>4. msg' = msg /\ inside_changed'[t] = p
  <2> HIDE DEF p
  <2>1. QED
    BY <1>1 DEF Locals, TInv, TypeOK
<1>5. QuoteProduct(t)' = p
  BY <1>1, <1>4 DEF QuoteProduct
<1> HIDE DEF m, n
<1>6. ASSUME NEW o \in book', p # o.product
      PROVE  /\ Inside(book', o.product) = Inside(book, o.product)
             /\ \E q \in book : q.product = o.product
  <2>1. CASE o.product = n.product
    <3>1. Inside(book', n.product) = Inside(book, n.product)
      BY <1>6, <2>1 DEF IfInside
    <3>2. QED
      BY <1>1, <1>3, <2>1, <3>1, FirstOrder
  <2>2. CASE o.product # n.product
    <3>1. o \in book
      BY <1>1, <2>2
    <3>2. Inside(book', o.product) = Inside(book, o.product)
      BY <1>1, <2>2, OtherOrders
    <3>3. QED
      BY <3>1, <3>2
  <2>3. QED
    BY <2>1, <2>2
<1>7. \A o \in book' : o.product # 0
  BY <1>1, <1>2 DEF QInv
<1>8. /\ p # 0 => msg[t].type # "Z" /\ QuoteProduct(t)' = p
      /\ pc[t] = "book" /\ Locals(t, TRUE, p)
  BY <1>1, <1>5 DEF m
<1> HIDE DEF p
<1>9. QED
  BY <1>6, <1>7, <1>8, QInvTable

LEMMA QInvReplace ==
  ASSUME TInv, QInv, NEW t \in Threads, Threads = {t}, Replace(t)
  PROVE  QInv'
<1> DEFINE n(o) == [o EXCEPT !.price = MDPrice(msg[t]), !.size = msg[t].qty % SizeMod]
<1>1. PICK o \in unlocked_find_order(t) :
        /\ book' = (book \ {o}) \cup {n(o)} /\ pc[t] = "book" /\ msg[t].type = "U"
        /\ Locals(t, TRUE, IfInside(book', o.product))
  BY DEF Replace
<1> DEFINE p == IfInside(book', o.product)
<1>2. o \in book /\ o \in Orders
  BY DEF unlocked_find_order, TInv, TypeOK
<1>3. n(o).product = o.product
  BY <1>2 DEF Orders
<1>4. msg' = msg /\ inside_changed'[t] = p
  BY <1>1 DEF Locals, TInv, TypeOK
<1>5. QuoteProduct(t)' = p
  BY <1>1, <1>4 DEF QuoteProduct
<1> HIDE DEF n
<1>6. ASSUME NEW q \in book', p # q.product
      PROVE  /\ Inside(book', q.product) = Inside(book, q.product)
             /\ \E r \in book : r.product = q.product
  <2>1. CASE q.product = o.product
    BY <1>2, <1>6, <2>1 DEF IfInside
  <2>2. CASE q.product # o.product
    <3>1. q \in book
      BY <1>1, <1>3, <2>2
    <3>2. Inside(book', q.product) = Inside(book, q.product)
      BY <1>1, <1>3, <2>2, OtherOrders
    <3>3. QED
      BY <3>1, <3>2
  <2>3. QED
    BY <2>1, <2>2
<1>7. \A q \in book' : q.product # 0
  BY <1>1, <1>2, <1>3 DEF QInv
<1> HIDE DEF p
<1>8. QED
  BY <1>1, <1>5, <1>6, <1>7, QInvTable DEF p

(* An order that goes or shrinks takes the thread's quote with it when it  *)
(* was on the best level.                                                  *)
LEMMA QInvShrink ==
  ASSUME TInv, QInv, NEW t \in Threads, Threads = {t}, pc[t] = "book",
         NEW o \in book, NEW N \in SUBSET Orders,
         \A n \in N : n.product = o.product /\ n.side = o.side /\ n.price = o.price,
         book' = (book \ {o}) \cup N, Locals(t, TRUE, IfTop(o)), msg[t].type # "Z",
         IfTop(o) # 0 => QuoteProduct(t)' = o.product
  PROVE  QInv'
<1>1. book \in SUBSET Orders /\ o.product # 0
  BY DEF TInv, TypeOK, QInv
<1>2. IfTop(o) \in {0, o.product}
  BY DEF IfTop
<1>3. ASSUME NEW q \in book', IfTop(o) # q.product
      PROVE  /\ Inside(book', q.product) = Inside(book, q.product)
             /\ \E r \in book : r.product = q.product
  <2>1. CASE q.product = o.product
    <3>1. o \notin Best(book, o.product, o.side)
      BY <1>3, <2>1 DEF IfTop, is_top_level
    <3>2. \A p : Inside((book \ {o}) \cup N, p) = Inside(book, p)
      BY <1>1, <3>1, BehindTheBest
    <3>3. QED
      BY <2>1, <3>2
  <2>2. CASE q.product # o.product
    <3>1. q \in book
      BY <2>2
    <3>2. Inside(book', q.product) = Inside(book, q.product)
      BY <2>2, OtherOrders
    <3>3. QED
      BY <3>1, <3>2
  <2>3. QED
    BY <2>1, <2>2
<1>4. \A q \in book' : q.product # 0
  BY <1>1 DEF QInv
<1>5. QED
  BY <1>2, <1>3, <1>4, QInvTable

LEMMA QInvDelete ==
  ASSUME TInv, QInv, NEW t \in Threads, Threads = {t}, Delete(t)
  PROVE  QInv'
<1>1. PICK o \in unlocked_find_order(t) :
        /\ book' = book \ {o} /\ Locals(t, TRUE, IfTop(o)) /\ pc[t] = "book"
        /\ msg[t].type = "D" /\ m_quote' = IF is_top_level(o) THEN o.product ELSE m_quote
  BY DEF Delete
<1>2. o \in book /\ book' = (book \ {o}) \cup {}
  BY <1>1 DEF unlocked_find_order
<1>3. IfTop(o) # 0 => QuoteProduct(t)' = o.product
  BY <1>1 DEF IfTop, QuoteProduct, Locals
<1>4. {} \in SUBSET Orders /\ \A n \in {} : n.product = o.product /\ n.side = o.side /\ n.price = o.price
  OBVIOUS
<1>5. pc[t] = "book" /\ msg[t].type # "Z" /\ Locals(t, TRUE, IfTop(o))
  BY <1>1
<1>6. QED
  BY <1>2, <1>3, <1>4, <1>5, QInvShrink

LEMMA QInvExecute ==
  ASSUME TInv, QInv, m_trade \in Trades, NEW t \in Threads, Threads = {t}, Execute(t)
  PROVE  QInv'
<1> DEFINE m == msg[t]
           n(o) == [o EXCEPT !.size = new_size(o, m)]
<1>1. PICK o \in unlocked_find_order(t) :
        /\ book' = Reduced(o, m) /\ Locals(t, TRUE, IfTop(o)) /\ pc[t] = "book"
        /\ m.type \in {"E", "C"}
        /\ m_trade' = [m_trade EXCEPT !.product = o.product, !.side = Flip(o.side),
                                      !.price = IF m.type = "E" THEN o.price ELSE @]
  BY DEF Execute
<1> DEFINE N == IF new_size(o, m) > 0 THEN {n(o)} ELSE {}
<1>2. o \in book /\ o \in Orders /\ TInv'
  BY TInvTable DEF unlocked_find_order, TInv, TypeOK
<1>3. \A q \in N : q.product = o.product /\ q.side = o.side /\ q.price = o.price
  BY <1>2 DEF Orders
<1>4. book' = (book \ {o}) \cup N
  BY <1>1 DEF Reduced
<1>5. N \subseteq Orders
  <2> HIDE DEF N
  <2>1. QED
    BY <1>2, <1>4 DEF TInv, TypeOK
<1> HIDE DEF N
<1>6. QuoteProduct(t)' = o.product
  <2>1. m_trade'.product = o.product
    BY <1>1 DEF Trades
  <2>2. QED
    BY <1>1, <2>1 DEF QuoteProduct, Locals
<1>7. pc[t] = "book" /\ msg[t].type # "Z" /\ Locals(t, TRUE, IfTop(o))
  BY <1>1
<1>8. QED
  BY <1>2, <1>3, <1>4, <1>5, <1>6, <1>7, QInvShrink

LEMMA QInvSend ==
  ASSUME TInv, QInv, NEW t \in Threads, Threads = {t}, Send(t)
  PROVE  QInv'
<1>1. /\ pc[t] = "send" /\ pc' = [pc EXCEPT ![t] = "idle"] /\ book' = book /\ mode' = mode
      /\ inside_changed' = [inside_changed EXCEPT ![t] = 0]
  BY DEF Send
<1>2. pc'[t] = "idle" /\ inside_changed'[t] = 0
  BY <1>1 DEF TInv, TypeOK
<1>3. CASE inside_changed[t] = 0
  <2>1. shown' = shown
    BY <1>3 DEF Send, send_quote_update
  <2>2. \A o \in book : Quoted(o) => Quoted(o)'
    BY <1>1, <2>1 DEF Quoted
  <2>3. ~mode'.builder => \A o \in book : Quoted(o)'
    BY <1>1, <1>3, <2>2 DEF QInv
  <2>4. QED
    BY <1>1, <1>2, <2>1, <2>3 DEF QInv, Quoting
<1>4. CASE inside_changed[t] # 0
  <2> DEFINE p == inside_changed[t]
  <2>1. p \in Products /\ QuoteProduct(t) = p /\ msg[t].type # "Z"
    BY <1>1, <1>4 DEF QInv, Quoting, TInv, TypeOK
  <2>2. shown' = IF mode.builder THEN shown ELSE [shown EXCEPT ![p] = Inside(book, p)]
    BY <1>4, <2>1 DEF Send, send_quote_update
  <2>3. DOMAIN shown = Products
    BY DEF QInv
  <2>4. ASSUME ~mode.builder, NEW o \in book PROVE Quoted(o)'
    <3>1. CASE o.product = p
      BY <1>1, <2>1, <2>2, <2>3, <2>4, <3>1 DEF Quoted
    <3>2. CASE o.product # p
      <4>1. Quoted(o)
        BY <2>4, <3>2 DEF QInv
      <4>2. o.product \in Products
        BY DEF TInv, TypeOK, Orders
      <4>3. shown'[o.product] = shown[o.product]
        BY <2>2, <2>3, <3>2, <4>2
      <4>4. QED
        BY <1>1, <4>1, <4>3 DEF Quoted
    <3>3. QED
      BY <3>1, <3>2
  <2>5. DOMAIN shown' = Products
    BY <2>2, <2>3
  <2>6. QED
    BY <1>1, <1>2, <2>4, <2>5 DEF QInv, Quoting
<1>5. QED
  BY <1>3, <1>4

LEMMA QInvNext == OneThread /\ TInv /\ TradeOK /\ QInv /\ [Next]_vars => QInv'
<1> SUFFICES ASSUME OneThread, TInv, TradeOK, QInv, [Next]_vars PROVE QInv'
  OBVIOUS
<1>1. CASE StartStop
  BY <1>1 DEF StartStop, QInv, Quoting, QuoteProduct, symbolVars, localVars
<1>2. CASE Reset
  BY <1>2 DEF Reset, QInv, Quoting, QuoteProduct, symbolVars, localVars
<1>3. ASSUME NEW t \in Threads, Step(t) PROVE QInv'
  <2>1. Threads = {t}
    BY DEF OneThread
  <2>2. QED
    BY <1>3, <2>1, QInvTake, QInvNewId, QInvNotFound, QInvAdd, QInvDelete, QInvReplace,
       QInvExecute, QInvSend DEF Step, TradeOK
<1>4. CASE UNCHANGED vars
  BY <1>4 DEF QInv, Quoting, Quoted, QuoteProduct, vars, symbolVars, updateVars, localVars
<1>5. QED
  BY <1>1, <1>2, <1>3, <1>4 DEF Next

(* While a product has orders, the quote its subscribers were last sent is *)
(* the inside of the table (fill_quote_update on what inside_changed, the  *)
(* trade update or the quote update say), with one thread.                 *)
THEOREM QuoteIsTheInside ==
  ASSUME OneThread
  PROVE  Spec => []QuoteCurrent
<1>1. QInv => QuoteCurrent
  BY DEF QInv, Quoted, QuoteCurrent
<1>2. TInv /\ TradeOK /\ QInv /\ [Next]_vars => TInv' /\ TradeOK' /\ QInv'
  BY QInvNext, TradeNext, TInvNext
<1>3. Init => TInv /\ TradeOK /\ QInv
  BY QInvInit, TradeInit, TInvInit
<1>4. QED
  BY <1>1, <1>2, <1>3, PTL DEF Spec

----------------------------------------------------------------------------
(* The file recorded.  What it has to give back is inductive as it stands, *)
(* beside what the table mirrors.                                          *)

LEMMA ModifiedRecords ==
  ASSUME NEW R, NEW id, NEW price, NEW size
  PROVE  /\ \A r \in R : r.id # id => r \in Modified(R, id, price, size)
         /\ size > 0 => \E r \in Modified(R, id, price, size) : r.id = id /\ r.size = size
<1>1. \A r \in R : r.id # id => r \in Modified(R, id, price, size)
  BY DEF Modified
<1>2. ASSUME size > 0
      PROVE  [id |-> id, price |-> price, size |-> size] \in Modified(R, id, price, size)
  BY <1>2 DEF Modified
<1>3. QED
  BY <1>1, <1>2

LEMMA ExecutedRecords ==
  ASSUME NEW R, NEW id, NEW shares
  PROVE  /\ \A r \in R : r.id # id => r \in Executed(R, id, shares)
         /\ \A r \in R : r.id = id /\ r.size - shares > 0 =>
              \E q \in Executed(R, id, shares) : q.id = id /\ q.size = r.size - shares
<1> DEFINE F(r) == IF r.id = id THEN Modified({}, id, r.price, r.size - shares) ELSE {r}
<1>1. \A r \in R : F(r) \subseteq Executed(R, id, shares)
  BY DEF Executed
<1>2. \A r \in R : r.id # id => r \in F(r)
  OBVIOUS
<1>3. ASSUME NEW r \in R, r.id = id, r.size - shares > 0
      PROVE  \E q \in F(r) : q.id = id /\ q.size = r.size - shares
  BY <1>3, ModifiedRecords
<1> HIDE DEF F
<1>4. QED
  BY <1>1, <1>2, <1>3

(* An execution never takes more than there is: sizes do not wrap.         *)
LEMMA NoWrap ==
  ASSUME TInv, MInv, NEW t \in Threads, pc[t] = "book", msg[t].type \in {"E", "C"},
         NEW o \in book, o.id = order_id[t]
  PROVE  new_size(o, msg[t]) = o.size - msg[t].qty /\ o.size - msg[t].qty \in Nat
<1> DEFINE m == msg[t]
<1>1. m \in Messages /\ Working(t)
  BY DEF TInv, TypeOK, MInv
<1>2. m.qty \in 1 .. SizeMod - 1 /\ m.qty <= was[t].left
  BY <1>1, MessageFields DEF Working
<1>3. StandsFor(o, m.key, t) /\ Owed(m.key, t) = was[t] /\ o \in Orders
  BY Mine
<1>4. was[t].left = o.size /\ o.size \in 1 .. SizeMod - 1
  BY <1>3 DEF StandsFor, Orders
<1>5. o.size - m.qty \in 0 .. SizeMod - 1
  BY <1>2, <1>4, NumberAssumption
<1>6. QED
  BY <1>5, Modulo, NumberAssumption DEF new_size

(* The record of an order.                                                 *)
Replayed(o) == \E r \in replay : r.id = o.id /\ r.size = o.size

(* What any operation on the table has to keep: the records of other ids,  *)
(* and a record for what it leaves at its own.                             *)
LEMMA ReplayTable ==
  ASSUME TInv, MInv, ReplayMirrors, NEW t \in Threads,
         mode' = mode, NEW R, Recorded(R),
         \A r \in replay : r.id # order_id[t] => r \in R,
         \A o \in book' : \/ o \in book /\ o.id # order_id[t]
                          \/ \E r \in R : r.id = o.id /\ r.size = o.size
  PROVE  ReplayMirrors'
<1> SUFFICES ASSUME Level2, NEW o \in book' PROVE \E r \in R : r.id = o.id /\ r.size = o.size
  BY DEF ReplayMirrors, Level2, Recorded
<1>1. CASE o \in book /\ o.id # order_id[t]
  BY <1>1 DEF ReplayMirrors
<1>2. QED
  BY <1>1

LEMMA ReplayAdd ==
  ASSUME TInv, MInv, Exact, ReplayMirrors, NEW t \in Threads, Add(t)
  PROVE  ReplayMirrors'
<1> DEFINE m == msg[t]
           n == [id |-> order_id[t], product |-> product[m.key.book], side |-> m.key.side,
                 price |-> MDPrice(m), size |-> m.qty % SizeMod]
           R == Modified(replay, n.id, n.price, n.size)
<1>1. pc[t] = "book" /\ m.type = "A" /\ book' = book \cup {n} /\ Recorded(R) /\ mode' = mode
  BY DEF Add, Locals
<1>2. m \in Messages /\ Working(t)
  BY <1>1 DEF TInv, TypeOK, MInv
<1>3. m.qty % SizeMod > 0
  BY <1>1, <1>2, Counted, Modulo
<1>4. ASSUME NEW o \in book, o.id = order_id[t] PROVE FALSE
  <2>1. StandsFor(o, m.key, t) /\ Owed(m.key, t) = was[t] /\ o \in Orders
    BY <1>1, <1>4, Mine
  <2>2. was[t] = Gone
    BY <1>1, <1>2 DEF Working
  <2>3. o.size = 0 /\ o.size \in 1 .. SizeMod - 1
    BY <2>1, <2>2 DEF StandsFor, Gone, Orders
  <2>4. QED
    BY <2>3, NumberAssumption
<1>5. n.id = order_id[t] /\ n.size > 0
  BY <1>3
<1> HIDE DEF n, m
<1>6. /\ \A r \in replay : r.id # order_id[t] => r \in R
      /\ \E r \in R : r.id = n.id /\ r.size = n.size
  BY <1>5, ModifiedRecords
<1> HIDE DEF R
<1>7. \A o \in book' : \/ o \in book /\ o.id # order_id[t]
                       \/ \E r \in R : r.id = o.id /\ r.size = o.size
  BY <1>1, <1>4, <1>6
<1>8. QED
  BY <1>1, <1>6, <1>7, ReplayTable

LEMMA ReplayDelete ==
  ASSUME TInv, MInv, Exact, ReplayMirrors, NEW t \in Threads, Delete(t)
  PROVE  ReplayMirrors'
<1>1. PICK o \in unlocked_find_order(t) :
        /\ book' = book \ {o} /\ pc[t] = "book" /\ Recorded(Modified(replay, o.id, 0, 0))
        /\ mode' = mode
  BY DEF Delete, Locals
<1> DEFINE R == Modified(replay, o.id, 0, 0)
<1>2. o \in book /\ o.id = order_id[t]
  BY DEF unlocked_find_order
<1>3. \A q \in book' : q \in book /\ q.id # order_id[t]
  BY <1>1, <1>2, OnlyMine
<1>4. \A r \in replay : r.id # order_id[t] => r \in R
  BY <1>2, ModifiedRecords
<1>5. Recorded(R)
  BY <1>1
<1> HIDE DEF R
<1>6. QED
  BY <1>1, <1>3, <1>4, <1>5, ReplayTable

LEMMA ReplayReplace ==
  ASSUME TInv, MInv, Exact, ReplayMirrors, NEW t \in Threads, Replace(t)
  PROVE  ReplayMirrors'
<1> DEFINE n(o) == [o EXCEPT !.price = MDPrice(msg[t]), !.size = msg[t].qty % SizeMod]
<1>1. PICK o \in unlocked_find_order(t) :
        /\ book' = (book \ {o}) \cup {n(o)} /\ pc[t] = "book" /\ msg[t].type = "U"
        /\ Recorded(Modified(replay, n(o).id, n(o).price, n(o).size)) /\ mode' = mode
  BY DEF Replace, Locals
<1> DEFINE R == Modified(replay, n(o).id, n(o).price, n(o).size)
<1>2. o \in book /\ o.id = order_id[t] /\ o \in Orders
  BY DEF unlocked_find_order, TInv, TypeOK
<1>3. msg[t] \in Messages
  BY <1>1 DEF TInv, TypeOK
<1>4. msg[t].qty % SizeMod > 0
  BY <1>1, <1>3, Counted, Modulo
<1>5. n(o).id = order_id[t] /\ n(o).size > 0
  BY <1>2, <1>4 DEF Orders
<1> HIDE DEF n
<1>6. /\ \A r \in replay : r.id # order_id[t] => r \in R
      /\ \E r \in R : r.id = n(o).id /\ r.size = n(o).size
  BY <1>5, ModifiedRecords
<1>7. \A q \in book \ {o} : q.id # order_id[t]
  BY <1>1, <1>2, OnlyMine
<1>8. Recorded(R)
  BY <1>1
<1> HIDE DEF R
<1>9. \A q \in book' : \/ q \in book /\ q.id # order_id[t]
                       \/ \E r \in R : r.id = q.id /\ r.size = q.size
  BY <1>1, <1>6, <1>7
<1>10. QED
  BY <1>1, <1>6, <1>8, <1>9, ReplayTable

LEMMA ReplayExecute ==
  ASSUME TInv, MInv, Exact, ReplayMirrors, NEW t \in Threads, Execute(t)
  PROVE  ReplayMirrors'
<1> DEFINE m == msg[t]
           n(o) == [o EXCEPT !.size = new_size(o, m)]
           M(o) == Modified(replay, o.id, RecordPrice(o, m), new_size(o, m))
           E(o) == Executed(replay, o.id, m.qty)
<1>1. PICK o \in unlocked_find_order(t) :
        /\ book' = Reduced(o, m) /\ pc[t] = "book" /\ m.type \in {"E", "C"}
        /\ RecordExecution(o, m) /\ mode' = mode
  BY DEF Execute, Locals
<1>2. o \in book /\ o.id = order_id[t] /\ o \in Orders
  BY DEF unlocked_find_order, TInv, TypeOK
<1>3. new_size(o, m) = o.size - m.qty
  BY <1>1, <1>2, NoWrap
<1> DEFINE R == IF skip_order(m) \/ (m.type = "C" /\ ~m.printable) THEN M(o) ELSE E(o)
<1>4. Recorded(R)
  BY <1>1 DEF RecordExecution
<1>5. \A r \in replay : r.id # order_id[t] => r \in R
  BY <1>2, ModifiedRecords, ExecutedRecords
<1>6. ASSUME Level2, new_size(o, m) > 0
      PROVE  \E r \in R : r.id = o.id /\ r.size = new_size(o, m)
  <2>1. \E r \in M(o) : r.id = o.id /\ r.size = new_size(o, m)
    BY <1>6, ModifiedRecords
  <2>2. PICK r \in replay : r.id = o.id /\ r.size = o.size
    BY <1>2, <1>6 DEF ReplayMirrors
  <2>3. \E q \in E(o) : q.id = o.id /\ q.size = new_size(o, m)
    BY <1>3, <1>6, <2>2, ExecutedRecords
  <2>4. QED
    BY <2>1, <2>3
<1>7. new_size(o, m) > 0 => n(o).id = o.id /\ n(o).size = new_size(o, m)
  BY <1>2 DEF Orders
<1>8. book' = (book \ {o}) \cup (IF new_size(o, m) > 0 THEN {n(o)} ELSE {})
  BY <1>1 DEF Reduced
<1>9. \A q \in book \ {o} : q.id # order_id[t]
  BY <1>1, <1>2, OnlyMine
<1> HIDE DEF R, n
<1>10. ASSUME Level2, NEW q \in book'
       PROVE  \/ q \in book /\ q.id # order_id[t]
              \/ \E r \in R : r.id = q.id /\ r.size = q.size
  BY <1>6, <1>7, <1>8, <1>9, <1>10
<1>11. CASE Level2
  BY <1>1, <1>4, <1>5, <1>10, <1>11, ReplayTable
<1>12. CASE ~Level2
  BY <1>1, <1>12 DEF ReplayMirrors, Level2
<1>13. QED
  BY <1>11, <1>12

LEMMA ReplayNext == OneThread /\ Exact /\ TInv /\ MInv /\ ReplayMirrors /\ [Next]_vars
                      => ReplayMirrors'
<1> SUFFICES ASSUME OneThread, Exact, TInv, MInv, ReplayMirrors, [Next]_vars
             PROVE ReplayMirrors'
  OBVIOUS
<1>1. CASE StartStop \/ Reset
  BY <1>1 DEF StartStop, Reset, ReplayMirrors
<1>2. ASSUME NEW t \in Threads, Step(t) PROVE ReplayMirrors'
  <2>1. CASE Add(t) \/ Delete(t) \/ Replace(t) \/ Execute(t)
    BY <2>1, ReplayAdd, ReplayDelete, ReplayReplace, ReplayExecute
  <2>2. CASE NewId(t) \/ NotFound(t) \/ Send(t) \/ \E m \in Messages : Take(t, m)
    BY <2>2 DEF NewId, NotFound, Locals, Send, Take, ReplayMirrors, Level2, recordVars
  <2>3. QED
    BY <1>2, <2>1, <2>2 DEF Step
<1>3. CASE UNCHANGED vars
  BY <1>3 DEF ReplayMirrors, Level2, vars, recordVars
<1>4. QED
  BY <1>1, <1>2, <1>3 DEF Next

(* The order file gives back every order of the table with its size,       *)
(* whichever record an execution became: one executed, one modified for a  *)
(* match already recorded or not to be printed.                            *)
THEOREM FileMirrors ==
  ASSUME OneThread, Exact
  PROVE  Spec => []ReplayMirrors
<1>1. Init => TInv /\ MInv /\ ReplayMirrors
  BY MInvInit, TInvInit DEF Init, ReplayMirrors
<1>2. TInv /\ MInv /\ ReplayMirrors /\ [Next]_vars => TInv' /\ MInv' /\ ReplayMirrors'
  BY ReplayNext, MInvNext, TInvNext
<1>3. QED
  BY <1>1, <1>2, PTL DEF Spec

----------------------------------------------------------------------------
(* The trades of executions.                                               *)

(* What the shared update holds when a thread is about to send.            *)
Filled(t) == LET m == msg[t]
                 b == msg[t].key.book
             IN
  /\ product[b] # 0
  /\ m.type \in {"E", "C"} /\ order_found[t] =>
       /\ m_trade.product = product[b] /\ m_trade.side = Flip(m.key.side)
       /\ m.type = "E" => m_trade.price * Unit(b) = was[t].price * 100

UInv == \A t \in Threads : pc[t] = "send" => Filled(t)

LEMMA UInvInit == Init => UInv
  BY DEF Init, UInv

LEMMA UInvTake ==
  ASSUME TInv, UInv, NEW t \in Threads, Threads = {t}, NEW m \in Messages, Take(t, m)
  PROVE  UInv'
<1> SUFFICES ASSUME Fate(m) = "send" PROVE Filled(t)'
  BY DEF UInv, Take, TInv, TypeOK
<1>1. m.type \in {"P", "Z"} /\ product[m.key.book] # 0
  BY DEF Fate
<1>2. product' = product
  BY <1>1 DEF Take, Directory
<1>3. msg'[t] = m
  BY DEF Take, TInv, TypeOK
<1>4. QED
  BY <1>1, <1>2, <1>3 DEF Filled

(* Where the table has not got the order, or the message trades nothing,   *)
(* there is nothing to fill.                                               *)
LEMMA UInvLocals ==
  ASSUME TInv, MInv, NEW t \in Threads, Threads = {t}, pc[t] = "book",
         NEW f, NEW p, Locals(t, f, p), f = FALSE \/ msg[t].type \notin {"E", "C"}
  PROVE  UInv'
<1>1. /\ product' = product /\ msg' = msg
      /\ order_found' = [order_found EXCEPT ![t] = f]
  BY DEF Locals, symbolVars
<1>2. order_found'[t] = f /\ product[msg[t].key.book] # 0 /\ msg[t].type \in OrderTypes
  BY <1>1 DEF TInv, TypeOK, Ready, MInv, Working
<1>3. Filled(t)'
  BY <1>1, <1>2 DEF Filled, OrderTypes
<1>4. QED
  BY <1>3 DEF UInv

LEMMA UInvExecute ==
  ASSUME TInv, MInv, TradeOK, NEW t \in Threads, Threads = {t}, Execute(t)
  PROVE  UInv'
<1> DEFINE m == msg[t]
           b == msg[t].key.book
<1>1. PICK o \in unlocked_find_order(t) :
        /\ pc[t] = "book" /\ m.type \in {"E", "C"}
        /\ m_trade' = [m_trade EXCEPT !.product = o.product, !.side = Flip(o.side),
                                      !.price = IF m.type = "E" THEN o.price ELSE @]
        /\ product' = product /\ msg' = msg /\ was' = was
  BY DEF Execute, Locals, symbolVars
<1>2. o \in book /\ o.id = order_id[t]
  BY DEF unlocked_find_order
<1>3. StandsFor(o, m.key, t) /\ Owed(m.key, t) = was[t]
  BY <1>1, <1>2, Mine
<1>4. /\ product[b] # 0 /\ o.product = product[b] /\ o.side = m.key.side
      /\ o.price * Unit(b) = was[t].price * 100
  BY <1>3 DEF StandsFor
<1>5. /\ m_trade'.product = o.product /\ m_trade'.side = Flip(o.side)
      /\ m.type = "E" => m_trade'.price = o.price
  BY <1>1 DEF TradeOK, Trades
<1>6. Filled(t)'
  BY <1>1, <1>4, <1>5 DEF Filled, Unit
<1>7. QED
  BY <1>6 DEF UInv

LEMMA UInvNext == OneThread /\ TInv /\ MInv /\ TradeOK /\ UInv /\ [Next]_vars => UInv'
<1> SUFFICES ASSUME OneThread, TInv, MInv, TradeOK, UInv, [Next]_vars PROVE UInv'
  OBVIOUS
<1>1. CASE StartStop \/ Reset
  BY <1>1 DEF StartStop, Reset, UInv, Filled, symbolVars, localVars
<1>2. ASSUME NEW t \in Threads, Step(t) PROVE UInv'
  <2>1. Threads = {t}
    BY DEF OneThread
  <2>2. CASE \E m \in Messages : Take(t, m)
    BY <2>1, <2>2, UInvTake
  <2>3. CASE NewId(t)
    BY <2>1, <2>3 DEF NewId, UInv, TInv, TypeOK
  <2>4. CASE NotFound(t)
    BY <2>1, <2>4, UInvLocals DEF NotFound
  <2>5. CASE Add(t)
    BY <2>1, <2>5, UInvLocals DEF Add
  <2>6. CASE Delete(t)
    BY <2>1, <2>6, UInvLocals DEF Delete
  <2>7. CASE Replace(t)
    BY <2>1, <2>7, UInvLocals DEF Replace
  <2>8. CASE Execute(t)
    BY <2>1, <2>8, UInvExecute
  <2>9. CASE Send(t)
    BY <2>1, <2>9 DEF Send, UInv, TInv, TypeOK
  <2>10. QED
    BY <1>2, <2>2, <2>3, <2>4, <2>5, <2>6, <2>7, <2>8, <2>9 DEF Step
<1>3. CASE UNCHANGED vars
  BY <1>3 DEF UInv, Filled, vars, symbolVars, updateVars, localVars
<1>4. QED
  BY <1>1, <1>2, <1>3 DEF Next

(* An order found is traded at the price its message leaves in the update. *)
LEMMA SendTrades ==
  ASSUME TInv, MInv, TradeOK, UInv, Exact, NEW t \in Threads, Send(t), said' # Nothing,
         msg[t].type \in {"E", "C"}
  PROVE  TradesTheOrder(t)
<1> DEFINE m == msg[t]
           b == msg[t].key.book
<1>1. pc[t] = "send" /\ m \in Messages /\ Filled(t)
  BY DEF Send, TInv, TypeOK, UInv
<1>2. IsTrade(t) /\ said' = TradeToSend(m) /\ order_found[t]
  BY DEF Send, send_trade_update, IsTrade
<1>3. b \in Cash
  BY <1>1, KeyBook DEF Filled, MInv
<1>4. m.type = "C" => MDPrice(m) * Unit(b) = m.price * 100
  <2>1. m.type = "C" => m.price \in Nat
    BY <1>1, NumberAssumption DEF Messages
  <2>2. QED
    BY <1>3, <2>1, Hundredths DEF MDPrice
<1>5. /\ said'.product = m_trade.product /\ said'.side = m_trade.side
      /\ said'.price = IF m.type = "C" THEN MDPrice(m) ELSE m_trade.price
  BY <1>2 DEF TradeToSend, TradeOK, Trades
<1>6. QED
  BY <1>1, <1>2, <1>4, <1>5 DEF Filled, TradesTheOrder

(* The trade sent for an execution is of the order the exchange executed,  *)
(* although every parseX function fills and sends the one update of the    *)
(* handler: with one thread.                                               *)
THEOREM ExecutionsTrade ==
  ASSUME OneThread, Exact
  PROVE  Spec => TradeOfTheOrder
<1>1. Init => TInv /\ MInv /\ TradeOK /\ UInv
  BY UInvInit, TradeInit, MInvInit, TInvInit
<1>2. TInv /\ MInv /\ TradeOK /\ UInv /\ [Next]_vars => TInv' /\ MInv' /\ TradeOK' /\ UInv'
  BY UInvNext, TradeNext, MInvNext, TInvNext
<1>3. ASSUME TInv, MInv, TradeOK, UInv, [Next]_vars
      PROVE  [\A t \in Threads :
                 /\ msg[t] # Nothing /\ msg[t].type \in {"E", "C"}
                 /\ pc'[t] = "idle" /\ said' # Nothing
                 => TradesTheOrder(t)]_vars
  <2> SUFFICES ASSUME NEW t \in Threads, ~ UNCHANGED vars,
                      msg[t] # Nothing, msg[t].type \in {"E", "C"},
                      pc'[t] = "idle", said' # Nothing
               PROVE  TradesTheOrder(t)
    OBVIOUS
  <2>1. Threads = {t}
    BY DEF OneThread
  <2>2. Send(t)
    <3>1. ASSUME Step(t) PROVE Send(t)
      BY <3>1 DEF Step, Take, NewId, NotFound, Add, Delete, Replace, Execute, Locals
    <3>2. ~ StartStop /\ ~ Reset
      BY DEF StartStop, Reset
    <3>3. QED
      BY <1>3, <2>1, <3>1, <3>2 DEF Next
  <2>3. QED
    BY <1>3, <2>2, SendTrades
<1>4. QED
  BY <1>1, <1>2, <1>3, PTL DEF Spec, TradeOfTheOrder
=============================================================================
