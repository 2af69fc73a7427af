----------------------------- MODULE OrderBook -----------------------------
(***************************************************************************)
(* What the ASX ITCH client makes of the messages of the feed (the parseX  *)
(* functions of ASX_ITCH_1_1_Handler): the products, the unique order ids, *)
(* the order book, the updates it sends and the file it records.           *)
(* Messages come in the order of the feed, a book's on one thread; but     *)
(* the threads of the client (a dispatcher's reader, and the thread that   *)
(* starts a session and drains a channel's queue) share one handler, and   *)
(* only the order table has a lock.  An action is what a thread does       *)
(* between two accesses to what is shared: the message and its symbol, the *)
(* id, the table under its lock, the update.                               *)
(*                                                                         *)
(* The table and the recorder are libraries; the exchange is external.     *)
(* Times, the depth update and the session's 'T' and 'S' are left out.     *)
(***************************************************************************)
EXTENDS Integers, FiniteSets, FiniteSetsExt

CONSTANTS
  Books,           \* order books of the exchange
  Cash,            \* those whose directory says financial product 5
  Keys,            \* orders: an order id, a book and a side
  Prices, Decimals,\* prices as the messages carry them; decimals of a book
  Quantities, Matches,
  Threads, ThreadOf,  \* the threads, and the one that takes a book's messages
  Modes,           \* live, or recording, with the switches of the recorder
  Feeds,           \* the orders, prices and modes of a behaviour (bound)
  FirstIds,        \* what the uninitialized m_order_id may hold
  SizeMod,         \* sizes of the table are 32 bits wide
  DirectoryFirst   \* TRUE: a book's directory comes before its other messages

Sides == {"B", "S"}

ASSUME KeyAssumption == \A k \in Keys : k.book \in Books /\ k.side \in Sides
ASSUME BookAssumption == /\ Cash \subseteq Books /\ IsFiniteSet(Books)
                         /\ Decimals \in [Books -> Nat]
                         /\ ThreadOf \in [Books -> Threads]
ASSUME NumberAssumption == /\ SizeMod \in Nat \ {0} /\ Prices \subseteq Nat
                           /\ Quantities \subseteq 1 .. SizeMod - 1
                           /\ FirstIds \subseteq Nat
ASSUME ModeAssumption ==
  /\ Modes \subseteq [builder : BOOLEAN, level2 : BOOLEAN, trades : BOOLEAN, old : BOOLEAN]
  /\ Feeds \subseteq [orders : SUBSET Keys, prices : SUBSET Prices,
                        modes : SUBSET Modes]

(* 'A' stands for 'F' too, which adds a participant; 'L' and 'O' only look *)
(* their book up.                                                          *)
Messages ==
       [type : {"R", "L", "O", "D"}, key : Keys]
  \cup [type : {"A", "U"}, key : Keys, price : Prices, qty : Quantities]
  \cup [type : {"E"}, key : Keys, qty : Quantities, match : Matches]
  \cup [type : {"C"}, key : Keys, qty : Quantities, match : Matches,
        price : Prices, printable : BOOLEAN]
  \cup [type : {"P"}, key : Keys, price : Prices, qty : Quantities]
  \cup [type : {"Z"}, key : Keys, bid : Quantities, ask : Quantities]

VARIABLES
  mode, feed,
  exch,     \* external: what the exchange has of an order, left = 0 when gone
  symbols,  \* the books m_symbol_info_map has an entry for
  product,  \* symbol_info::product_id, 0 when invalid
  ids,      \* m_order_id_hash
  m_order_id,
  book,     \* the orders of m_order_book
  m_trade,  \* the trade update of the handler, for every thread
  m_quote,  \* the product of its quote update
  shown,    \* the quote subscribers were last sent of a product
  said,     \* the trade or auction update the last step sent
  matched,  \* m_match_id_lookup
  replay,   \* the orders in the file recorded
  pc, msg, order_id, inside_changed, order_found, \* a thread and its locals
  was       \* history: what the exchange had before the thread's message

symbolVars == <<symbols, product>>
idVars == <<ids, m_order_id>>
updateVars == <<m_trade, m_quote, shown, said>>
recordVars == <<matched, replay>>
localVars == <<pc, msg, order_id, inside_changed, order_found, was>>
vars == <<mode, feed, exch, symbolVars, idVars, book, updateVars, recordVars, localVars>>

Gone == [price |-> 0, left |-> 0]
NoId == -1
Products == 0 .. Cardinality(Books)
Nothing == [product |-> 0]

----------------------------------------------------------------------------
(* The order table.  What it says of its own is external: whether the best *)
(* level of a product has changed, whether an order is on it.              *)

Beats(o, q) == IF o.side = "B" THEN o.price >= q.price ELSE o.price <= q.price
Line(B, p, s) == { o \in B : o.product = p /\ o.side = s }
Best(B, p, s) == { o \in Line(B, p, s) : \A q \in Line(B, p, s) : Beats(o, q) }
Level(B, p, s) == LET T == Best(B, p, s) IN
  [price |-> { o.price : o \in T }, size |-> MapThenSumSet(LAMBDA o : o.size, T)]
Inside(B, p) == [s \in Sides |-> Level(B, p, s)]
NoQuote == Inside({}, 0)

is_top_level(o) == o \in Best(book, o.product, o.side)

(* pow(10, 2 - num_decimals_in_price) in an integer: 0 from 3 decimals on. *)
Multiplier(b) ==
  CASE Decimals[b] = 0 -> 100 [] Decimals[b] = 1 -> 10 [] Decimals[b] = 2 -> 1 [] OTHER -> 0
MDPrice(m) == m.price * Multiplier(m.key.book)

(* The recorder: an order of the file takes a price and a size, is taken   *)
(* out at 0; an execution takes its size off.                              *)
Modified(R, id, price, size) ==
  { r \in R : r.id # id } \cup
  (IF size > 0 THEN {[id |-> id, price |-> price, size |-> size]} ELSE {})
Executed(R, id, shares) ==
  UNION { IF r.id = id THEN Modified({}, id, r.price, r.size - shares) ELSE {r} : r \in R }

Level2 == mode.builder /\ mode.level2

----------------------------------------------------------------------------
(* External: what the exchange may say next, and what it has then.         *)
Says(m) ==
  /\ m.key \in feed.orders
  /\ m.type \in {"A", "U", "C", "P"} => m.price \in feed.prices
  /\ m.type = "A" => exch[m.key] = Gone
  /\ m.type \in {"U", "D", "E", "C"} => exch[m.key] # Gone
  /\ m.type \in {"E", "C"} => m.qty <= exch[m.key].left
  /\ DirectoryFirst /\ m.type # "R" => m.key.book \in symbols

Has(m) ==
  CASE m.type \in {"A", "U"} -> [price |-> m.price, left |-> m.qty]
    [] m.type \in {"E", "C"} /\ m.qty < exch[m.key].left ->
         [exch[m.key] EXCEPT !.left = @ - m.qty]
    [] m.type \in {"R", "L", "O", "P", "Z"} -> exch[m.key]
    [] OTHER -> Gone

Flip(s) == IF s = "B" THEN "S" ELSE "B"

Init ==
  /\ feed \in Feeds /\ mode \in feed.modes
  /\ exch = [k \in Keys |-> Gone]
  /\ symbols = {} /\ product = [b \in Books |-> 0]
  /\ ids = [k \in Keys |-> NoId] /\ m_order_id \in FirstIds
  /\ book = {}
  /\ m_trade = [product |-> 0, price |-> 0, size |-> 0, side |-> "B"] /\ m_quote = 0
  /\ shown = [p \in Products |-> NoQuote] /\ said = Nothing
  /\ matched = {} /\ replay = {}
  /\ pc = [t \in Threads |-> "idle"] /\ msg = [t \in Threads |-> Nothing]
  /\ order_id = [t \in Threads |-> NoId]
  /\ inside_changed = [t \in Threads |-> 0] \* a product, 0 for none
  /\ order_found = [t \in Threads |-> FALSE]
  /\ was = [t \in Threads |-> Gone]

----------------------------------------------------------------------------
(* The message and the symbol of its book (get_symbol_info makes an entry  *)
(* for every book it meets).                                               *)

Symbols(m) == symbols \cup {m.key.book}

(* Without the recorder a new product is the number of entries so far.     *)
get_product_id_Known(m) == Cardinality(symbols)
get_product_id(m) == Cardinality(Symbols(m))

Directory(m) ==
  product' = IF /\ m.type = "R" /\ m.key.book \in Cash
                /\ product[m.key.book] = 0
             THEN [product EXCEPT ![m.key.book] = get_product_id(m)]
             ELSE product

(* A trade fills the shared update where an order message looks its order  *)
(* up; the auction update is filled and sent in one stretch.               *)
FillTrade(m) ==
  m_trade' = IF m.type = "P"
             THEN [product |-> product[m.key.book], price |-> MDPrice(m),
                   size |-> m.qty, side |-> Flip(m.key.side)]
             ELSE m_trade

(* get_unique_order_id looks the order up; the id of a new one is the next *)
(* number, and is entered by NewId.                                        *)
SameKey_NoSide(j, k) == j.order = k.order /\ j.book = k.book
SameKey(j, k) == j = k

Known(k) == { ids[j] : j \in { i \in Keys : SameKey(i, k) /\ ids[i] # NoId } }

Fate(m) ==
  IF m.type \in {"R", "L", "O"} \/ product[m.key.book] = 0 THEN "idle"
  ELSE IF m.type \in {"P", "Z"} THEN "send"
  ELSE IF Known(m.key) = {} THEN "new" ELSE "book"

Take(t, m) ==
  /\ pc[t] = "idle" /\ ThreadOf[m.key.book] = t
  /\ Says(m)
  /\ exch' = [exch EXCEPT ![m.key] = Has(m)]
  /\ symbols' = Symbols(m) /\ Directory(m)
  /\ pc' = [pc EXCEPT ![t] = Fate(m)]
  /\ IF Fate(m) = "idle"
     THEN UNCHANGED <<msg, was, m_trade>>
     ELSE /\ msg' = [msg EXCEPT ![t] = m]
          /\ was' = [was EXCEPT ![t] = exch[m.key]]
          /\ FillTrade(m)
  /\ \E i \in IF Fate(m) = "book" THEN Known(m.key)
             ELSE { IF Fate(m) = "new" THEN m_order_id + 1 ELSE NoId } :
       order_id' = [order_id EXCEPT ![t] = i]
  /\ said' = Nothing
  /\ UNCHANGED <<mode, feed, idVars, book, m_quote, shown, recordVars,
                 inside_changed, order_found>>

NewId_NoCount(t) ==
  /\ pc[t] = "new"
  /\ ids' = [ids EXCEPT ![msg[t].key] = order_id[t]]
  /\ pc' = [pc EXCEPT ![t] = "book"]
  /\ said' = Nothing
  /\ UNCHANGED <<mode, feed, exch, symbolVars, m_order_id, book, m_trade, m_quote, shown,
                 recordVars, msg, order_id, inside_changed, order_found, was>>

NewId(t) ==
  /\ pc[t] = "new"
  /\ m_order_id' = order_id[t]
  /\ ids' = [ids EXCEPT ![msg[t].key] = order_id[t]]
  /\ pc' = [pc EXCEPT ![t] = "book"]
  /\ said' = Nothing
  /\ UNCHANGED <<mode, feed, exch, symbolVars, book, m_trade, m_quote, shown, recordVars,
                 msg, order_id, inside_changed, order_found, was>>

----------------------------------------------------------------------------
(* The order table, under its lock.                                        *)

(* The thread goes on to send, with what it has found out.                 *)
Locals(t, found, p) ==
  /\ pc' = [pc EXCEPT ![t] = "send"]
  /\ order_found' = [order_found EXCEPT ![t] = found]
  /\ inside_changed' = [inside_changed EXCEPT ![t] = p]
  /\ said' = Nothing
  /\ UNCHANGED <<mode, feed, exch, symbolVars, idVars, shown, msg, order_id, was>>

unlocked_find_order(t) == { o \in book : o.id = order_id[t] }
NotFound(t) ==
  /\ pc[t] = "book" /\ msg[t].type # "A"
  /\ unlocked_find_order(t) = {}
  /\ Locals(t, FALSE, 0)
  /\ UNCHANGED <<book, m_trade, m_quote, recordVars>>

IfInside(B, p) == IF Inside(B, p) # Inside(book, p) THEN p ELSE 0
IfTop_After(o) == IF o \in Best(book \ {o}, o.product, o.side) THEN o.product ELSE 0
IfTop(o) == IF is_top_level(o) THEN o.product ELSE 0

Recorded(R) == replay' = IF Level2 THEN R ELSE replay

Add(t) ==
  /\ pc[t] = "book" /\ msg[t].type = "A"
  /\ LET m == msg[t]
         o == [id |-> order_id[t], product |-> product[m.key.book], side |-> m.key.side,
               price |-> MDPrice(m), size |-> m.qty % SizeMod]
     IN /\ book' = book \cup {o}
        /\ Recorded(Modified(replay, o.id, o.price, o.size))
        /\ Locals(t, TRUE, IfInside(book', o.product))
  /\ UNCHANGED <<m_trade, m_quote, matched>>

Delete(t) ==
  /\ pc[t] = "book" /\ msg[t].type = "D"
  /\ \E o \in unlocked_find_order(t) :
       /\ book' = book \ {o}
       /\ Recorded(Modified(replay, o.id, 0, 0))
       /\ m_quote' = IF is_top_level(o) THEN o.product ELSE m_quote
       /\ Locals(t, TRUE, IfTop(o))
  /\ UNCHANGED <<m_trade, matched>>

(* A replaced order keeps its id.                                          *)
Replace(t) ==
  /\ pc[t] = "book" /\ msg[t].type = "U"
  /\ \E o \in unlocked_find_order(t) :
       LET n == [o EXCEPT !.price = MDPrice(msg[t]), !.size = msg[t].qty % SizeMod] IN
       /\ book' = (book \ {o}) \cup {n}
       /\ Recorded(Modified(replay, n.id, n.price, n.size))
       /\ Locals(t, TRUE, IfInside(book', o.product))
  /\ UNCHANGED <<m_trade, m_quote, matched>>

new_size(o, m) == (o.size - m.qty) % SizeMod

Reduced_Stays(o, m) == (book \ {o}) \cup {[o EXCEPT !.size = new_size(o, m)]}
Reduced(o, m) ==
  (book \ {o}) \cup (IF new_size(o, m) > 0 THEN {[o EXCEPT !.size = new_size(o, m)]} ELSE {})

(* Before the date of the new auctions a match is recorded as an execution *)
(* once, for the first of its orders; for the other as a modification, as  *)
(* is an execution that is not to be printed.  'C' records its own price.  *)
RecordPrice(o, m) == IF m.type = "C" THEN MDPrice(m) ELSE o.price
skip_order(m) == mode.old /\ <<product[m.key.book], m.match>> \in matched
RecordExecution_Both(o, m) ==
  Recorded(Executed(IF skip_order(m) THEN Modified(replay, o.id, RecordPrice(o, m), new_size(o, m))
                    ELSE replay, o.id, m.qty))
RecordExecution(o, m) ==
  Recorded(IF skip_order(m) \/ (m.type = "C" /\ ~m.printable)
           THEN Modified(replay, o.id, RecordPrice(o, m), new_size(o, m))
           ELSE Executed(replay, o.id, m.qty))

(* 'E' fills price, product and side here, 'C' the price when it sends.    *)
Execute(t) ==
  /\ pc[t] = "book" /\ msg[t].type \in {"E", "C"}
  /\ \E o \in unlocked_find_order(t) : LET m == msg[t] IN
       /\ RecordExecution(o, m)
       /\ matched' = IF Level2 /\ mode.old
                     THEN matched \cup {<<product[m.key.book], m.match>>} ELSE matched
       /\ m_trade' = [m_trade EXCEPT !.product = o.product, !.side = Flip(o.side),
                                     !.price = IF m.type = "E" THEN o.price ELSE @]
       /\ book' = Reduced(o, m)
       /\ Locals(t, TRUE, IfTop(o))
  /\ UNCHANGED m_quote

----------------------------------------------------------------------------
(* The updates, outside the lock.                                          *)

(* What the trade update holds by the time it is sent.                     *)
TradeToSend_Size(m) == IF m.type = "P" THEN m_trade ELSE [m_trade EXCEPT !.size = m.qty]
TradeToSend(m) ==
  IF m.type = "P" THEN m_trade
  ELSE [m_trade EXCEPT !.size = m.qty, !.price = IF m.type = "C" THEN MDPrice(m) ELSE @]

IsTrade(t) == LET m == msg[t] IN
  \/ m.type = "E" /\ order_found[t]
  \/ m.type = "C" /\ order_found[t] /\ m.printable
  \/ m.type = "P" /\ ~(mode.builder /\ mode.trades)

(* Recording, only a trade of its own reaches a subscriber, when trades    *)
(* are left out of the file.                                               *)
send_trade_update(t) ==
  /\ m_trade' = IF IsTrade(t) THEN TradeToSend(msg[t]) ELSE m_trade
  /\ said' = IF IsTrade(t) /\ (~mode.builder \/ msg[t].type = "P") THEN m_trade' ELSE Nothing

QuoteProduct(t) ==
  CASE msg[t].type \in {"E", "C"} -> m_trade.product
    [] msg[t].type = "D" -> m_quote
    [] OTHER -> inside_changed[t]

send_quote_update(t) ==
  IF inside_changed[t] # 0
  THEN /\ m_quote' = QuoteProduct(t)
       /\ shown' = IF mode.builder THEN shown
                   ELSE [shown EXCEPT ![m_quote'] = Inside(book, m_quote')]
  ELSE UNCHANGED <<m_quote, shown>>

(* The auction update: what pairs, and what is left on one side.           *)
NoSide == " "
Auction(m) ==
  [product |-> product[m.key.book], paired |-> IF m.bid < m.ask THEN m.bid ELSE m.ask,
   imbalance |-> IF m.bid > m.ask THEN m.bid - m.ask ELSE m.ask - m.bid,
   side |-> CASE m.bid > m.ask -> "B" [] m.bid < m.ask -> "S" [] OTHER -> NoSide]

Send(t) ==
  /\ pc[t] = "send"
  /\ IF msg[t].type = "Z"
     THEN said' = Auction(msg[t]) /\ UNCHANGED <<m_trade, m_quote, shown>>
     ELSE send_trade_update(t) /\ send_quote_update(t)
  /\ pc' = [pc EXCEPT ![t] = "idle"]
  /\ msg' = [msg EXCEPT ![t] = Nothing]
  /\ order_id' = [order_id EXCEPT ![t] = NoId]
  /\ inside_changed' = [inside_changed EXCEPT ![t] = 0]
  /\ order_found' = [order_found EXCEPT ![t] = FALSE]
  /\ was' = [was EXCEPT ![t] = Gone]
  /\ UNCHANGED <<mode, feed, exch, symbolVars, idVars, book, recordVars>>

----------------------------------------------------------------------------
(* start and stop empty the table and say so to nobody; reset leaves a gap *)
(* marker in the file and sends an invalid quote.                          *)

StartStop ==
  /\ book' = {} /\ said' = Nothing
  /\ UNCHANGED <<mode, feed, exch, symbolVars, idVars, m_trade, m_quote, shown, recordVars, localVars>>

Reset ==
  /\ book' = {} /\ said' = Nothing
  /\ replay' = IF mode.builder THEN {} ELSE replay
  /\ shown' = [p \in Products |-> NoQuote]
  /\ UNCHANGED <<mode, feed, exch, symbolVars, idVars, m_trade, m_quote, matched, localVars>>

Step(t) ==
  \/ \E m \in Messages : Take(t, m)
  \/ NewId(t) \/ NotFound(t) \/ Add(t) \/ Delete(t) \/ Replace(t) \/ Execute(t)
  \/ Send(t)

Next == StartStop \/ Reset \/ \E t \in Threads : Step(t)

Spec == Init /\ [][Next]_vars

----------------------------------------------------------------------------
(* An order of the table always has a size.                                *)
Orders == [id : Nat, product : Products, side : Sides, price : Nat, size : 1 .. SizeMod - 1]

TypeOK ==
  /\ mode \in Modes /\ feed \in Feeds
  /\ exch \in [Keys -> [price : Nat, left : Nat]]
  /\ symbols \subseteq Books /\ product \in [Books -> Products]
  /\ ids \in [Keys -> Nat \cup {NoId}] /\ m_order_id \in Nat
  /\ book \subseteq Orders
  /\ pc \in [Threads -> {"idle", "new", "book", "send"}]
  /\ msg \in [Threads -> Messages \cup {Nothing}]
  /\ order_id \in [Threads -> Nat \cup {NoId}]
  /\ inside_changed \in [Threads -> Products]
  /\ order_found \in [Threads -> BOOLEAN]
  /\ was \in [Threads -> [price : Nat, left : Nat]]
  /\ \A t \in Threads : pc[t] # "idle" <=> msg[t] # Nothing

(* get_unique_order_id never gives two orders of the exchange one id,      *)
(* whatever book or side they share.                                       *)
IdsDistinct == \A j, k \in Keys : ids[j] = ids[k] /\ ids[j] # NoId => j = k

(* Two books never share a product: the table would mix their orders.      *)
ProductsDistinct ==
  \A b, c \in Books : product[b] = product[c] /\ product[b] # 0 => b = c

(* What the exchange has of an order, before the message a thread has not  *)
(* brought to the table yet.                                               *)
AtTable(t, k) == pc[t] \in {"new", "book"} /\ msg[t].key = k
Due(k) == IF \E t \in Threads : AtTable(t, k)
          THEN { was[t] : t \in { s \in Threads : AtTable(s, k) } }
          ELSE { exch[k] }

(* 10 ^ num_decimals_in_price                                              *)
Unit(b) == CASE Decimals[b] = 0 -> 1 [] Decimals[b] = 1 -> 10
             [] Decimals[b] = 2 -> 100 [] OTHER -> 1000

(* Every order of the table is one the exchange has: its book and side,    *)
(* its price in hundredths and what is left of it, after any number of     *)
(* executions, replacements and resets.                                    *)
Mirrors(o, k) ==
  /\ ids[k] = o.id
  /\ o.product = product[k.book] /\ o.side = k.side
  /\ \E e \in Due(k) : e.left = o.size /\ e.price * 100 = o.price * Unit(k.book)
Mirror == \A o \in book : \E k \in Keys : Mirrors(o, k)

(* While a product has orders, the quote its subscribers were sent is the  *)
(* inside of the table.                                                    *)
QuoteCurrent ==
  ~mode.builder /\ (\A t \in Threads : pc[t] # "send") =>
    \A o \in book : shown[o.product] = Inside(book, o.product)

(* The file recorded gives back every order of the table with its size,    *)
(* whichever record an execution became.                                   *)
ReplayMirrors ==
  Level2 => \A o \in book : \E r \in replay : r.id = o.id /\ r.size = o.size

TradesTheOrder(t) == LET m == msg[t] IN
  /\ said'.product = product[m.key.book] /\ said'.side = Flip(m.key.side)
  /\ said'.price * Unit(m.key.book) =
       (IF m.type = "E" THEN was[t].price ELSE m.price) * 100

(* The trade sent for an execution is one of the order the exchange has    *)
(* executed, although the message names it by its number only: its         *)
(* product, the side that took it, and the price the exchange had it at    *)
(* ('E') or says ('C'), after any replacements, and with nothing left of   *)
(* an earlier trade in the one update of the handler.  For one thread:     *)
(* with two on a handler the other may fill the update in between.         *)
TradeOfTheOrder ==
  [][\A t \in Threads :
       /\ msg[t] # Nothing /\ msg[t].type \in {"E", "C"}
       /\ pc'[t] = "idle" /\ said' # Nothing
       => TradesTheOrder(t)]_vars
=============================================================================
